----------------------------- MODULE MCRpRequest -----------------------------
(* RpRequest for TLC: the IdPs and the ASes are model values.                *)
EXTENDS RpRequest

CONSTANTS idp1, idp2, as1

MCIdps == {idp1, idp2}
MCAses == {as1}

=============================================================================
