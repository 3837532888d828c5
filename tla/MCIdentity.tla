----------------------------- MODULE MCIdentity ------------------------------
(* Identity for TLC: an operation of any kind alone, and the kinds that need *)
(* consent for different reasons together with another operation that has    *)
(* the same reference ID.                                                    *)
EXTENDS Identity

CONSTANTS first, second

MCOps == {first, second}
MCAlone == {[o \in MCOps |-> IF o = first THEN k ELSE None] : k \in Kinds}
MCPlans ==
    MCAlone \cup
    {[o \in MCOps |-> IF o = first THEN k ELSE "AddAccessor"] :
        k \in {"RegisterIdentity", "RevokeIdentityAssociation"}}
MCIdentities == {[here |-> {2, 3}, others |-> {}], [here |-> {2}, others |-> {}],
                 [here |-> {}, others |-> {2, 3}]}

=============================================================================
