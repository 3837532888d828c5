----------------------------- MODULE MCIdpNode ------------------------------
(* IdpNode for TLC: two good answers and one at the wrong level to a       *)
(* request of mode 2; one failure, one stop.                               *)
EXTENDS IdpNode

MCAsked == [mode |-> 2, ial |-> 2, aal |-> 1]
MCOnboarded == [modes |-> {2, 3}, ial |-> 2, group |-> "this"]
MCOffer == [a \in Answers |-> [ial |-> IF a = "wrong" THEN 3 ELSE 2, aal |-> 1,
                               signed |-> TRUE, group |-> "this"]]
=============================================================================
