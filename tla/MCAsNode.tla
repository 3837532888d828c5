------------------------------ MODULE MCAsNode ------------------------------
(* AsNode for TLC: two services, for one of them a call with data besides  *)
(* the answers of the callbacks; one failure, one stop.                    *)
EXTENDS AsNode

MCServiceOf == [c \in Calls |-> "s1"]
=============================================================================
