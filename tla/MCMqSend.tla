------------------------------ MODULE MCMqSend ------------------------------
(***************************************************************************)
(* Bounded instances of MqSend for TLC: two calls, for one message or for  *)
(* two, which go to one receiver or to two.                                *)
(***************************************************************************)
EXTENDS MqSend

CONSTANTS first, second, near, far

=============================================================================
