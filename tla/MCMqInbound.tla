---------------------------- MODULE MCMqInbound -----------------------------
(***************************************************************************)
(* Bounded instances of MqInbound for TLC.                                 *)
(***************************************************************************)
EXTENDS MqInbound

\* One message, good or bad: what happens to one does not touch another.
CONSTANT message

=============================================================================
