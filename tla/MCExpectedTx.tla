---------------------------- MODULE MCExpectedTx ----------------------------
(***************************************************************************)
(* Bounded instances of ExpectedTx for TLC.                                *)
(***************************************************************************)
EXTENDS ExpectedTx

\* One call, with every kind of retry or waiting for its commit.
CONSTANT call

=============================================================================
