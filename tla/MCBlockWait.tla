---------------------------- MODULE MCBlockWait -----------------------------
(* Small instances of BlockWait: two messages about neighbouring blocks and *)
(* one more block in front, so that ranges of several blocks, blocks        *)
(* without transactions and overlapping processing occur.                   *)
EXTENDS BlockWait, TLC

CONSTANTS m1, m2

MCMessages == {m1, m2}
MCHeightOf == m1 :> 2 @@ m2 :> 3
=============================================================================
