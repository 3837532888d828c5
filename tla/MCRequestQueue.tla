--------------------------- MODULE MCRequestQueue ---------------------------
(* Small instances of RequestQueue: three tasks of a first request and one *)
(* of a second, so that a task can arrive while another of its request is  *)
(* being persisted, is waiting, is running or has just finished.           *)
EXTENDS RequestQueue

CONSTANTS r1, r2, t1, t2, t3, t4

MCRequests == {r1, r2}
MCTasks == {t1, t2, t3, t4}
MCRequestOf == [t \in MCTasks |-> IF t = t4 THEN r2 ELSE r1]

=============================================================================
