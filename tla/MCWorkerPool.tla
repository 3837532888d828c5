---------------------------- MODULE MCWorkerPool ----------------------------
(* WorkerPool for TLC: three lives of workers, one callback that a job     *)
(* leaves behind, one broken connection or crash.                          *)
EXTENDS WorkerPool

MCKind == [t \in Tasks |-> "callback"]
=============================================================================
