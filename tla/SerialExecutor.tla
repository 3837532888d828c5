--------------------------- MODULE SerialExecutor ---------------------------
(***************************************************************************)
(* What the request process manager promises to the rest of the platform:  *)
(* the tasks of one request are executed one at a time, in the order in    *)
(* which they were handed over, and tasks of different requests do not     *)
(* wait for each other.  A task may be withdrawn before it starts (its     *)
(* caller is told of a database error, or the process is shutting down).   *)
(* The order is kept as a relation between the tasks that wait.            *)
(***************************************************************************)

CONSTANTS Tasks,      \* tasks handed over, each at most once
          RequestOf   \* the request a task belongs to

VARIABLES waiting,    \* the tasks handed over and not started
          ahead,      \* pairs <<t, u>> of waiting tasks of one request: t came first
          current,    \* the tasks being executed
          used        \* the tasks handed over so far

vars == <<waiting, ahead, current, used>>

Init == waiting = {} /\ ahead = {} /\ current = {} /\ used = {}

Together(t, u) == RequestOf[t] = RequestOf[u]

\* t waits no longer.
Leave(t) ==
    /\ t \in waiting
    /\ waiting' = waiting \ {t}
    /\ ahead' = {p \in ahead : p[1] # t /\ p[2] # t}

HandOver(t) ==
    /\ t \notin used
    /\ used' = used \cup {t}
    /\ waiting' = waiting \cup {t}
    /\ ahead' = ahead \cup {<<u, t>> : u \in {w \in waiting : Together(w, t)}}
    /\ UNCHANGED current

Withdraw(t) ==
    /\ Leave(t)
    /\ UNCHANGED <<current, used>>

Start(t) ==
    /\ \A u \in current : ~Together(u, t)
    /\ \A u \in waiting : <<u, t>> \notin ahead
    /\ Leave(t)
    /\ current' = current \cup {t}
    /\ UNCHANGED used

Finish(t) ==
    /\ t \in current
    /\ current' = current \ {t}
    /\ UNCHANGED <<waiting, ahead, used>>

Next == \E t \in Tasks : HandOver(t) \/ Withdraw(t) \/ Start(t) \/ Finish(t)

Spec == Init /\ [][Next]_vars

=============================================================================
