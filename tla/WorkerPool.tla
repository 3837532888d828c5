----------------------------- MODULE WorkerPool -----------------------------
(***************************************************************************)
(* Master and workers: master-worker-interface, with what a worker hands   *)
(* over when it is stopped.  The master delegates jobs; a job may leave    *)
(* something behind that the worker tries on: a callback to the client     *)
(* (callback.js), the timeout of a request, a message.  All three are kept *)
(* in Redis, and in the memory of the worker that tries.  A worker that is *)
(* stopped tells the master what it was trying, and the master has another *)
(* worker try on.                                                          *)
(*                                                                         *)
(* A worker is one life of a process: its ID is drawn at its start.  The   *)
(* master does not stop.  What it sends to a worker on one connection is   *)
(* read in the order it was sent.  Which of the available workers gets a   *)
(* job (the one with the fewest) matters to no property and is left open.  *)
(***************************************************************************)
EXTENDS Integers, Sequences, FiniteSets, SequencesExt

CONSTANTS
    Workers,
    Tasks,          \* what is left behind to be tried on, each by one job
    Kind,           \* the kind of each task
    None,
    MaxFaults       \* bound: connections that break, workers that stop without a word

ASSUME ConstantsAssumption ==
    /\ IsFiniteSet(Workers) /\ IsFiniteSet(Tasks)
    /\ \A tasks \in SUBSET Tasks : None # tasks
    /\ Kind \in [Tasks -> {"requestTimeout", "callback", "mq"}]
    /\ MaxFaults \in Nat

VARIABLES
    phase,          \* worker: where it is in its life
    again,          \* workers that are to subscribe anew
    handed,         \* tasks that a worker tries on for another
    pending,        \* worker: what it tries (pendingCallback and the like)
    running,        \* worker: jobs it has read and not answered (workingJobCount)
    listed,         \* master: workerList
    stopping,       \* master: listed workers that are marked as stopping
    stoppingWorkerCount,
    remaining,      \* master: workerLostHandling, what a worker has handed over
    lostToHandle,   \* master: lostWorkerIdsToHandle
    given,          \* master: tasks whose job has been delegated
    wire,           \* jobs on their way to a worker
    cut,            \* listed workers whose connection has ended unnoticed
    saved,          \* Redis: tasks that are not finished
    late,           \* tasks past their deadline
    dropped,        \* tasks lost with a process, a connection or a deadline
    faults

worker == <<phase, again, handed, pending, running>>
master == <<listed, stopping, stoppingWorkerCount, remaining, lostToHandle, given>>
vars == <<worker, master, wire, cut, saved, late, dropped, faults>>

Phases == {"off", "up", "announcing", "draining", "handing", "handed", "gone"}
Job == [task : Tasks, worker : Workers, does : {"new", "continue"}]

Init ==
    /\ phase = [w \in Workers |-> "off"]
    /\ again = {} /\ handed = {}
    /\ pending = [w \in Workers |-> {}]
    /\ running = {}
    /\ listed = {} /\ stopping = {} /\ stoppingWorkerCount = 0
    /\ remaining = [w \in Workers |-> None]
    /\ lostToHandle = <<>>
    /\ given = {}
    /\ wire = {} /\ cut = {}
    /\ saved = {} /\ late = {} /\ dropped = {}
    /\ faults = 0

Live(w) == phase[w] \notin {"off", "gone"}
To(w, next) == phase' = [phase EXCEPT ![w] = next]
Goes(w, at, next) == phase[w] = at /\ To(w, next)

-----------------------------------------------------------------------------
(* The master.                                                             *)

\* getWorker(): none when all that are listed are counted as stopping.
NoWorker(list, count) == list = {} \/ Cardinality(list) = count
Takers(list) == list \ stopping

\* delegateToWorker(): a job that leaves the task behind.
Delegate(t, w) ==
    /\ t \notin given
    /\ ~NoWorker(listed, stoppingWorkerCount) /\ w \in Takers(listed)
    /\ given' = given \cup {t}
    /\ wire' = wire \cup (IF w \in cut THEN {} ELSE {[task |-> t, worker |-> w, does |-> "new"]})
    /\ UNCHANGED <<worker, listed, stopping, stoppingWorkerCount, remaining, lostToHandle, cut,
                   saved, late, dropped, faults>>

\* handleRequestTimeoutWorkerLost(), handleCallbackRetryWorkerLost() and
\* handleMqRetryWorkerLost() for lost workers: what is not past its deadline goes to
\* a worker of the list, which may be unreachable by now.
Known(w) == IF remaining[w] = None THEN {} ELSE remaining[w]
Resumable(lost) ==
    {t \in UNION {Known(w) : w \in lost} : Kind[t] = "mq" \/ t \notin late}
HandOn(lost, takers) ==
    LET tasks == Resumable(lost)
    IN  /\ \E to \in [tasks -> takers] :
               /\ wire' = wire \cup {[task |-> t, worker |-> to[t], does |-> "continue"] :
                                         t \in {u \in tasks : to[u] \notin cut}}
               /\ dropped' = dropped \cup {t \in tasks : to[t] \in cut}
                                     \cup ((UNION {Known(w) : w \in lost}) \ tasks)
        /\ remaining' = [w \in Workers |-> IF w \in lost THEN None ELSE remaining[w]]

\* lostWorkerIdsToHandle.forEach(handleLostWorkerRemainingTasks): each one takes
\* itself out of the array, so that the walk passes over the one behind it.
Visited(seq) == {seq[i] : i \in {j \in DOMAIN seq : j % 2 = 1}}
Skipped(seq) == [i \in 1 .. Len(seq) \div 2 |-> seq[2 * i]]

\* subscribe() on the master: a worker that is listed is turned away, another is
\* listed and what waits for a worker is handed on.
Subscribed(w) ==
    IF w \in listed
    THEN UNCHANGED <<listed, lostToHandle, remaining, wire, dropped>>
    ELSE /\ listed' = listed \cup {w}
         /\ HandOn(Visited(lostToHandle), Takers(listed \cup {w}))
         /\ lostToHandle' = Skipped(lostToHandle)

\* Mutant: a worker that is gone still counts as stopping.
StillCounted(w) == stoppingWorkerCount' = stoppingWorkerCount

\* The count when a listed worker is taken out.
Uncounted(w) ==
    stoppingWorkerCount' = stoppingWorkerCount - (IF w \in stopping THEN 1 ELSE 0)

\* The connection is 'cancelled': the worker is taken out of the list; what it has
\* handed over goes to another worker or waits for one.  The one that goes at once
\* takes the last of those that wait with it: splice(-1, 1).
Cancelled(w) ==
    /\ w \in cut
    /\ cut' = cut \ {w}
    /\ listed' = listed \ {w}
    /\ stopping' = stopping \ {w}
    /\ Uncounted(w)
    /\ IF remaining[w] = None
       THEN UNCHANGED <<remaining, lostToHandle, wire, dropped>>
       ELSE IF NoWorker(listed', stoppingWorkerCount')
       THEN /\ lostToHandle' = Append(lostToHandle, w)
            /\ UNCHANGED <<remaining, wire, dropped>>
       ELSE /\ HandOn({w}, Takers(listed'))
            /\ lostToHandle' = IF lostToHandle = <<>> THEN <<>> ELSE Front(lostToHandle)
    /\ UNCHANGED <<worker, given, saved, late, faults>>

-----------------------------------------------------------------------------
(* The workers.                                                            *)

\* initialize(): a new process subscribes.
Start(w) ==
    /\ Goes(w, "off", "up")
    /\ Subscribed(w)
    /\ UNCHANGED <<again, handed, pending, running, stopping, stoppingWorkerCount, given,
                   cut, saved, late, faults>>

\* The connection is up again: checkMasterId(), subscribe().
Resubscribe(w) ==
    /\ w \in again /\ phase[w] \in {"up", "announcing"}
    /\ again' = again \ {w}
    /\ Subscribed(w)
    /\ UNCHANGED <<phase, handed, pending, running, stopping, stoppingWorkerCount, given,
                   cut, saved, late, faults>>

\* onRecvData(): the worker counts the job.
Receive(job) ==
    /\ job \in wire /\ Live(job.worker)
    /\ wire' = wire \ {job}
    /\ running' = running \cup {job}
    /\ UNCHANGED <<phase, again, handed, pending, master, cut, saved, late, dropped, faults>>

Answered(job) == job \in running /\ running' = running \ {job}

\* The job saves the task and tries it, as callbackToClient() does; or it goes on
\* with one if it is still saved, as continueCallbackWithRetry() does.
Work(job) ==
    /\ Answered(job)
    /\ saved' = IF job.does = "new" THEN saved \cup {job.task} ELSE saved
    /\ pending' = IF job.task \in saved'
                  THEN [pending EXCEPT ![job.worker] = @ \cup {job.task}]
                  ELSE pending
    /\ handed' = IF job.does = "continue" THEN handed \cup {job.task} ELSE handed
    /\ UNCHANGED <<phase, again, master, wire, cut, late, dropped, faults>>

\* The job throws before it leaves anything behind.
Fail(job) ==
    /\ Answered(job) /\ job.does = "new"
    /\ UNCHANGED <<phase, again, handed, pending, master, wire, cut, saved, late, dropped, faults>>

Ends(w, t) == /\ Live(w) /\ t \in pending[w]
              /\ pending' = [pending EXCEPT ![w] = @ \ {t}]
              /\ saved' = saved \ {t}
              /\ UNCHANGED <<phase, again, handed, running, master, wire, cut, late, dropped,
                             faults>>

\* callbackWithRetry() and the like: the client answers, the answer is too large, or
\* the request is over and the task not wanted any more; also an answer that comes
\* when all retries were stopped.
Succeeds(w, t) == Ends(w, t)

\* callbackWithRetry() gives up at the deadline it has from its own start; with one
\* that was handed over it looks at its own start until that deadline, and then no
\* more.
GivesUp(w, t) == Kind[t] = "callback" /\ t \in late \ handed /\ Ends(w, t)

\* shutDown() of server.js: retries and timers are stopped, not forgotten.
ShutDown(w) ==
    /\ Goes(w, "up", "announcing")
    /\ UNCHANGED <<again, handed, pending, running, master, wire, cut, saved, late, dropped,
                   faults>>

\* workerStoppingCall on the master, and its answer, which comes after all jobs.
Announce(w) ==
    /\ Goes(w, "announcing", "draining")
    /\ \A job \in wire : job.worker # w
    /\ IF w \in listed \ stopping
       THEN stopping' = stopping \cup {w} /\ stoppingWorkerCount' = stoppingWorkerCount + 1
       ELSE UNCHANGED <<stopping, stoppingWorkerCount>>
    /\ UNCHANGED <<again, handed, pending, running, listed, remaining, lostToHandle, given,
                   wire, cut, saved, late, dropped, faults>>

\* Mutant: the worker does not wait for its jobs.
DrainAtOnce(w) ==
    /\ Goes(w, "draining", "handing")
    /\ UNCHANGED <<again, handed, pending, running, master, wire, cut, saved, late, dropped,
                   faults>>

\* Mutant: the worker waits for the event of its last job, also when it has none.
DrainOnEvent(w) ==
    /\ Goes(w, "draining", "handing")
    /\ Cardinality({job \in running : job.worker = w}) = 1
    /\ UNCHANGED <<again, handed, pending, running, master, wire, cut, saved, late, dropped,
                   faults>>

\* waitForAllJobDone().
Drain(w) ==
    /\ Goes(w, "draining", "handing")
    /\ \A job \in running : job.worker # w
    /\ UNCHANGED <<again, handed, pending, running, master, wire, cut, saved, late, dropped,
                   faults>>

\* handleShutdownTimerJobs(): tasksBeforeShutdown on the master.
HandOver(w) ==
    /\ Goes(w, "handing", "handed")
    /\ remaining' = [remaining EXCEPT ![w] = pending[w]]
    /\ UNCHANGED <<again, handed, pending, running, listed, stopping, stoppingWorkerCount,
                   lostToHandle, given, wire, cut, saved, late, dropped, faults>>

\* What is lost when a worker goes: jobs, and what it tries and has not handed over.
Leave(w) ==
    /\ To(w, "gone")
    /\ again' = again \ {w}
    /\ pending' = [pending EXCEPT ![w] = {}]
    /\ running' = {job \in running : job.worker # w}
    /\ wire' = {job \in wire : job.worker # w}
    /\ cut' = IF w \in listed THEN cut \cup {w} ELSE cut

\* The worker cancels its subscription and ends.
Stop(w) ==
    /\ phase[w] = "handed"
    /\ Leave(w)
    /\ UNCHANGED <<handed, master, saved, late, dropped, faults>>

\* The process stops without a word; its tasks wait in Redis for the master's next
\* start.
Crash(w) ==
    /\ faults < MaxFaults /\ faults' = faults + 1
    /\ Live(w)
    /\ Leave(w)
    /\ dropped' = dropped \cup pending[w]
                          \cup {job.task : job \in {j \in running \cup wire : j.worker = w}}
    /\ UNCHANGED <<handed, master, saved, late>>

\* The connection breaks: jobs on their way are lost.  The worker goes on trying.
Break(w) ==
    /\ faults < MaxFaults /\ faults' = faults + 1
    /\ Live(w) /\ w \in listed \ cut
    /\ cut' = cut \cup {w}
    /\ again' = again \cup {w}
    /\ wire' = {job \in wire : job.worker # w}
    /\ dropped' = dropped \cup {job.task : job \in {j \in wire : j.worker = w}}
    /\ UNCHANGED <<phase, handed, pending, running, master, saved, late>>

Deadline(t) ==
    /\ t \in saved \ late /\ Kind[t] # "mq"
    /\ late' = late \cup {t}
    /\ UNCHANGED <<worker, master, wire, cut, saved, dropped, faults>>

Jobs(w) == \E job \in {j \in Job : j.worker = w} : Receive(job) \/ Work(job) \/ Fail(job)
Step(w) == Resubscribe(w) \/ Announce(w) \/ Drain(w) \/ HandOver(w) \/ Stop(w) \/ Cancelled(w)

Next == \/ \E w \in Workers : \/ Start(w) \/ ShutDown(w) \/ Step(w) \/ Jobs(w)
                              \/ Crash(w) \/ Break(w)
                              \/ \E t \in Tasks : \/ Delegate(t, w) \/ Succeeds(w, t)
                                                  \/ GivesUp(w, t)
        \/ \E t \in Tasks : Deadline(t)

\* Messages arrive and jobs end; clients, starts, stops and failures are free.
Fairness == \A w \in Workers : WF_vars(Step(w)) /\ WF_vars(Jobs(w))

Spec == Init /\ [][Next]_vars /\ Fairness

-----------------------------------------------------------------------------
(* Properties.                                                             *)

TypeOK ==
    /\ phase \in [Workers -> Phases]
    /\ again \subseteq Workers /\ handed \subseteq Tasks
    /\ pending \in [Workers -> SUBSET Tasks]
    /\ running \subseteq Job /\ wire \subseteq Job
    /\ listed \subseteq Workers /\ stopping \subseteq listed /\ cut \subseteq listed
    /\ stoppingWorkerCount \in Nat
    /\ remaining \in [Workers -> {None} \cup SUBSET Tasks]
    /\ lostToHandle \in Seq(Workers)
    /\ given \subseteq Tasks /\ saved \subseteq Tasks /\ late \subseteq Tasks
    /\ dropped \subseteq Tasks
    /\ faults \in 0 .. MaxFaults

\* The count that decides whether there is a worker to delegate to agrees with the
\* marks in the list, however workers stop, break off and come back (subscribe(),
\* workerStoppingCall()).
CountAgrees == stoppingWorkerCount = Cardinality(stopping)

\* A task that is not finished is never lost by a stop: a worker tries it, a job to
\* do so is on its way or at work, or the master knows of it; only a crash, a broken
\* connection or a deadline drops it (shutdown() of client.js).
NothingLostByStopping ==
    \A t \in saved \ dropped :
        \/ \E w \in Workers : Live(w) /\ t \in pending[w]
        \/ \E w \in Workers : t \in Known(w)
        \/ \E job \in wire \cup running : job.task = t

\* A worker that is told to stop ends, whatever it has to do (waitForAllJobDone()).
ShutdownEnds == \A w \in Workers : phase[w] = "announcing" ~> phase[w] = "gone"

\* What a lost worker was retrying, the master tells another worker to retry as soon
\* as there is one (the comment on handleShutdownTimerJobs()).
LostIsTakenOver ==
    (\E i \in DOMAIN lostToHandle : Known(lostToHandle[i]) # {})
        => NoWorker(listed, stoppingWorkerCount)
=============================================================================
