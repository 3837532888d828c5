---------------------------- MODULE RequestQueue ----------------------------
(***************************************************************************)
(* The task queue of core/request_process_manager.js: every message from   *)
(* the message queue and every block update that concerns a request is     *)
(* turned into a task, and the tasks of one request are run one after the  *)
(* other.  One Node.js process is modelled: its memory, its event loop     *)
(* (poll phase, check phase with the setImmediate callbacks) and the       *)
(* pipeline of commands on its single connection to Redis, where a copy of *)
(* every queue is kept.                                                    *)
(***************************************************************************)
EXTENDS Integers, Sequences, FiniteSets

CONSTANTS
    Requests,           \* request IDs
    Tasks,              \* calls of addTaskToQueue, each made at most once
    RequestOf,          \* RequestOf[t]: the request the task t is about
    None,               \* no task
    MicrotasksBetween   \* TRUE for Node.js 11 and later: promise callbacks run
                        \* after every single setImmediate callback; FALSE up
                        \* to Node.js 10: they run after the whole batch

ASSUME ConstantsAssumption ==
    /\ RequestOf \in [Tasks -> Requests]
    /\ None \notin Tasks
    /\ IsFiniteSet(Requests)
    /\ IsFiniteSet(Tasks)
    /\ MicrotasksBetween \in BOOLEAN

VARIABLES
    stage,              \* where each task is in its life
    opened,             \* requests r with requestQueue[r] != null
    queue,              \* requestQueue: tasks waiting in memory
    running,            \* requests r with requestQueueRunning[r] set
    immediates,         \* scheduled executeTaskInQueue(r) callbacks
    checking,           \* callbacks of the check phase still to run
    fresh,              \* the task the last callback started, while the check
                        \* phase goes on
    pending,            \* pendingTasksInQueueCount
    processing,         \* processingTasksCount
    requestsInQueue,    \* requestsInQueueCount
    shutdown,           \* "no"; "waiting" once stop() is called and while its
                        \* promise is pending; "resolved".  stopping of the code
                        \* is shutdown # "no"
    pipe,               \* commands sent to Redis, not yet answered
    persisted           \* persistentRequestProcessQueue lists in Redis

memory == <<stage, opened, queue, running, pending, processing, requestsInQueue>>
loop == <<immediates, checking, fresh>>
redis == <<pipe, persisted>>
vars == <<memory, loop, shutdown, redis>>

Stages == {"new", "persisting", "queued", "executing", "done", "rejected", "abandoned"}

Executing == {t \in Tasks : stage[t] = "executing"}

Command == [op : {"rpush", "lpop", "del"}, request : Requests, task : Tasks \cup {None}]

Rpush(t) == [op |-> "rpush", request |-> RequestOf[t], task |-> t]
Lpop(r) == [op |-> "lpop", request |-> r, task |-> None]
Del(r) == [op |-> "del", request |-> r, task |-> None]

Init ==
    /\ stage = [t \in Tasks |-> "new"]
    /\ opened = {}
    /\ queue = [r \in Requests |-> <<>>]
    /\ running = {}
    /\ immediates = [r \in Requests |-> 0]
    /\ checking = [r \in Requests |-> 0]
    /\ fresh = None
    /\ pending = 0
    /\ processing = 0
    /\ requestsInQueue = 0
    /\ shutdown = "no"
    /\ pipe = <<>>
    /\ persisted = [r \in Requests |-> <<>>]

-----------------------------------------------------------------------------
(* The event loop: everything but the setImmediate callbacks happens       *)
(* outside the check phase.                                                *)

InCheckPhase == \E r \in Requests : checking[r] > 0

\* The check phase takes every callback scheduled so far; those scheduled
\* while it runs wait for the next one.
EnterCheckPhase ==
    /\ ~InCheckPhase
    /\ \E r \in Requests : immediates[r] > 0
    /\ checking' = immediates
    /\ immediates' = [r \in Requests |-> 0]
    /\ fresh' = None
    /\ UNCHANGED <<memory, shutdown, redis>>

-----------------------------------------------------------------------------
(* addTaskToQueue(): persist, await, then enqueue in memory.               *)

\* The call, up to the await: RPUSH is sent.
AddTask(t) ==
    /\ ~InCheckPhase
    /\ stage[t] = "new"
    /\ stage' = [stage EXCEPT ![t] = "persisting"]
    /\ pipe' = Append(pipe, Rpush(t))
    /\ UNCHANGED <<opened, queue, running, pending, processing, requestsInQueue,
                   loop, shutdown, persisted>>

\* Mutant: the callback is not scheduled while requestQueueRunning[r] is still set.
ScheduleIfIdle(r) == IF r \in running THEN immediates ELSE [immediates EXCEPT ![r] = @ + 1]

\* setImmediate(executeTaskInQueue, r)
Schedule(r) == [immediates EXCEPT ![r] = @ + 1]

\* The rest of the call, after the await: nothing if the process is stopping.
Enqueue(t) ==
    LET r == RequestOf[t] IN
    IF shutdown # "no"
    THEN /\ stage' = [stage EXCEPT ![t] = "abandoned"]
         /\ UNCHANGED <<opened, queue, pending, requestsInQueue, immediates>>
    ELSE /\ stage' = [stage EXCEPT ![t] = "queued"]
         /\ opened' = opened \cup {r}
         /\ requestsInQueue' = IF r \in opened THEN requestsInQueue
                                               ELSE requestsInQueue + 1
         /\ queue' = [queue EXCEPT ![r] = Append(@, t)]
         /\ pending' = pending + 1
         /\ immediates' = Schedule(r)

\* Redis answers the RPUSH at the head of the pipeline.
TaskPersisted ==
    /\ ~InCheckPhase
    /\ pipe # <<>>
    /\ Head(pipe).op = "rpush"
    /\ LET t == Head(pipe).task IN
           /\ persisted' = [persisted EXCEPT ![RequestOf[t]] = Append(@, t)]
           /\ Enqueue(t)
    /\ pipe' = Tail(pipe)
    /\ UNCHANGED <<running, processing, checking, fresh, shutdown>>

\* Redis answers the RPUSH with an error: addTaskToQueue throws DB_ERROR.
PersistError ==
    /\ ~InCheckPhase
    /\ pipe # <<>>
    /\ Head(pipe).op = "rpush"
    /\ stage' = [stage EXCEPT ![Head(pipe).task] = "rejected"]
    /\ pipe' = Tail(pipe)
    /\ UNCHANGED <<opened, queue, running, pending, processing, requestsInQueue,
                   loop, shutdown, persisted>>

\* Mutant: the last task of a list is never removed.
ListShrunkKeepsOne ==
    /\ ~InCheckPhase
    /\ pipe # <<>>
    /\ Head(pipe).op # "rpush"
    /\ LET r == Head(pipe).request IN
       persisted' = [persisted EXCEPT ![r] = IF Len(@) <= 1 THEN @ ELSE Tail(@)]
    /\ pipe' = Tail(pipe)
    /\ UNCHANGED <<memory, loop, shutdown>>

\* Redis answers an LPOP or a DEL, which nobody waits for.
ListShrunk ==
    /\ ~InCheckPhase
    /\ pipe # <<>>
    /\ Head(pipe).op # "rpush"
    /\ LET r == Head(pipe).request IN
       persisted' = [persisted EXCEPT ![r] =
                        IF Head(pipe).op = "del" \/ @ = <<>> THEN <<>> ELSE Tail(@)]
    /\ pipe' = Tail(pipe)
    /\ UNCHANGED <<memory, loop, shutdown>>

-----------------------------------------------------------------------------
(* executeTaskInQueue() and the end of a task.                             *)

\* cleanUpQueue(): forget the queue object, send DEL, and wake stop() when it
\* was the last one.
CleanUpQueue(r) ==
    /\ opened' = opened \ {r}
    /\ requestsInQueue' = requestsInQueue - 1
    /\ shutdown' = IF shutdown = "waiting" /\ requestsInQueue' = 0
                   THEN "resolved" ELSE shutdown

\* Mutant: the flag is never looked at.
NeverBusy(r) == FALSE

\* requestQueueRunning[r]: the task that runs will schedule the next one.
Busy(r) == r \in running

\* One executeTaskInQueue(r) callback.  Without a queue object the shift()
\* throws: the callback is then not enabled, see QueueObjectPresent.  A queue
\* object that is empty is cleaned up.
ExecuteTaskInQueue(r) ==
    /\ checking[r] > 0
    /\ checking' = [checking EXCEPT ![r] = @ - 1]
    /\ \/ /\ Busy(r)
          /\ fresh' = None
          /\ UNCHANGED <<memory, shutdown, pipe>>
       \/ /\ ~Busy(r)
          /\ r \in opened
          /\ IF queue[r] # <<>>
             THEN /\ queue' = [queue EXCEPT ![r] = Tail(@)]
                  /\ running' = running \cup {r}
                  /\ stage' = [stage EXCEPT ![Head(queue[r])] = "executing"]
                  /\ fresh' = Head(queue[r])
                  /\ pending' = pending - 1
                  /\ processing' = processing + 1
                  /\ UNCHANGED <<opened, requestsInQueue, shutdown, pipe>>
             ELSE /\ CleanUpQueue(r)
                  /\ pipe' = Append(pipe, Del(r))
                  /\ fresh' = None
                  /\ UNCHANGED <<stage, queue, running, pending, processing>>
    /\ UNCHANGED <<immediates, persisted>>

\* onTaskExecutionFinished(), run when the task's promise settles.  A task that
\* needs no I/O settles in a microtask: with MicrotasksBetween that can be right
\* after the callback that started it.
FinishTask(t) ==
    LET r == RequestOf[t] IN
    /\ stage[t] = "executing"
    /\ ~InCheckPhase \/ (MicrotasksBetween /\ fresh = t)
    /\ stage' = [stage EXCEPT ![t] = "done"]
    /\ processing' = processing - 1
    /\ running' = running \ {r}
    /\ IF queue[r] = <<>>
       THEN /\ CleanUpQueue(r)
            /\ pipe' = pipe \o <<Del(r), Lpop(r)>>
            /\ UNCHANGED immediates
       ELSE /\ immediates' = Schedule(r)
            /\ pipe' = Append(pipe, Lpop(r))
            /\ UNCHANGED <<opened, requestsInQueue, shutdown>>
    /\ fresh' = None
    /\ UNCHANGED <<queue, checking, pending, persisted>>

-----------------------------------------------------------------------------
\* Mutant: only the tasks that still wait are counted.
StopIgnoresRunning ==
    /\ ~InCheckPhase
    /\ shutdown = "no"
    /\ shutdown' = IF pending > 0 THEN "waiting" ELSE "resolved"
    /\ UNCHANGED <<memory, loop, redis>>

\* stop(): resolves at once when no request has a queue, else on the event
\* 'request_process_queue_empty'.
Stop ==
    /\ ~InCheckPhase
    /\ shutdown = "no"
    /\ shutdown' = IF requestsInQueue > 0 THEN "waiting" ELSE "resolved"
    /\ UNCHANGED <<memory, loop, redis>>

Next ==
    \/ EnterCheckPhase
    \/ \E t \in Tasks : AddTask(t) \/ FinishTask(t)
    \/ TaskPersisted
    \/ PersistError
    \/ ListShrunk
    \/ \E r \in Requests : ExecuteTaskInQueue(r)
    \/ Stop

Spec == Init /\ [][Next]_vars

\* The event loop keeps turning, Redis answers, and the function a task runs
\* settles its promise; nobody has to add a task or to stop the process.
Fairness ==
    /\ WF_vars(EnterCheckPhase)
    /\ WF_vars(TaskPersisted \/ PersistError)
    /\ WF_vars(ListShrunk)
    /\ \A r \in Requests : WF_vars(ExecuteTaskInQueue(r))
    /\ \A t \in Tasks : WF_vars(FinishTask(t))

FairSpec == Spec /\ Fairness

-----------------------------------------------------------------------------
(* Properties.                                                             *)

\* Every variable has the values its counterpart in the code can have.
TypeOK ==
    /\ stage \in [Tasks -> Stages]
    /\ opened \subseteq Requests
    /\ queue \in [Requests -> Seq(Tasks)]
    /\ running \subseteq Requests
    /\ immediates \in [Requests -> Nat]
    /\ checking \in [Requests -> Nat]
    /\ fresh \in Tasks \cup {None}
    /\ pending \in Int
    /\ processing \in Int
    /\ requestsInQueue \in Int
    /\ shutdown \in {"no", "waiting", "resolved"}
    /\ pipe \in Seq(Command)
    /\ persisted \in [Requests -> Seq(Tasks)]

\* Two tasks of one request are never executed at the same time: the handlers
\* read, await and then write the cached data of their request (executeTaskInQueue
\* and onTaskExecutionFinished hand requestQueueRunning over correctly).
OneTaskPerRequest ==
    \A t, u \in Executing : RequestOf[t] = RequestOf[u] => t = u

\* Whenever executeTaskInQueue(r) is about to run or a task of r is about to
\* finish, requestQueue[r] exists: neither requestQueue[r].shift() nor
\* requestQueue[r].length meets undefined, which would kill the process or
\* leave the request running for ever.
QueueObjectPresent ==
    \A r \in Requests :
        (checking[r] > 0 \/ r \in running) => r \in opened

\* The counters that stop() and the metrics read are the numbers they stand for.
CountersAgree ==
    /\ requestsInQueue = Cardinality(opened)
    /\ processing = Cardinality(Executing)
    /\ pending = Cardinality({t \in Tasks : stage[t] = "queued"})

\* Once stop() has resolved, and server.js goes on to close the message queue,
\* Tendermint and database connections, no task is running or waiting, and none
\* will be started.
StopIsSafe ==
    shutdown = "resolved" =>
               /\ opened = {}
               /\ \A t \in Tasks : stage[t] \notin {"queued", "executing"}

\* The queue in memory is sound, whatever settles, is added or is stopped in between.
QueueIsSound ==
    /\ OneTaskPerRequest
    /\ QueueObjectPresent
    /\ CountersAgree
    /\ StopIsSafe

\* Redis keeps nothing of a request whose tasks are all done: each list is
\* deleted at the end, whatever additions and removals crossed on the way.
PersistedDrained ==
    \A r \in Requests :
        (pipe = <<>> /\ r \notin opened /\ shutdown = "no") => persisted[r] = <<>>

\* A task that reached the queue is executed, also while the process stops.
QueuedTasksFinish ==
    \A t \in Tasks : stage[t] = "queued" ~> stage[t] = "done"

\* stop() resolves: a graceful shutdown does not wait for ever.
StopResolves == shutdown = "waiting" ~> shutdown = "resolved"

\* The queue moves on: a task that was queued is done, and a stop ends (addTaskToQueue,
\* onTaskExecutionFinished, stop).
QueueMoves == QueuedTasksFinish /\ StopResolves

\* The tasks handed over and not yet started.
Waiting == {t \in Tasks : stage[t] \in {"persisting", "queued"}}

\* t is further on than u, in the queue of their request or in the pipeline.
AheadInQueue(t, u) ==
    \E i, j \in DOMAIN queue[RequestOf[t]] :
        i < j /\ queue[RequestOf[t]][i] = t /\ queue[RequestOf[t]][j] = u

AheadInPipe(t, u) ==
    \E i, j \in DOMAIN pipe : i < j /\ pipe[i] = Rpush(t) /\ pipe[j] = Rpush(u)

\* t was handed over before u: what is in the queue was persisted before what is
\* in the pipeline.
Before(t, u) ==
    \/ stage[t] = "queued" /\ stage[u] = "persisting"
    \/ AheadInQueue(t, u)
    \/ AheadInPipe(t, u)

Ahead == {p \in Waiting \X Waiting : RequestOf[p[1]] = RequestOf[p[2]] /\ Before(p[1], p[2])}

\* The queue executes the tasks of a request one by one in the order of the
\* calls of addTaskToQueue, although every call awaits Redis before it queues.
Serial == INSTANCE SerialExecutor WITH
    waiting <- Waiting,
    ahead <- Ahead,
    current <- Executing,
    used <- {t \in Tasks : stage[t] # "new"}

ExecutesSerially == Serial!Spec

=============================================================================
