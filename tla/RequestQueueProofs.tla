------------------------- MODULE RequestQueueProofs -------------------------
(* Proofs about RequestQueue, for any number of requests and tasks.        *)
EXTENDS RequestQueue, FiniteSetTheorems, SequenceTheorems, TLAPS

-----------------------------------------------------------------------------
(* The inductive invariant.                                                *)

\* An RPUSH in the pipeline is for a task that is still being persisted, and
\* a task has at most one.
PipeInv ==
    /\ \A i \in 1 .. Len(pipe) : pipe[i].op = "rpush" =>
           /\ pipe[i].task \in Tasks
           /\ stage[pipe[i].task] = "persisting"
    /\ \A i, j \in 1 .. Len(pipe) :
           pipe[i].op = "rpush" /\ pipe[j].op = "rpush" /\ pipe[i].task = pipe[j].task
               => i = j

\* The queue of r holds each queued task of r exactly once, and nothing else.
QueueInv ==
    /\ \A r \in Requests : \A i \in 1 .. Len(queue[r]) :
           /\ stage[queue[r][i]] = "queued"
           /\ RequestOf[queue[r][i]] = r
    /\ \A r \in Requests : \A i, j \in 1 .. Len(queue[r]) :
           queue[r][i] = queue[r][j] => i = j
    /\ \A t \in Tasks : stage[t] = "queued" =>
           \E i \in 1 .. Len(queue[RequestOf[t]]) : queue[RequestOf[t]][i] = t

\* requestQueueRunning[r] says exactly that a task of r is executing, and a
\* queue object exists exactly while a task of r waits or executes.
RunningInv ==
    /\ OneTaskPerRequest
    /\ \A r \in Requests : r \in running <=> \E t \in Executing : RequestOf[t] = r
    /\ \A r \in Requests : r \in opened <=> (r \in running \/ queue[r] # <<>>)

StopInv == shutdown = "resolved" => opened = {}

IInv == TypeOK /\ PipeInv /\ QueueInv /\ RunningInv /\ CountersAgree /\ StopInv

-----------------------------------------------------------------------------
(* Type correctness.                                                       *)

LEMMA CommandTypes ==
    /\ \A t \in Tasks : Rpush(t) \in Command
    /\ \A r \in Requests : Lpop(r) \in Command /\ Del(r) \in Command
BY ConstantsAssumption DEF Rpush, Lpop, Del, Command

LEMMA InitType == Init => TypeOK
<1> SUFFICES ASSUME Init PROVE TypeOK
  OBVIOUS
<1>1. queue \in [Requests -> Seq(Tasks)] /\ persisted \in [Requests -> Seq(Tasks)]
  BY EmptySeq DEF Init
<1>2. pipe \in Seq(Command)
  BY EmptySeq DEF Init
<1>3. /\ stage \in [Tasks -> Stages]
      /\ immediates \in [Requests -> Nat]
      /\ checking \in [Requests -> Nat]
  BY DEF Init, Stages
<1>4. /\ opened \subseteq Requests
      /\ running \subseteq Requests
      /\ fresh \in Tasks \cup {None}
      /\ pending \in Int /\ processing \in Int /\ requestsInQueue \in Int
  BY DEF Init
<1>5. shutdown \in {"no", "waiting", "resolved"}
  BY DEF Init
<1> QED
  BY <1>1, <1>2, <1>3, <1>4, <1>5 DEF TypeOK

\* The pipeline only ever holds well-formed commands, so its head names a task
\* when it is an RPUSH.
LEMMA NextType == TypeOK /\ PipeInv /\ [Next]_vars => TypeOK'
<1> SUFFICES ASSUME TypeOK, PipeInv, [Next]_vars PROVE TypeOK'
  OBVIOUS
<1> USE ConstantsAssumption DEF TypeOK
<1>1. CASE EnterCheckPhase
  BY <1>1 DEF EnterCheckPhase, memory, redis
<1>2. CASE \E t \in Tasks : AddTask(t)
  <2> PICK t \in Tasks : AddTask(t)
    BY <1>2
  <2>1. pipe' \in Seq(Command)
    BY CommandTypes, AppendProperties DEF AddTask
  <2> QED
    BY <2>1 DEF AddTask, Stages, loop
<1>3. CASE \E t \in Tasks : FinishTask(t)
  <2> PICK t \in Tasks : FinishTask(t)
    BY <1>3
  <2> DEFINE r == RequestOf[t]
  <2>1. r \in Requests
    OBVIOUS
  <2>2. pipe \o <<Del(r), Lpop(r)>> \in Seq(Command) /\ Append(pipe, Lpop(r)) \in Seq(Command)
    BY <2>1, CommandTypes
  <2>3. pipe' \in Seq(Command)
    BY <2>2 DEF FinishTask, Schedule
  <2>4. /\ opened' \subseteq Requests
        /\ requestsInQueue' \in Int
        /\ immediates' \in [Requests -> Nat]
        /\ shutdown' \in {"no", "waiting", "resolved"}
    <3>1. CASE queue[r] = <<>>
      <4>1. CleanUpQueue(r) /\ immediates' = immediates
        BY <3>1 DEF FinishTask, Schedule
      <4> QED
        BY <4>1 DEF CleanUpQueue
    <3>2. CASE queue[r] # <<>>
      <4>1. /\ immediates' = [immediates EXCEPT ![r] = immediates[r] + 1]
            /\ UNCHANGED <<opened, requestsInQueue, shutdown>>
        BY <3>2 DEF FinishTask, Schedule
      <4>2. immediates[r] + 1 \in Nat
        BY <2>1
      <4> QED
        BY <4>1, <4>2
    <3> QED
      BY <3>1, <3>2
  <2>5. /\ stage' \in [Tasks -> Stages]
        /\ running' \subseteq Requests
        /\ processing' \in Int
    BY DEF FinishTask, Schedule, Stages
  <2> QED
    BY <2>3, <2>4, <2>5 DEF FinishTask, Schedule
<1>4. CASE TaskPersisted
  <2> DEFINE t == Head(pipe).task
             r == RequestOf[t]
  <2>1. pipe # <<>> /\ Head(pipe) = pipe[1] /\ 1 \in 1 .. Len(pipe)
    BY <1>4 DEF TaskPersisted
  <2>2. t \in Tasks /\ r \in Requests
    BY <1>4, <2>1 DEF TaskPersisted, PipeInv
  <2>3. Append(persisted[r], t) \in Seq(Tasks) /\ Append(queue[r], t) \in Seq(Tasks)
    BY <2>2
  <2>4. pipe' \in Seq(Command)
    BY <1>4, <2>1 DEF TaskPersisted
  <2>5. persisted' \in [Requests -> Seq(Tasks)]
    BY <1>4, <2>2, <2>3 DEF TaskPersisted
  <2>6. /\ stage' \in [Tasks -> Stages]
        /\ opened' \subseteq Requests
        /\ queue' \in [Requests -> Seq(Tasks)]
        /\ immediates' \in [Requests -> Nat]
        /\ pending' \in Int
        /\ requestsInQueue' \in Int
    <3>1. CASE shutdown # "no"
      BY <1>4, <3>1, <2>2 DEF TaskPersisted, Enqueue, Schedule, Stages
    <3>2. CASE shutdown = "no"
      <4>1. Enqueue(t) /\ shutdown = "no"
        BY <1>4, <3>2 DEF TaskPersisted
      <4>2. queue' \in [Requests -> Seq(Tasks)]
        BY <4>1, <2>2, <2>3 DEF Enqueue, Schedule
      <4>3. stage' \in [Tasks -> Stages]
        BY <4>1, <2>2 DEF Enqueue, Schedule, Stages
      <4>5. immediates' = [immediates EXCEPT ![r] = immediates[r] + 1] /\ immediates[r] + 1 \in Nat
        BY <4>1, <2>2 DEF Enqueue, Schedule
      <4>4. opened' \subseteq Requests /\ pending' \in Int /\ requestsInQueue' \in Int
        BY <4>1, <2>2 DEF Enqueue, Schedule
      <4> QED
        BY <4>2, <4>3, <4>4, <4>5
    <3> QED
      BY <3>1, <3>2
  <2> QED
    BY <1>4, <2>4, <2>5, <2>6 DEF TaskPersisted
<1>5. CASE PersistError
  <2>1. pipe' \in Seq(Command)
    BY <1>5 DEF PersistError
  <2> QED
    BY <1>5, <2>1 DEF PersistError, Stages, loop
<1>6. CASE ListShrunk
  <2> DEFINE r == Head(pipe).request
  <2>1. pipe' \in Seq(Command)
    BY <1>6 DEF ListShrunk
  <2>2. persisted' \in [Requests -> Seq(Tasks)]
    <3> DEFINE shrunk == IF Head(pipe).op = "del" \/ persisted[r] = <<>>
                         THEN <<>> ELSE Tail(persisted[r])
    <3>1. ASSUME r \in Requests PROVE shrunk \in Seq(Tasks)
      BY <3>1, EmptySeq
    <3>2. persisted' = [persisted EXCEPT ![r] = shrunk]
      BY <1>6 DEF ListShrunk
    <3> HIDE DEF shrunk, r
    <3> QED
      BY <3>1, <3>2
  <2> QED
    BY <1>6, <2>1, <2>2 DEF ListShrunk, memory, loop
<1>7. CASE \E r \in Requests : ExecuteTaskInQueue(r)
  <2> PICK r \in Requests : ExecuteTaskInQueue(r)
    BY <1>7
  <2>1. checking' \in [Requests -> Nat]
    <3>1. checking[r] > 0 /\ checking' = [checking EXCEPT ![r] = @ - 1]
      BY DEF ExecuteTaskInQueue
    <3>2. checking \in [Requests -> Nat]
      BY DEF TypeOK
    <3> QED
      BY <3>1, <3>2
  <2>2. CASE r \in running
    BY <2>1, <2>2 DEF ExecuteTaskInQueue, Busy, memory
  <2>3. CASE r \notin running /\ queue[r] # <<>>
    <3>1. Head(queue[r]) \in Tasks /\ Tail(queue[r]) \in Seq(Tasks)
      BY <2>3
    <3>2. queue' \in [Requests -> Seq(Tasks)]
      BY <2>3, <3>1 DEF ExecuteTaskInQueue, Busy
    <3>3. stage' \in [Tasks -> Stages] /\ fresh' \in Tasks \cup {None}
      BY <2>3, <3>1 DEF ExecuteTaskInQueue, Busy, Stages
    <3>4. /\ running' = running \cup {r}
          /\ pending' = pending - 1
          /\ processing' = processing + 1
      BY <2>3 DEF ExecuteTaskInQueue, Busy
    <3>5. UNCHANGED <<opened, requestsInQueue, shutdown, pipe, immediates, persisted>>
      BY <2>3 DEF ExecuteTaskInQueue, Busy
    <3>6. running' \subseteq Requests /\ pending' \in Int /\ processing' \in Int
      BY <3>4
    <3> QED
      BY <2>1, <3>2, <3>3, <3>5, <3>6
  <2>4. CASE r \notin running /\ queue[r] = <<>>
    <3>1. CleanUpQueue(r) /\ pipe' = Append(pipe, Del(r)) /\ fresh' = None
      BY <2>4 DEF ExecuteTaskInQueue, Busy
    <3>2. pipe' \in Seq(Command)
      BY <3>1, CommandTypes, AppendProperties
    <3>3. opened' \subseteq Requests /\ requestsInQueue' \in Int
      BY <3>1 DEF CleanUpQueue
    <3>4. shutdown' \in {"no", "waiting", "resolved"}
      BY <3>1 DEF CleanUpQueue
    <3>5. UNCHANGED <<stage, queue, running, pending, processing, immediates, persisted>>
      BY <2>4 DEF ExecuteTaskInQueue, Busy
    <3> QED
      BY <2>1, <3>1, <3>2, <3>3, <3>4, <3>5
  <2> QED
    BY <2>2, <2>3, <2>4
<1>8. CASE Stop
  BY <1>8 DEF Stop, memory, loop, redis
<1>9. CASE UNCHANGED vars
  BY <1>9 DEF vars, memory, loop, redis
<1> QED
  BY <1>1, <1>2, <1>3, <1>4, <1>5, <1>6, <1>7, <1>8, <1>9 DEF Next

-----------------------------------------------------------------------------
(* Preservation of the parts of the invariant.                             *)

\* What every leaf below needs to know of a sequence whose head is taken.
LEMMA TailFacts ==
    ASSUME NEW S, NEW s \in Seq(S), s # <<>>
    PROVE  /\ Head(s) = s[1] /\ 1 \in 1 .. Len(s)
           /\ Tail(s) \in Seq(S)
           /\ Len(Tail(s)) = Len(s) - 1
           /\ \A i \in 1 .. Len(Tail(s)) : Tail(s)[i] = s[i + 1] /\ i + 1 \in 1 .. Len(s)
BY HeadTailProperties

\* The task that Redis answers about is one being persisted.
LEMMA HeadPersisting ==
    ASSUME TypeOK, PipeInv, TaskPersisted \/ PersistError
    PROVE  Head(pipe).task \in Tasks /\ stage[Head(pipe).task] = "persisting"
<1>1. pipe # <<>> /\ Head(pipe).op = "rpush"
  BY DEF TaskPersisted, PersistError
<1>2. pipe \in Seq(Command)
  BY DEF TypeOK
<1> HIDE DEF TypeOK
<1>3. Head(pipe) = pipe[1] /\ 1 \in 1 .. Len(pipe)
  BY <1>1, <1>2, TailFacts
<1> QED
  BY <1>1, <1>3 DEF PipeInv

\* A step that sends no RPUSH and touches no task being persisted.
LEMMA NoNewRpush ==
    ASSUME PipeInv,
           \A u \in Tasks : stage[u] = "persisting" => stage'[u] = "persisting",
           \A i \in 1 .. Len(pipe') : pipe'[i].op = "rpush" =>
               i \in 1 .. Len(pipe) /\ pipe'[i] = pipe[i]
    PROVE  PipeInv'
BY DEF PipeInv

LEMMA NextPipeInv == TypeOK /\ PipeInv /\ QueueInv /\ [Next]_vars => PipeInv'
<1> SUFFICES ASSUME TypeOK, PipeInv, QueueInv, [Next]_vars PROVE PipeInv'
  OBVIOUS
<1>1. ASSUME UNCHANGED <<pipe, stage>> PROVE PipeInv'
  BY <1>1 DEF PipeInv
<1>2. CASE \E t \in Tasks : AddTask(t)
  <2> PICK t \in Tasks : AddTask(t)
    BY <1>2
  <2>1. /\ Len(pipe') = Len(pipe) + 1
        /\ \A i \in 1 .. Len(pipe) : pipe'[i] = pipe[i]
        /\ pipe'[Len(pipe) + 1] = Rpush(t)
        /\ Len(pipe) \in Nat
    BY CommandTypes, AppendProperties DEF AddTask, TypeOK
  <2>2. stage[t] = "new" /\ stage' = [stage EXCEPT ![t] = "persisting"]
    BY DEF AddTask
  <2>3. Rpush(t).op = "rpush" /\ Rpush(t).task = t
    BY DEF Rpush
  <2>4. \A u \in Tasks : stage[u] = "persisting" \/ u = t => stage'[u] = "persisting"
    BY <2>2 DEF TypeOK
  <2>5. ASSUME NEW i \in 1 .. Len(pipe'), pipe'[i].op = "rpush"
        PROVE  \/ i \in 1 .. Len(pipe) /\ pipe'[i] = pipe[i] /\ pipe[i].task # t
               \/ i = Len(pipe) + 1 /\ pipe'[i].task = t
    <3>1. i \in 1 .. Len(pipe) \/ i = Len(pipe) + 1
      BY <2>1
    <3> QED
      BY <3>1, <2>1, <2>2, <2>3, <2>5 DEF PipeInv
  <2>6. ASSUME NEW i \in 1 .. Len(pipe'), pipe'[i].op = "rpush"
        PROVE  pipe'[i].task \in Tasks /\ stage'[pipe'[i].task] = "persisting"
    BY <2>4, <2>5, <2>6 DEF PipeInv
  <2>7. ASSUME NEW i \in 1 .. Len(pipe'), NEW j \in 1 .. Len(pipe'),
               pipe'[i].op = "rpush", pipe'[j].op = "rpush", pipe'[i].task = pipe'[j].task
        PROVE  i = j
    BY <2>5, <2>7 DEF PipeInv
  <2> QED
    BY <2>6, <2>7 DEF PipeInv
<1>3. ASSUME NEW t \in Tasks, FinishTask(t) PROVE PipeInv'
  <2>1. stage[t] = "executing" /\ stage' = [stage EXCEPT ![t] = "done"]
    BY <1>3 DEF FinishTask, Schedule
  <2>2. /\ Lpop(RequestOf[t]).op # "rpush" /\ Del(RequestOf[t]).op # "rpush"
        /\ Lpop(RequestOf[t]) \in Command /\ Del(RequestOf[t]) \in Command
    BY CommandTypes, ConstantsAssumption DEF Lpop, Del
  <2>3. \A i \in 1 .. Len(pipe') : pipe'[i].op = "rpush" =>
            i \in 1 .. Len(pipe) /\ pipe'[i] = pipe[i]
    <3>1. CASE queue[RequestOf[t]] = <<>>
      <4>1. pipe' = pipe \o <<Del(RequestOf[t]), Lpop(RequestOf[t])>>
        BY <1>3, <3>1 DEF FinishTask, Schedule
      <4> QED
        BY <4>1, <2>2 DEF TypeOK
    <3>2. CASE queue[RequestOf[t]] # <<>>
      <4>1. pipe' = Append(pipe, Lpop(RequestOf[t]))
        BY <1>3, <3>2 DEF FinishTask, Schedule
      <4> QED
        BY <4>1, <2>2, AppendProperties DEF TypeOK
    <3> QED
      BY <3>1, <3>2
  <2>4. \A u \in Tasks : stage[u] = "persisting" => stage'[u] = "persisting"
    BY <2>1 DEF TypeOK
  <2> QED
    BY <2>3, <2>4, NoNewRpush
<1>4. CASE TaskPersisted \/ PersistError
  <2>1. /\ pipe # <<>> /\ pipe' = Tail(pipe)
        /\ Head(pipe).op = "rpush"
        /\ \A u \in Tasks \ {Head(pipe).task} : stage'[u] = stage[u]
    BY <1>4 DEF TaskPersisted, PersistError, Enqueue, Schedule, TypeOK
  <2>2. /\ Head(pipe) = pipe[1] /\ 1 \in 1 .. Len(pipe)
        /\ \A i \in 1 .. Len(pipe') : pipe'[i] = pipe[i + 1] /\ i + 1 \in 1 .. Len(pipe)
    BY <2>1, TailFacts DEF TypeOK
  <2> QED
    BY <2>1, <2>2 DEF PipeInv, TypeOK
<1>5. CASE ListShrunk
  <2>1. pipe # <<>> /\ pipe' = Tail(pipe) /\ stage' = stage
    BY <1>5 DEF ListShrunk, memory
  <2>2. \A i \in 1 .. Len(pipe') : pipe'[i] = pipe[i + 1] /\ i + 1 \in 1 .. Len(pipe)
    BY <2>1, TailFacts DEF TypeOK
  <2> QED
    BY <2>1, <2>2 DEF PipeInv, TypeOK
<1>6. ASSUME NEW r \in Requests, ExecuteTaskInQueue(r) PROVE PipeInv'
  <2>1. CASE r \in running
    BY <1>1, <1>6, <2>1 DEF ExecuteTaskInQueue, Busy, memory
  <2>2. CASE r \notin running /\ queue[r] # <<>>
    <3>1. pipe' = pipe /\ stage' = [stage EXCEPT ![Head(queue[r])] = "executing"]
      BY <1>6, <2>2 DEF ExecuteTaskInQueue, Busy
    <3>2. Head(queue[r]) \in Tasks /\ stage[Head(queue[r])] = "queued"
      BY <2>2, TailFacts DEF QueueInv, TypeOK
    <3> QED
      BY <3>1, <3>2 DEF PipeInv, TypeOK
  <2>3. CASE r \notin running /\ queue[r] = <<>>
    <3>1. pipe' = Append(pipe, Del(r)) /\ stage' = stage
      BY <1>6, <2>3 DEF ExecuteTaskInQueue, Busy
    <3>2. Del(r) \in Command /\ Del(r).op # "rpush"
      BY CommandTypes DEF Del
    <3>3. \A i \in 1 .. Len(pipe') : pipe'[i].op = "rpush" =>
              i \in 1 .. Len(pipe) /\ pipe'[i] = pipe[i]
      BY <3>1, <3>2, AppendProperties DEF TypeOK
    <3> QED
      BY <3>1, <3>3 DEF PipeInv
  <2> QED
    BY <2>1, <2>2, <2>3
<1>7. CASE EnterCheckPhase \/ Stop \/ UNCHANGED vars
  BY <1>1, <1>7 DEF EnterCheckPhase, Stop, vars, memory, redis
<1> QED
  BY <1>2, <1>3, <1>4, <1>5, <1>6, <1>7 DEF Next

\* A step that leaves every queue and the set of queued tasks alone.
LEMMA SameQueues ==
    ASSUME TypeOK, QueueInv, queue' = queue,
           \A u \in Tasks : stage'[u] = "queued" <=> stage[u] = "queued"
    PROVE  QueueInv'
<1>1. \A r \in Requests : \A i \in 1 .. Len(queue[r]) : queue[r][i] \in Tasks
  BY DEF TypeOK
<1>2. \A r \in Requests : \A i \in 1 .. Len(queue'[r]) :
          stage'[queue'[r][i]] = "queued" /\ RequestOf[queue'[r][i]] = r
  BY <1>1 DEF QueueInv
<1>3. \A t \in Tasks : stage'[t] = "queued" =>
          \E i \in 1 .. Len(queue'[RequestOf[t]]) : queue'[RequestOf[t]][i] = t
  BY DEF QueueInv
<1> QED
  BY <1>2, <1>3 DEF QueueInv

\* The await in addTaskToQueue is over: t goes to the end of its queue.
LEMMA EnqueueQueueInv ==
    ASSUME TypeOK, QueueInv, NEW t \in Tasks, stage[t] = "persisting",
           shutdown = "no", Enqueue(t)
    PROVE  QueueInv'
<1> DEFINE r == RequestOf[t]
<1>0. r \in Requests /\ queue[r] \in Seq(Tasks) /\ Len(queue[r]) \in Nat
  BY ConstantsAssumption DEF TypeOK
<1>1. /\ stage' = [stage EXCEPT ![t] = "queued"]
      /\ queue' = [queue EXCEPT ![r] = Append(queue[r], t)]
  BY DEF Enqueue, Schedule
<1>2. /\ \A q \in Requests \ {r} : queue'[q] = queue[q]
      /\ Len(queue'[r]) = Len(queue[r]) + 1
      /\ \A i \in 1 .. Len(queue[r]) : queue'[r][i] = queue[r][i]
      /\ queue'[r][Len(queue[r]) + 1] = t
  BY <1>0, <1>1, AppendProperties DEF TypeOK
<1>3. \A u \in Tasks : stage'[u] = "queued" <=> (stage[u] = "queued" \/ u = t)
  BY <1>1 DEF TypeOK
<1>4. \A q \in Requests : \A i \in 1 .. Len(queue[q]) :
          queue[q][i] \in Tasks /\ queue[q][i] # t
  BY DEF QueueInv, TypeOK
<1>5. ASSUME NEW q \in Requests, NEW i \in 1 .. Len(queue'[q])
      PROVE  \/ i \in 1 .. Len(queue[q]) /\ queue'[q][i] = queue[q][i]
             \/ q = r /\ i = Len(queue[r]) + 1 /\ queue'[q][i] = t
  <2>1. CASE q = r
    <3>1. i \in 1 .. Len(queue[r]) \/ i = Len(queue[r]) + 1
      BY <1>0, <1>2, <2>1
    <3> QED
      BY <3>1, <2>1, <1>2
  <2>2. CASE q # r
    BY <2>2, <1>2
  <2> QED
    BY <2>1, <2>2
<1>6. ASSUME NEW q \in Requests, NEW i \in 1 .. Len(queue'[q])
      PROVE  stage'[queue'[q][i]] = "queued" /\ RequestOf[queue'[q][i]] = q
  BY <1>3, <1>4, <1>5 DEF QueueInv
<1>7. ASSUME NEW q \in Requests, NEW i \in 1 .. Len(queue'[q]), NEW j \in 1 .. Len(queue'[q]),
             queue'[q][i] = queue'[q][j]
      PROVE  i = j
  <2>1. CASE i \in 1 .. Len(queue[q]) /\ j \in 1 .. Len(queue[q])
    BY <2>1, <1>2, <1>5, <1>7 DEF QueueInv
  <2>2. CASE i \notin 1 .. Len(queue[q]) /\ j \notin 1 .. Len(queue[q])
    BY <2>2, <1>5
  <2>3. CASE i \in 1 .. Len(queue[q]) /\ j \notin 1 .. Len(queue[q])
    <3>1. queue'[q][i] # t
      BY <2>3, <1>2, <1>4
    <3> QED
      BY <3>1, <2>3, <1>5, <1>7
  <2>4. CASE i \notin 1 .. Len(queue[q]) /\ j \in 1 .. Len(queue[q])
    <3>1. queue'[q][j] # t
      BY <2>4, <1>2, <1>4
    <3> QED
      BY <3>1, <2>4, <1>5, <1>7
  <2> QED
    BY <2>1, <2>2, <2>3, <2>4
<1>8. ASSUME NEW u \in Tasks, stage'[u] = "queued"
      PROVE  \E i \in 1 .. Len(queue'[RequestOf[u]]) : queue'[RequestOf[u]][i] = u
  <2>1. CASE u = t
    BY <2>1, <1>0, <1>2
  <2>2. CASE u # t
    <3>1. PICK i \in 1 .. Len(queue[RequestOf[u]]) : queue[RequestOf[u]][i] = u
      BY <1>3, <1>8, <2>2 DEF QueueInv
    <3>2. RequestOf[u] \in Requests
      BY ConstantsAssumption
    <3>3. i \in 1 .. Len(queue'[RequestOf[u]]) /\ queue'[RequestOf[u]][i] = u
      <4>1. CASE RequestOf[u] = r
        BY <4>1, <3>1, <1>0, <1>2
      <4>2. CASE RequestOf[u] # r
        BY <4>2, <3>1, <3>2, <1>2
      <4> QED
        BY <4>1, <4>2
    <3> QED
      BY <3>3
  <2> QED
    BY <2>1, <2>2
<1> QED
  BY <1>6, <1>7, <1>8 DEF QueueInv

\* The head of a queue starts to execute.
LEMMA ShiftQueueInv ==
    ASSUME TypeOK, QueueInv, NEW r \in Requests, queue[r] # <<>>,
           queue' = [queue EXCEPT ![r] = Tail(queue[r])],
           stage' = [stage EXCEPT ![Head(queue[r])] = "executing"]
    PROVE  QueueInv'
<1> DEFINE t == Head(queue[r])
<1>0. queue[r] \in Seq(Tasks) /\ Len(queue[r]) \in Nat
  BY DEF TypeOK
<1>1. /\ t = queue[r][1] /\ 1 \in 1 .. Len(queue[r])
      /\ t \in Tasks /\ RequestOf[t] = r
      /\ Len(Tail(queue[r])) = Len(queue[r]) - 1
      /\ \A i \in 1 .. Len(Tail(queue[r])) :
             Tail(queue[r])[i] = queue[r][i + 1] /\ i + 1 \in 1 .. Len(queue[r])
  BY <1>0, TailFacts DEF QueueInv
<1>2. queue'[r] = Tail(queue[r]) /\ \A q \in Requests \ {r} : queue'[q] = queue[q]
  BY DEF TypeOK
<1>3. \A u \in Tasks : stage'[u] = "queued" <=> (stage[u] = "queued" /\ u # t)
  BY DEF TypeOK
<1> HIDE DEF t
<1>6. ASSUME NEW q \in Requests, NEW i \in 1 .. Len(queue'[q])
      PROVE  /\ queue'[q][i] \in Tasks
             /\ stage'[queue'[q][i]] = "queued"
             /\ RequestOf[queue'[q][i]] = q
  <2>1. CASE q = r
    <3>0. i \in 1 .. Len(Tail(queue[r]))
      BY <2>1, <1>2
    <3>1. queue'[r][i] = queue[r][i + 1] /\ i + 1 \in 1 .. Len(queue[r]) /\ i + 1 # 1
      <4>1. queue'[r][i] = queue[r][i + 1] /\ i + 1 \in 1 .. Len(queue[r])
        BY <3>0, <1>1, <1>2
      <4>2. i + 1 # 1
        BY <3>0
      <4> QED
        BY <4>1, <4>2
    <3>2. queue[r][i + 1] # t /\ queue[r][i + 1] \in Tasks
      BY <3>1, <1>1, <1>0 DEF QueueInv
    <3> QED
      BY <2>1, <3>1, <3>2, <1>3 DEF QueueInv
  <2>2. CASE q # r
    <3>1. queue'[q] = queue[q] /\ queue[q][i] \in Tasks
      BY <2>2, <1>2 DEF TypeOK
    <3> QED
      BY <3>1, <2>2, <1>1, <1>3 DEF QueueInv
  <2> QED
    BY <2>1, <2>2
<1>7. ASSUME NEW q \in Requests, NEW i \in 1 .. Len(queue'[q]), NEW j \in 1 .. Len(queue'[q]),
             queue'[q][i] = queue'[q][j]
      PROVE  i = j
  <2>1. CASE q = r
    <3>1. /\ queue'[r][i] = queue[r][i + 1] /\ i + 1 \in 1 .. Len(queue[r])
          /\ queue'[r][j] = queue[r][j + 1] /\ j + 1 \in 1 .. Len(queue[r])
      BY <2>1, <1>1, <1>2
    <3>2. queue[r][i + 1] = queue[r][j + 1]
      BY <3>1, <2>1, <1>7
    <3>3. i + 1 = j + 1
      BY <3>1, <3>2 DEF QueueInv
    <3> QED
      BY <3>3
  <2>2. CASE q # r
    BY <2>2, <1>2, <1>7 DEF QueueInv
  <2> QED
    BY <2>1, <2>2
<1>8. ASSUME NEW u \in Tasks, stage'[u] = "queued"
      PROVE  \E i \in 1 .. Len(queue'[RequestOf[u]]) : queue'[RequestOf[u]][i] = u
  <2>0. stage[u] = "queued" /\ u # t /\ RequestOf[u] \in Requests
    BY <1>3, <1>8, ConstantsAssumption
  <2>1. PICK i \in 1 .. Len(queue[RequestOf[u]]) : queue[RequestOf[u]][i] = u
    BY <2>0 DEF QueueInv
  <2>2. CASE RequestOf[u] = r
    <3>1. i # 1
      BY <2>0, <2>1, <2>2, <1>1
    <3>2. i - 1 \in 1 .. Len(Tail(queue[r])) /\ (i - 1) + 1 = i
      BY <3>1, <2>1, <2>2, <1>0, <1>1
    <3>3. queue'[r][i - 1] = u
      BY <3>2, <2>1, <2>2, <1>1, <1>2
    <3> QED
      BY <3>2, <3>3, <2>2, <1>2
  <2>3. CASE RequestOf[u] # r
    BY <2>0, <2>1, <2>3, <1>2
  <2> QED
    BY <2>2, <2>3
<1>9. \A q \in Requests : \A i \in 1 .. Len(queue'[q]) :
          /\ stage'[queue'[q][i]] = "queued"
          /\ RequestOf[queue'[q][i]] = q
  BY ONLY <1>6, Zenon
<1>10. \A q \in Requests : \A i, j \in 1 .. Len(queue'[q]) :
          queue'[q][i] = queue'[q][j] => i = j
  BY ONLY <1>7, Zenon
<1>11. \A u \in Tasks : stage'[u] = "queued" =>
          \E i \in 1 .. Len(queue'[RequestOf[u]]) : queue'[RequestOf[u]][i] = u
  BY ONLY <1>8, Zenon
<1> QED
  BY ONLY <1>9, <1>10, <1>11, Zenon DEF QueueInv

LEMMA NextQueueInv ==
    TypeOK /\ PipeInv /\ QueueInv /\ RunningInv /\ [Next]_vars => QueueInv'
<1> SUFFICES ASSUME TypeOK, PipeInv, QueueInv, RunningInv, [Next]_vars PROVE QueueInv'
  OBVIOUS
<1>1. ASSUME UNCHANGED <<queue, stage>> PROVE QueueInv'
  BY <1>1 DEF QueueInv
<1>2. ASSUME NEW t \in Tasks, AddTask(t) \/ FinishTask(t) PROVE QueueInv'
  <2>1. /\ queue' = queue
        /\ stage[t] \in {"new", "executing"}
        /\ stage' = [stage EXCEPT ![t] = "persisting"] \/ stage' = [stage EXCEPT ![t] = "done"]
    BY <1>2 DEF AddTask, FinishTask, Schedule
  <2>2. \A u \in Tasks : stage'[u] = "queued" <=> stage[u] = "queued"
    BY <2>1 DEF TypeOK
  <2> QED
    BY <2>1, <2>2, SameQueues
<1>3. CASE TaskPersisted \/ PersistError
  <2> DEFINE t == Head(pipe).task
  <2>1. t \in Tasks /\ stage[t] = "persisting"
    BY <1>3, HeadPersisting
  <2>2. CASE TaskPersisted /\ shutdown = "no"
    <3>1. Enqueue(t)
      BY <2>2 DEF TaskPersisted
    <3> HIDE DEF t
    <3> QED
      BY <2>1, <2>2, <3>1, EnqueueQueueInv
  <2>3. CASE PersistError \/ shutdown # "no"
    <3>1. /\ queue' = queue
          /\ \/ stage' = [stage EXCEPT ![t] = "rejected"]
             \/ stage' = [stage EXCEPT ![t] = "abandoned"]
      BY <1>3, <2>3 DEF TaskPersisted, PersistError, Enqueue, Schedule
    <3>2. \A u \in Tasks : stage'[u] = "queued" <=> stage[u] = "queued"
      BY <2>1, <3>1 DEF TypeOK
    <3> QED
      BY <3>1, <3>2, SameQueues
  <2> QED
    BY <1>3, <2>2, <2>3
<1>4. ASSUME NEW r \in Requests, ExecuteTaskInQueue(r) PROVE QueueInv'
  <2>1. CASE r \in running \/ queue[r] = <<>>
    BY <1>1, <1>4, <2>1 DEF ExecuteTaskInQueue, Busy, memory
  <2>2. CASE r \notin running /\ queue[r] # <<>>
    <3>1. /\ queue' = [queue EXCEPT ![r] = Tail(queue[r])]
          /\ stage' = [stage EXCEPT ![Head(queue[r])] = "executing"]
      BY <1>4, <2>2 DEF ExecuteTaskInQueue, Busy
    <3> QED
      BY <2>2, <3>1, ShiftQueueInv
  <2> QED
    BY <2>1, <2>2
<1>5. CASE EnterCheckPhase \/ ListShrunk \/ Stop \/ UNCHANGED vars
  BY <1>1, <1>5 DEF EnterCheckPhase, ListShrunk, Stop, vars, memory
<1> QED
  BY <1>2, <1>3, <1>4, <1>5 DEF Next

\* A step that starts and finishes no task and leaves the queues alone.
LEMMA SameRunning ==
    ASSUME RunningInv, UNCHANGED <<opened, queue, running>>,
           \A u \in Tasks : stage'[u] = "executing" <=> stage[u] = "executing"
    PROVE  RunningInv'
BY DEF RunningInv, OneTaskPerRequest, Executing

\* The head of the queue of r starts, when no task of r is executing.
LEMMA StartRunningInv ==
    ASSUME TypeOK, QueueInv, RunningInv, NEW r \in Requests,
           r \notin running, queue[r] # <<>>, ExecuteTaskInQueue(r)
    PROVE  RunningInv'
<1> DEFINE t == Head(queue[r])
<1>1. t \in Tasks /\ RequestOf[t] = r
  BY TailFacts DEF QueueInv, TypeOK
<1>2. /\ queue' = [queue EXCEPT ![r] = Tail(queue[r])]
      /\ running' = running \cup {r}
      /\ opened' = opened
      /\ stage' = [stage EXCEPT ![t] = "executing"]
  BY DEF ExecuteTaskInQueue, Busy
<1>3. Executing' = Executing \cup {t}
  BY <1>1, <1>2 DEF Executing, TypeOK
<1> HIDE DEF t
<1>4. OneTaskPerRequest'
  BY <1>1, <1>3 DEF RunningInv, OneTaskPerRequest
<1>5. \A q \in Requests : q \in running' <=> \E u \in Executing' : RequestOf[u] = q
  BY <1>1, <1>2, <1>3 DEF RunningInv
<1>6. \A q \in Requests : q \in opened' <=> (q \in running' \/ queue'[q] # <<>>)
  BY <1>2 DEF RunningInv, TypeOK
<1> QED
  BY <1>4, <1>5, <1>6 DEF RunningInv

\* A task of r finishes: its queue is cleaned up exactly if nothing waits.
LEMMA FinishRunningInv ==
    ASSUME TypeOK, RunningInv, NEW t \in Tasks, FinishTask(t)
    PROVE  RunningInv'
<1> DEFINE r == RequestOf[t]
<1>1. r \in Requests /\ t \in Executing
  BY ConstantsAssumption DEF FinishTask, Schedule, Executing
<1>2. /\ queue' = queue
      /\ running' = running \ {r}
      /\ opened' = IF queue[r] = <<>> THEN opened \ {r} ELSE opened
      /\ stage' = [stage EXCEPT ![t] = "done"]
  BY DEF FinishTask, Schedule, CleanUpQueue
<1>3. Executing' = Executing \ {t}
  BY <1>2 DEF Executing, TypeOK
<1>4. \A u \in Executing : RequestOf[u] = r <=> u = t
  BY <1>1 DEF RunningInv, OneTaskPerRequest
<1> HIDE DEF r
<1>5. OneTaskPerRequest'
  BY <1>3 DEF RunningInv, OneTaskPerRequest
<1>6. \A q \in Requests : q \in running' <=> \E u \in Executing' : RequestOf[u] = q
  <2> TAKE q \in Requests
  <2>1. CASE q = r
    BY <2>1, <1>2, <1>3, <1>4
  <2>2. CASE q # r
    <3>1. RequestOf[t] = r
      BY DEF r
    <3> QED
      BY <2>2, <3>1, <1>2, <1>3 DEF RunningInv
  <2> QED
    BY <2>1, <2>2
<1>7. \A q \in Requests : q \in opened' <=> (q \in running' \/ queue'[q] # <<>>)
  BY <1>1, <1>2 DEF RunningInv
<1> QED
  BY <1>5, <1>6, <1>7 DEF RunningInv

\* A task joins its queue, which is opened if it was not.
LEMMA EnqueueRunningInv ==
    ASSUME TypeOK, RunningInv, NEW t \in Tasks, stage[t] = "persisting",
           shutdown = "no", Enqueue(t), running' = running
    PROVE  RunningInv'
<1> DEFINE r == RequestOf[t]
<1>0. r \in Requests /\ queue[r] \in Seq(Tasks)
  BY ConstantsAssumption DEF TypeOK
<1>1. Append(queue[r], t) # <<>>
  BY <1>0, AppendProperties
<1>2. /\ queue' = [queue EXCEPT ![r] = Append(queue[r], t)]
      /\ opened' = opened \cup {r}
      /\ stage' = [stage EXCEPT ![t] = "queued"]
  BY DEF Enqueue, Schedule
<1> HIDE DEF r
<1>3. Executing' = Executing
  BY <1>2 DEF Executing, TypeOK
<1>4. \A q \in Requests : q \in opened' <=> (q \in running' \/ queue'[q] # <<>>)
  BY <1>0, <1>1, <1>2 DEF RunningInv, TypeOK
<1> QED
  BY <1>3, <1>4 DEF RunningInv, OneTaskPerRequest

LEMMA NextRunningInv ==
    TypeOK /\ PipeInv /\ QueueInv /\ RunningInv /\ [Next]_vars => RunningInv'
<1> SUFFICES ASSUME TypeOK, PipeInv, QueueInv, RunningInv, [Next]_vars PROVE RunningInv'
  OBVIOUS
<1>1. ASSUME UNCHANGED <<opened, queue, running, stage>> PROVE RunningInv'
  BY <1>1 DEF RunningInv, OneTaskPerRequest, Executing
<1>2. ASSUME NEW t \in Tasks, AddTask(t) PROVE RunningInv'
  <2>1. \A u \in Tasks : stage'[u] = "executing" <=> stage[u] = "executing"
    BY <1>2 DEF AddTask, TypeOK
  <2> QED
    BY <1>2, <2>1, SameRunning DEF AddTask
<1>3. ASSUME NEW t \in Tasks, FinishTask(t) PROVE RunningInv'
  BY <1>3, FinishRunningInv
<1>4. CASE TaskPersisted \/ PersistError
  <2> DEFINE t == Head(pipe).task
  <2>1. t \in Tasks /\ stage[t] = "persisting"
    BY <1>4, HeadPersisting
  <2>2. CASE TaskPersisted /\ shutdown = "no"
    <3>1. Enqueue(t) /\ running' = running
      BY <2>2 DEF TaskPersisted
    <3> HIDE DEF t
    <3> QED
      BY <2>1, <2>2, <3>1, EnqueueRunningInv
  <2>3. CASE PersistError \/ shutdown # "no"
    <3>1. /\ UNCHANGED <<opened, queue, running>>
          /\ \/ stage' = [stage EXCEPT ![t] = "rejected"]
             \/ stage' = [stage EXCEPT ![t] = "abandoned"]
      BY <1>4, <2>3 DEF TaskPersisted, PersistError, Enqueue, Schedule
    <3>2. \A u \in Tasks : stage'[u] = "executing" <=> stage[u] = "executing"
      BY <2>1, <3>1 DEF TypeOK
    <3> QED
      BY <3>1, <3>2, SameRunning
  <2> QED
    BY <1>4, <2>2, <2>3
<1>5. ASSUME NEW r \in Requests, ExecuteTaskInQueue(r) PROVE RunningInv'
  <2>1. CASE r \in running
    BY <1>1, <1>5, <2>1 DEF ExecuteTaskInQueue, Busy, memory
  <2>2. CASE r \notin running
    <3>1. queue[r] # <<>>
      BY <1>5, <2>2 DEF ExecuteTaskInQueue, Busy, RunningInv
    <3> QED
      BY <1>5, <2>2, <3>1, StartRunningInv
  <2> QED
    BY <2>1, <2>2
<1>6. CASE EnterCheckPhase \/ ListShrunk \/ Stop \/ UNCHANGED vars
  BY <1>1, <1>6 DEF EnterCheckPhase, ListShrunk, Stop, vars, memory
<1> QED
  BY <1>2, <1>3, <1>4, <1>5, <1>6 DEF Next

-----------------------------------------------------------------------------
(* The counters.                                                           *)

Queued == {t \in Tasks : stage[t] = "queued"}

LEMMA SameCounts ==
    ASSUME CountersAgree, UNCHANGED <<opened, requestsInQueue, processing, pending>>,
           Executing' = Executing, Queued' = Queued
    PROVE  CountersAgree'
BY DEF CountersAgree, Queued

LEMMA FiniteSets ==
    ASSUME TypeOK
    PROVE  /\ IsFiniteSet(opened) /\ IsFiniteSet(Executing) /\ IsFiniteSet(Queued)
           /\ Cardinality(opened) \in Nat
           /\ Cardinality(Executing) \in Nat
           /\ Cardinality(Queued) \in Nat
<1>1. opened \subseteq Requests /\ Executing \subseteq Tasks /\ Queued \subseteq Tasks
  BY DEF TypeOK, Executing, Queued
<1>2. IsFiniteSet(opened) /\ IsFiniteSet(Executing) /\ IsFiniteSet(Queued)
  BY <1>1, FS_Subset, ConstantsAssumption
<1> QED
  BY <1>2, FS_CardinalityType

LEMMA EnqueueCounts ==
    ASSUME TypeOK, CountersAgree, NEW t \in Tasks, stage[t] = "persisting",
           shutdown = "no", Enqueue(t), processing' = processing
    PROVE  CountersAgree'
<1> DEFINE r == RequestOf[t]
<1>1. /\ stage' = [stage EXCEPT ![t] = "queued"]
      /\ opened' = opened \cup {r}
      /\ requestsInQueue' = IF r \in opened THEN requestsInQueue ELSE requestsInQueue + 1
      /\ pending' = pending + 1
  BY DEF Enqueue, Schedule
<1>2. Executing' = Executing /\ Queued' = Queued \cup {t} /\ t \notin Queued
  BY <1>1 DEF Executing, Queued, TypeOK
<1> HIDE DEF r
<1>3. Cardinality(Queued') = Cardinality(Queued) + 1
  BY <1>2, FiniteSets, FS_AddElement
<1>4. requestsInQueue' = Cardinality(opened')
  <2>1. CASE r \in opened
    BY <2>1, <1>1 DEF CountersAgree
  <2>2. CASE r \notin opened
    <3>1. Cardinality(opened') = Cardinality(opened) + 1
      BY <2>2, <1>1, FiniteSets, FS_AddElement
    <3> QED
      BY <2>2, <3>1, <1>1 DEF CountersAgree
  <2> QED
    BY <2>1, <2>2
<1>5. processing' = Cardinality(Executing') /\ pending' = Cardinality(Queued')
  BY <1>1, <1>2, <1>3 DEF CountersAgree, Queued
<1> QED
  BY <1>4, <1>5 DEF CountersAgree, Queued

LEMMA StartCounts ==
    ASSUME TypeOK, QueueInv, CountersAgree, NEW r \in Requests,
           r \notin running, queue[r] # <<>>, ExecuteTaskInQueue(r)
    PROVE  CountersAgree'
<1> DEFINE t == Head(queue[r])
<1>1. t \in Tasks /\ stage[t] = "queued"
  BY TailFacts DEF QueueInv, TypeOK
<1>2. /\ stage' = [stage EXCEPT ![t] = "executing"]
      /\ pending' = pending - 1
      /\ processing' = processing + 1
      /\ UNCHANGED <<opened, requestsInQueue>>
  BY DEF ExecuteTaskInQueue, Busy
<1> HIDE DEF t
<1>3. /\ Executing' = Executing \cup {t} /\ t \notin Executing
      /\ Queued' = Queued \ {t} /\ t \in Queued
  BY <1>1, <1>2 DEF Executing, Queued, TypeOK
<1>4. Cardinality(Executing') = Cardinality(Executing) + 1
  BY <1>3, FiniteSets, FS_AddElement
<1>5. Cardinality(Queued') = Cardinality(Queued) - 1
  BY <1>3, FiniteSets, FS_RemoveElement
<1>6. processing' = Cardinality(Executing') /\ pending' = Cardinality(Queued')
  BY <1>2, <1>4, <1>5 DEF CountersAgree, Queued
<1> QED
  BY <1>2, <1>6 DEF CountersAgree, Queued

LEMMA FinishCounts ==
    ASSUME TypeOK, RunningInv, CountersAgree, NEW t \in Tasks, FinishTask(t)
    PROVE  CountersAgree'
<1> DEFINE r == RequestOf[t]
<1>1. /\ stage[t] = "executing"
      /\ stage' = [stage EXCEPT ![t] = "done"]
      /\ processing' = processing - 1
      /\ pending' = pending
      /\ opened' = IF queue[r] = <<>> THEN opened \ {r} ELSE opened
      /\ requestsInQueue' = IF queue[r] = <<>> THEN requestsInQueue - 1 ELSE requestsInQueue
  BY DEF FinishTask, Schedule, CleanUpQueue
<1>2. r \in opened
  BY <1>1, ConstantsAssumption DEF RunningInv, Executing
<1> HIDE DEF r
<1>3. Executing' = Executing \ {t} /\ t \in Executing /\ Queued' = Queued
  BY <1>1 DEF Executing, Queued, TypeOK
<1>4. Cardinality(Executing') = Cardinality(Executing) - 1
  BY <1>3, FiniteSets, FS_RemoveElement
<1>5. Cardinality(opened \ {r}) = Cardinality(opened) - 1
  BY <1>2, FiniteSets, FS_RemoveElement
<1>6. requestsInQueue' = Cardinality(opened')
  BY <1>1, <1>5 DEF CountersAgree
<1>7. processing' = Cardinality(Executing') /\ pending' = Cardinality(Queued')
  BY <1>1, <1>3, <1>4 DEF CountersAgree, Queued
<1> QED
  BY <1>6, <1>7 DEF CountersAgree, Queued

LEMMA NextCounts ==
    TypeOK /\ PipeInv /\ QueueInv /\ RunningInv /\ CountersAgree /\ [Next]_vars
        => CountersAgree'
<1> SUFFICES ASSUME TypeOK, PipeInv, QueueInv, RunningInv, CountersAgree, [Next]_vars
             PROVE  CountersAgree'
  OBVIOUS
<1>1. ASSUME UNCHANGED <<opened, requestsInQueue, processing, pending, stage>>
      PROVE  CountersAgree'
  BY <1>1, SameCounts DEF Executing, Queued
<1>2. ASSUME NEW t \in Tasks, AddTask(t) PROVE CountersAgree'
  <2>1. Executing' = Executing /\ Queued' = Queued
    BY <1>2 DEF AddTask, Executing, Queued, TypeOK
  <2> QED
    BY <1>2, <2>1, SameCounts DEF AddTask
<1>3. ASSUME NEW t \in Tasks, FinishTask(t) PROVE CountersAgree'
  BY <1>3, FinishCounts
<1>4. CASE TaskPersisted \/ PersistError
  <2> DEFINE t == Head(pipe).task
  <2>1. t \in Tasks /\ stage[t] = "persisting"
    BY <1>4, HeadPersisting
  <2>2. CASE TaskPersisted /\ shutdown = "no"
    <3>1. Enqueue(t) /\ processing' = processing
      BY <2>2 DEF TaskPersisted
    <3> HIDE DEF t
    <3> QED
      BY <2>1, <2>2, <3>1, EnqueueCounts
  <2>3. CASE PersistError \/ shutdown # "no"
    <3>1. /\ UNCHANGED <<opened, requestsInQueue, processing, pending>>
          /\ \/ stage' = [stage EXCEPT ![t] = "rejected"]
             \/ stage' = [stage EXCEPT ![t] = "abandoned"]
      BY <1>4, <2>3 DEF TaskPersisted, PersistError, Enqueue, Schedule
    <3>2. Executing' = Executing /\ Queued' = Queued
      BY <2>1, <3>1 DEF Executing, Queued, TypeOK
    <3> QED
      BY <3>1, <3>2, SameCounts
  <2> QED
    BY <1>4, <2>2, <2>3
<1>5. ASSUME NEW r \in Requests, ExecuteTaskInQueue(r) PROVE CountersAgree'
  <2>1. CASE r \in running
    BY <1>1, <1>5, <2>1 DEF ExecuteTaskInQueue, Busy, memory
  <2>2. CASE r \notin running
    <3>1. queue[r] # <<>>
      BY <1>5, <2>2 DEF ExecuteTaskInQueue, Busy, RunningInv
    <3> QED
      BY <1>5, <2>2, <3>1, StartCounts
  <2> QED
    BY <2>1, <2>2
<1>6. CASE EnterCheckPhase \/ ListShrunk \/ Stop \/ UNCHANGED vars
  BY <1>1, <1>6 DEF EnterCheckPhase, ListShrunk, Stop, vars, memory
<1> QED
  BY <1>2, <1>3, <1>4, <1>5, <1>6 DEF Next

-----------------------------------------------------------------------------
(* Shutdown.                                                               *)

\* requestsInQueueCount is 0 exactly when no request has a queue object.
LEMMA NoneOpen ==
    ASSUME TypeOK, CountersAgree
    PROVE  requestsInQueue \in Nat /\ (requestsInQueue = 0 <=> opened = {})
<1>1. IsFiniteSet(opened) /\ Cardinality(opened) \in Nat
  BY FiniteSets
<1>2. Cardinality(opened) = 0 <=> opened = {}
  BY <1>1, FS_EmptySet
<1> QED
  BY <1>1, <1>2 DEF CountersAgree

\* The step that cleans up the last queue wakes stop() in the same turn.
LEMMA CleanUpStopInv ==
    ASSUME TypeOK, CountersAgree, TypeOK', CountersAgree', StopInv,
           NEW r \in Requests, CleanUpQueue(r)
    PROVE  StopInv'
<1>1. requestsInQueue' = 0 => opened' = {}
  <2>1. IsFiniteSet(opened')
    BY FS_Subset, ConstantsAssumption DEF TypeOK
  <2> QED
    BY <2>1, FS_EmptySet DEF CountersAgree
<1>2. shutdown = "resolved" => opened' = {}
  BY DEF CleanUpQueue, StopInv
<1> QED
  BY <1>1, <1>2 DEF CleanUpQueue, StopInv

LEMMA NextStopInv ==
    /\ TypeOK /\ TypeOK' /\ CountersAgree /\ CountersAgree'
    /\ RunningInv /\ StopInv /\ [Next]_vars
    => StopInv'
<1> SUFFICES ASSUME TypeOK, TypeOK', CountersAgree, CountersAgree', RunningInv, StopInv,
                    [Next]_vars
             PROVE  StopInv'
  OBVIOUS
<1>1. ASSUME UNCHANGED <<opened, shutdown>> PROVE StopInv'
  BY <1>1 DEF StopInv
<1>2. ASSUME NEW t \in Tasks, FinishTask(t) PROVE StopInv'
  <2>1. RequestOf[t] \in Requests
    BY ConstantsAssumption
  <2>2. CASE queue[RequestOf[t]] = <<>>
    <3>1. CleanUpQueue(RequestOf[t])
      BY <1>2, <2>2 DEF FinishTask, Schedule
    <3> QED
      BY <2>1, <3>1, CleanUpStopInv
  <2>3. CASE queue[RequestOf[t]] # <<>>
    BY <1>1, <1>2, <2>3 DEF FinishTask, Schedule
  <2> QED
    BY <2>2, <2>3
<1>3. CASE TaskPersisted
  <2>1. shutdown' = shutdown /\ (shutdown # "no" => opened' = opened)
    BY <1>3 DEF TaskPersisted, Enqueue, Schedule
  <2> QED
    BY <2>1 DEF StopInv
<1>4. ASSUME NEW r \in Requests, ExecuteTaskInQueue(r) PROVE StopInv'
  <2>1. r \in running \/ queue[r] # <<>>
    BY <1>4 DEF ExecuteTaskInQueue, Busy, RunningInv
  <2> QED
    BY <1>1, <1>4, <2>1 DEF ExecuteTaskInQueue, Busy, memory
<1>5. CASE Stop
  <2>1. opened' = opened /\ shutdown' = IF requestsInQueue > 0 THEN "waiting" ELSE "resolved"
    BY <1>5 DEF Stop, memory
  <2> QED
    BY <2>1, NoneOpen DEF StopInv
<1>6. CASE \/ \E t \in Tasks : AddTask(t)
           \/ PersistError \/ EnterCheckPhase \/ ListShrunk \/ UNCHANGED vars
  BY <1>1, <1>6 DEF AddTask, PersistError, EnterCheckPhase, ListShrunk, vars, memory
<1> QED
  BY <1>2, <1>3, <1>4, <1>5, <1>6 DEF Next

-----------------------------------------------------------------------------
(* The theorems.                                                           *)

LEMMA InitIInv == Init => IInv
<1> SUFFICES ASSUME Init PROVE IInv
  OBVIOUS
<1>1. TypeOK
  BY InitType
<1>2. Executing = {} /\ {t \in Tasks : stage[t] = "queued"} = {}
  BY DEF Init, Executing
<1>3. Cardinality({}) = 0
  BY FS_EmptySet
<1>4. CountersAgree
  BY <1>2, <1>3 DEF Init, CountersAgree
<1>5. PipeInv /\ QueueInv
  BY DEF Init, PipeInv, QueueInv
<1>6. RunningInv
  BY <1>2 DEF Init, RunningInv, OneTaskPerRequest
<1> QED
  BY <1>1, <1>4, <1>5, <1>6 DEF Init, IInv, StopInv

LEMMA NextIInv == IInv /\ [Next]_vars => IInv'
<1> SUFFICES ASSUME IInv, [Next]_vars PROVE IInv'
  OBVIOUS
<1>1. TypeOK'
  BY NextType DEF IInv
<1>2. PipeInv' /\ QueueInv' /\ RunningInv'
  BY NextPipeInv, NextQueueInv, NextRunningInv DEF IInv
<1>3. CountersAgree'
  BY NextCounts DEF IInv
<1>4. StopInv'
  BY <1>1, <1>3, NextStopInv DEF IInv
<1> QED
  BY <1>1, <1>2, <1>3, <1>4 DEF IInv

\* The inductive invariant holds in every reachable state.
THEOREM Invariant == Spec => []IInv
<1>1. Init => IInv
  BY InitIInv
<1>2. IInv /\ [Next]_vars => IInv'
  BY NextIInv
<1> QED
  BY <1>1, <1>2, PTL DEF Spec

\* The variables of the module keep the types of their counterparts in the code.
THEOREM TypeCorrect == Spec => []TypeOK
<1>1. IInv => TypeOK
  BY DEF IInv
<1> QED
  BY <1>1, Invariant, PTL

\* However calls of addTaskToQueue, answers of Redis and setImmediate callbacks
\* interleave, no two tasks of one request execute at the same time.
THEOREM MutualExclusion == Spec => []OneTaskPerRequest
<1>1. IInv => OneTaskPerRequest
  BY DEF IInv, RunningInv
<1> QED
  BY <1>1, Invariant, PTL

\* The three counters are exact in every state, so stop() reads the truth and a
\* gauge never drifts or goes negative.
THEOREM ExactCounters == Spec => []CountersAgree
<1>1. IInv => CountersAgree
  BY DEF IInv
<1> QED
  BY <1>1, Invariant, PTL

\* When stop() has resolved no task waits or executes: server.js may close the
\* connections the tasks use.
THEOREM SafeStop == Spec => []StopIsSafe
<1>1. IInv => StopIsSafe
  <2> SUFFICES ASSUME IInv, shutdown = "resolved"
               PROVE  opened = {} /\ \A t \in Tasks : stage[t] \notin {"queued", "executing"}
    BY DEF StopIsSafe
  <2>1. opened = {}
    BY DEF IInv, StopInv
  <2>2. \A r \in Requests : r \notin running /\ queue[r] = <<>>
    BY <2>1 DEF IInv, RunningInv
  <2>3. ASSUME NEW t \in Tasks PROVE stage[t] \notin {"queued", "executing"}
    <3>1. RequestOf[t] \in Requests
      BY ConstantsAssumption
    <3>2. stage[t] # "executing"
      BY <2>2, <3>1 DEF IInv, RunningInv, Executing
    <3>3. stage[t] # "queued"
      BY <2>2, <3>1 DEF IInv, QueueInv
    <3> QED
      BY <3>2, <3>3
  <2> QED
    BY <2>1, <2>3
<1> QED
  BY <1>1, Invariant, PTL

-----------------------------------------------------------------------------
(* The queue object is there, up to Node.js 10.                            *)

\* Between check phases a callback is scheduled only for a request that has a
\* task waiting; during one nothing is scheduled, and every request with a
\* callback to run keeps its queue object.
LoopInv ==
    /\ \A r \in Requests : immediates[r] > 0 => ~InCheckPhase /\ queue[r] # <<>>
    /\ \A r \in Requests : checking[r] > 0 => r \in opened

LEMMA NextLoopInv ==
    ASSUME ~MicrotasksBetween, TypeOK, PipeInv, RunningInv, LoopInv, [Next]_vars
    PROVE  LoopInv'
<1>1. ASSUME UNCHANGED <<immediates, checking, queue, opened>> PROVE LoopInv'
  BY <1>1 DEF LoopInv, InCheckPhase
<1>2. ASSUME NEW t \in Tasks, FinishTask(t) PROVE LoopInv'
  <2> DEFINE r == RequestOf[t]
  <2>1. ~InCheckPhase /\ r \in Requests
    BY <1>2, ConstantsAssumption DEF FinishTask, Schedule
  <2>2. checking' = checking /\ queue' = queue
    BY <1>2 DEF FinishTask, Schedule
  <2>3. ~InCheckPhase' /\ \A q \in Requests : ~(checking'[q] > 0)
    BY <2>1, <2>2 DEF InCheckPhase
  <2>4. \A q \in Requests : immediates'[q] > 0 => immediates[q] > 0 \/ queue[q] # <<>>
    <3>1. CASE queue[r] = <<>>
      BY <1>2, <3>1 DEF FinishTask, Schedule
    <3>2. CASE queue[r] # <<>>
      <4>1. immediates' = [immediates EXCEPT ![r] = immediates[r] + 1]
        BY <1>2, <3>2 DEF FinishTask, Schedule
      <4> QED
        BY <2>1, <3>2, <4>1 DEF TypeOK
    <3> QED
      BY <3>1, <3>2
  <2> QED
    BY <2>2, <2>3, <2>4 DEF LoopInv
<1>3. CASE TaskPersisted
  <2> DEFINE t == Head(pipe).task
             r == RequestOf[t]
  <2>1. t \in Tasks /\ r \in Requests
    BY <1>3, TailFacts, ConstantsAssumption DEF TaskPersisted, PipeInv, TypeOK
  <2>2. ~InCheckPhase /\ checking' = checking /\ Enqueue(t)
    BY <1>3 DEF TaskPersisted
  <2>3. ~InCheckPhase' /\ \A q \in Requests : ~(checking'[q] > 0)
    BY <2>2 DEF InCheckPhase
  <2>4. \A q \in Requests : immediates'[q] > 0 => queue'[q] # <<>>
    <3>1. CASE shutdown # "no"
      BY <2>2, <3>1 DEF Enqueue, Schedule, LoopInv
    <3>2. CASE shutdown = "no"
      <4>1. /\ queue' = [queue EXCEPT ![r] = Append(queue[r], t)]
            /\ immediates' = [immediates EXCEPT ![r] = immediates[r] + 1]
        BY <2>2, <3>2 DEF Enqueue, Schedule
      <4>2. queue[r] \in Seq(Tasks)
        BY <2>1 DEF TypeOK
      <4>3. Append(queue[r], t) # <<>>
        BY <2>1, <4>2, AppendProperties
      <4> HIDE DEF r
      <4> QED
        BY <2>1, <4>1, <4>3 DEF LoopInv, TypeOK
    <3> QED
      BY <3>1, <3>2
  <2> QED
    BY <2>3, <2>4 DEF LoopInv
<1>4. ASSUME NEW r \in Requests, ExecuteTaskInQueue(r) PROVE LoopInv'
  <2>1. InCheckPhase /\ immediates' = immediates
    BY <1>4 DEF ExecuteTaskInQueue, Busy, InCheckPhase
  <2>2. \A q \in Requests : ~(immediates'[q] > 0)
    BY <2>1 DEF LoopInv
  <2>3. \A q \in Requests : checking'[q] > 0 => checking[q] > 0
    BY <1>4 DEF ExecuteTaskInQueue, Busy, TypeOK
  <2>4. opened' = opened
    <3>1. r \in running \/ queue[r] # <<>>
      BY <1>4 DEF ExecuteTaskInQueue, Busy, RunningInv
    <3> QED
      BY <1>4, <3>1 DEF ExecuteTaskInQueue, Busy, memory
  <2> QED
    BY <2>2, <2>3, <2>4 DEF LoopInv
<1>5. CASE EnterCheckPhase
  <2>1. /\ checking' = immediates /\ opened' = opened
        /\ \A q \in Requests : ~(immediates'[q] > 0)
    BY <1>5 DEF EnterCheckPhase, memory
  <2> QED
    BY <2>1 DEF LoopInv, RunningInv
<1>6. CASE \/ \E t \in Tasks : AddTask(t)
           \/ PersistError \/ ListShrunk \/ Stop \/ UNCHANGED vars
  BY <1>1, <1>6 DEF AddTask, PersistError, ListShrunk, Stop, vars, memory, loop
<1> QED
  BY <1>2, <1>3, <1>4, <1>5, <1>6 DEF Next

\* Up to Node.js 10, where the callbacks of promises run after the whole check
\* phase, no executeTaskInQueue callback and no end of a task ever meets a
\* missing queue object.
THEOREM QueueObjectAlways ==
    ASSUME ~MicrotasksBetween
    PROVE  Spec => []QueueObjectPresent
<1>1. Init => LoopInv
  BY DEF Init, LoopInv
<1>2. IInv /\ LoopInv /\ [Next]_vars => LoopInv'
  BY NextLoopInv DEF IInv
<1>3. IInv /\ LoopInv => QueueObjectPresent
  BY DEF IInv, LoopInv, RunningInv, QueueObjectPresent
<1> QED
  BY <1>1, <1>2, <1>3, Invariant, PTL DEF Spec

\* The four together: up to Node.js 10 the queue in memory is sound, whatever
\* settles, is added or is stopped in between.
THEOREM QueueSound ==
    ASSUME ~MicrotasksBetween
    PROVE  Spec => []QueueIsSound
  BY MutualExclusion, ExactCounters, SafeStop, QueueObjectAlways, PTL DEF QueueIsSound

-----------------------------------------------------------------------------
(* The lists in Redis.                                                     *)

\* As long as the process does not stop, a list that is left over when its
\* request has no queue is going to be deleted: the DEL is in the pipeline.
DrainInv ==
    shutdown = "no" =>
        \A r \in Requests : r \notin opened /\ persisted[r] # <<>> =>
            \E i \in 1 .. Len(pipe) : pipe[i] = Del(r)

LEMMA NextDrainInv ==
    ASSUME TypeOK, PipeInv, DrainInv, [Next]_vars
    PROVE  DrainInv'
<1> SUFFICES ASSUME shutdown' = "no", NEW r \in Requests, r \notin opened', persisted'[r] # <<>>
             PROVE  \E i \in 1 .. Len(pipe') : pipe'[i] = Del(r)
  BY DEF DrainInv
<1>0. shutdown = "no"
  BY DEF Next, EnterCheckPhase, AddTask, FinishTask, CleanUpQueue, TaskPersisted, PersistError,
     ListShrunk, ExecuteTaskInQueue, Stop, vars, memory, loop, redis
<1>a. pipe \in Seq(Command) /\ persisted \in [Requests -> Seq(Tasks)]
  BY DEF TypeOK
<1>1. ASSUME r \notin opened, persisted[r] # <<>>,
             \A i \in 1 .. Len(pipe) : i \in 1 .. Len(pipe') /\ pipe'[i] = pipe[i]
      PROVE  \E i \in 1 .. Len(pipe') : pipe'[i] = Del(r)
  BY <1>0, <1>1 DEF DrainInv
<1>2. ASSUME r \notin opened, persisted[r] # <<>>, pipe # <<>>, pipe' = Tail(pipe),
             Head(pipe) # Del(r)
      PROVE  \E i \in 1 .. Len(pipe') : pipe'[i] = Del(r)
  <2>1. PICK i \in 1 .. Len(pipe) : pipe[i] = Del(r)
    BY <1>0, <1>2 DEF DrainInv
  <2>2. i # 1 /\ i - 1 \in 1 .. Len(pipe') /\ pipe'[i - 1] = pipe[i]
    BY <1>a, <1>2, <2>1
  <2> QED
    BY <2>1, <2>2
<1>3. CASE UNCHANGED <<pipe, persisted, opened>>
  BY <1>1, <1>3
<1>4. ASSUME NEW t \in Tasks, AddTask(t) PROVE \E i \in 1 .. Len(pipe') : pipe'[i] = Del(r)
  <2>1. r \notin opened /\ persisted[r] # <<>> /\ pipe' = Append(pipe, Rpush(t))
    BY <1>4 DEF AddTask
  <2>2. \A i \in 1 .. Len(pipe) : i \in 1 .. Len(pipe') /\ pipe'[i] = pipe[i]
    BY <1>a, <2>1, CommandTypes, AppendProperties
  <2> QED
    BY <1>1, <2>1, <2>2
<1>5. ASSUME NEW t \in Tasks, FinishTask(t) PROVE \E i \in 1 .. Len(pipe') : pipe'[i] = Del(r)
  <2>1. RequestOf[t] \in Requests /\ persisted' = persisted
    BY <1>5, ConstantsAssumption DEF FinishTask
  <2>2. PICK q \in Requests : q = RequestOf[t]
    BY <2>1
  <2>3. Del(q) \in Command /\ Lpop(q) \in Command /\ Del(r) \in Command
    BY CommandTypes
  <2>4. CASE queue[q] = <<>>
    <3>1. pipe' = pipe \o <<Del(q), Lpop(q)>> /\ opened' = opened \ {q}
      BY <1>5, <2>2, <2>4 DEF FinishTask, CleanUpQueue
    <3>2. /\ \A i \in 1 .. Len(pipe) : i \in 1 .. Len(pipe') /\ pipe'[i] = pipe[i]
          /\ Len(pipe) + 1 \in 1 .. Len(pipe') /\ pipe'[Len(pipe) + 1] = Del(q)
      BY <1>a, <2>3, <3>1
    <3> QED
      BY <1>1, <2>1, <3>1, <3>2
  <2>5. CASE queue[q] # <<>>
    <3>1. pipe' = Append(pipe, Lpop(q)) /\ opened' = opened
      BY <1>5, <2>2, <2>5 DEF FinishTask
    <3>2. \A i \in 1 .. Len(pipe) : i \in 1 .. Len(pipe') /\ pipe'[i] = pipe[i]
      BY <1>a, <2>3, <3>1, AppendProperties
    <3> QED
      BY <1>1, <2>1, <3>1, <3>2
  <2> QED
    BY <2>4, <2>5
<1>6. CASE TaskPersisted
  <2>1. /\ pipe # <<>> /\ pipe' = Tail(pipe) /\ Head(pipe).op = "rpush"
        /\ opened' = opened \cup {RequestOf[Head(pipe).task]}
        /\ persisted' = [persisted EXCEPT ![RequestOf[Head(pipe).task]] = Append(@, Head(pipe).task)]
    BY <1>0, <1>6 DEF TaskPersisted, Enqueue
  <2>2. r # RequestOf[Head(pipe).task] /\ r \notin opened
    BY <2>1
  <2>3. persisted[r] # <<>>
    BY <1>a, <2>1, <2>2
  <2>4. Head(pipe) # Del(r)
    BY <2>1 DEF Del
  <2> QED
    BY <1>2, <2>1, <2>2, <2>3, <2>4
<1>7. CASE PersistError
  <2>1. /\ pipe # <<>> /\ pipe' = Tail(pipe) /\ Head(pipe).op = "rpush"
        /\ opened' = opened /\ persisted' = persisted
    BY <1>7 DEF PersistError
  <2>2. Head(pipe) # Del(r)
    BY <2>1 DEF Del
  <2> QED
    BY <1>2, <2>1, <2>2
<1>8. CASE ListShrunk
  <2>1. /\ pipe # <<>> /\ pipe' = Tail(pipe) /\ opened' = opened
        /\ persisted' = [persisted EXCEPT ![Head(pipe).request] =
                            IF Head(pipe).op = "del" \/ @ = <<>> THEN <<>> ELSE Tail(@)]
    BY <1>8 DEF ListShrunk, memory
  <2>2. Head(pipe) # Del(r)
    BY <1>a, <2>1 DEF Del
  <2>3. persisted[r] # <<>>
    BY <1>a, <2>1
  <2> QED
    BY <1>2, <2>1, <2>2, <2>3
<1>9. ASSUME NEW q \in Requests, ExecuteTaskInQueue(q)
      PROVE  \E i \in 1 .. Len(pipe') : pipe'[i] = Del(r)
  <2>1. \/ UNCHANGED <<pipe, persisted, opened>>
        \/ /\ pipe' = Append(pipe, Del(q)) /\ opened' = opened \ {q}
           /\ persisted' = persisted
    BY <1>9 DEF ExecuteTaskInQueue, CleanUpQueue, memory
  <2>2. CASE pipe' = Append(pipe, Del(q)) /\ opened' = opened \ {q} /\ persisted' = persisted
    <3>1. Del(q) \in Command
      BY CommandTypes
    <3>2. /\ \A i \in 1 .. Len(pipe) : i \in 1 .. Len(pipe') /\ pipe'[i] = pipe[i]
          /\ Len(pipe) + 1 \in 1 .. Len(pipe') /\ pipe'[Len(pipe) + 1] = Del(q)
      BY <1>a, <2>2, <3>1, AppendProperties
    <3> QED
      BY <1>1, <2>2, <3>2
  <2> QED
    BY <1>3, <2>1, <2>2
<1> QED
  BY <1>3, <1>4, <1>5, <1>6, <1>7, <1>8, <1>9
     DEF Next, EnterCheckPhase, Stop, vars, memory, loop, redis

\* Once the pipeline is empty nothing is left in Redis of a request without a
\* queue: cleanUpQueue() deletes the list, whatever was pushed in between.
THEOREM RedisDrained == Spec => []PersistedDrained
<1>1. Init => DrainInv
  BY DEF Init, DrainInv
<1>2. IInv /\ DrainInv /\ [Next]_vars => DrainInv'
  BY NextDrainInv DEF IInv
<1>3. DrainInv => PersistedDrained
  BY DEF DrainInv, PersistedDrained
<1> QED
  BY <1>1, <1>2, <1>3, Invariant, PTL DEF Spec

-----------------------------------------------------------------------------
(* The queue implements SerialExecutor.  A task waits, for the abstract      *)
(* executor, from the call of addTaskToQueue() on; its place is the place of *)
(* its RPUSH in the pipeline, and then its place in the queue.               *)

\* A task being persisted has its RPUSH in the pipeline, on the list of its
\* own request.
HandedInv ==
    /\ \A t \in Tasks : stage[t] = "persisting" => \E i \in DOMAIN pipe : pipe[i] = Rpush(t)
    /\ \A i \in DOMAIN pipe : pipe[i].op = "rpush" => pipe[i] = Rpush(pipe[i].task)

\* The order of the tasks that wait, by where they are.
Precedes(t, u) ==
    \/ stage[t] = "queued" /\ stage[u] = "persisting"
    \/ stage[t] = "queued" /\ stage[u] = "queued" /\ AheadInQueue(t, u)
    \/ stage[t] = "persisting" /\ stage[u] = "persisting" /\ AheadInPipe(t, u)

LEMMA RpushOf ==
    \A t \in Tasks : /\ Rpush(t).op = "rpush" /\ Rpush(t).task = t /\ Rpush(t) \in Command
                     /\ \A u \in Tasks : Rpush(t) = Rpush(u) => t = u
<1> SUFFICES ASSUME NEW t \in Tasks
             PROVE  /\ Rpush(t).op = "rpush" /\ Rpush(t).task = t /\ Rpush(t) \in Command
                    /\ \A u \in Tasks : Rpush(t) = Rpush(u) => t = u
  OBVIOUS
<1>1. \A u \in Tasks : Rpush(u).op = "rpush" /\ Rpush(u).task = u
  BY DEF Rpush
<1> QED
  BY <1>1, CommandTypes

\* Being ahead of another task in a list, a task is in that list.
LEMMA InLists ==
    ASSUME PipeInv, QueueInv, TypeOK, NEW t \in Tasks, NEW u \in Tasks
    PROVE  /\ AheadInPipe(t, u) => stage[t] = "persisting" /\ stage[u] = "persisting"
           /\ AheadInQueue(t, u) => stage[t] = "queued" /\ stage[u] = "queued"
<1>1. pipe \in Seq(Command) /\ RequestOf[t] \in Requests /\ queue[RequestOf[t]] \in Seq(Tasks)
  BY ConstantsAssumption DEF TypeOK
<1>2. AheadInPipe(t, u) => stage[t] = "persisting" /\ stage[u] = "persisting"
  BY <1>1, RpushOf DEF AheadInPipe, PipeInv
<1>3. AheadInQueue(t, u) => stage[t] = "queued" /\ stage[u] = "queued"
  BY <1>1 DEF AheadInQueue, QueueInv
<1> QED
  BY <1>2, <1>3

LEMMA InListsNext ==
    ASSUME PipeInv', QueueInv', TypeOK', NEW t \in Tasks, NEW u \in Tasks
    PROVE  /\ AheadInPipe(t, u)' => stage'[t] = "persisting" /\ stage'[u] = "persisting"
           /\ AheadInQueue(t, u)' => stage'[t] = "queued" /\ stage'[u] = "queued"
<1>1. pipe' \in Seq(Command) /\ RequestOf[t] \in Requests /\ queue'[RequestOf[t]] \in Seq(Tasks)
  BY ConstantsAssumption DEF TypeOK
<1>2. AheadInPipe(t, u)' => stage'[t] = "persisting" /\ stage'[u] = "persisting"
  BY <1>1, RpushOf DEF AheadInPipe, PipeInv
<1>3. AheadInQueue(t, u)' => stage'[t] = "queued" /\ stage'[u] = "queued"
  BY <1>1 DEF AheadInQueue, QueueInv
<1> QED
  BY <1>2, <1>3

LEMMA AheadIs ==
    ASSUME IInv
    PROVE  /\ Ahead \subseteq Tasks \X Tasks
           /\ \A t, u \in Tasks :
                  <<t, u>> \in Ahead <=> RequestOf[t] = RequestOf[u] /\ Precedes(t, u)
<1>1. Ahead \subseteq Tasks \X Tasks
  BY DEF Ahead, Waiting
<1>2. ASSUME NEW t \in Tasks, NEW u \in Tasks
      PROVE  <<t, u>> \in Ahead <=> RequestOf[t] = RequestOf[u] /\ Precedes(t, u)
  BY InLists DEF Ahead, Waiting, Before, Precedes, IInv
<1> QED
  BY <1>1, <1>2

LEMMA AheadIsNext ==
    ASSUME IInv'
    PROVE  /\ Ahead' \subseteq Tasks \X Tasks
           /\ \A t, u \in Tasks :
                  <<t, u>> \in Ahead' <=> RequestOf[t] = RequestOf[u] /\ Precedes(t, u)'
<1>1. Ahead' \subseteq Tasks \X Tasks
  BY DEF Ahead, Waiting
<1>2. ASSUME NEW t \in Tasks, NEW u \in Tasks
      PROVE  <<t, u>> \in Ahead' <=> RequestOf[t] = RequestOf[u] /\ Precedes(t, u)'
  BY InListsNext DEF Ahead, Waiting, Before, Precedes, IInv
<1> QED
  BY <1>1, <1>2

LEMMA SamePairs ==
    ASSUME NEW A, NEW B, A \subseteq Tasks \X Tasks, B \subseteq Tasks \X Tasks,
           \A t, u \in Tasks : <<t, u>> \in A <=> <<t, u>> \in B
    PROVE  A = B
OBVIOUS

\* Commands other than RPUSH leave the order in the pipeline alone.
LEMMA PipeExtended ==
    ASSUME TypeOK, TypeOK',
           \A i \in DOMAIN pipe : i \in DOMAIN pipe' /\ pipe'[i] = pipe[i],
           \A i \in DOMAIN pipe' : pipe'[i].op = "rpush" => i \in DOMAIN pipe
    PROVE  \A t, u \in Tasks : AheadInPipe(t, u)' <=> AheadInPipe(t, u)
BY RpushOf DEF AheadInPipe

\* So does the answer to one command, for the tasks it is not about.
LEMMA PipeShifted ==
    ASSUME TypeOK, pipe # <<>>, pipe' = Tail(pipe), NEW t \in Tasks, NEW u \in Tasks,
           Head(pipe) # Rpush(t)
    PROVE  AheadInPipe(t, u)' <=> AheadInPipe(t, u)
<1>1. /\ Head(pipe) = pipe[1]
      /\ \A i \in DOMAIN pipe' : pipe'[i] = pipe[i + 1] /\ i + 1 \in DOMAIN pipe /\ i \in Nat
      /\ \A i \in DOMAIN pipe : i # 1 => i - 1 \in DOMAIN pipe' /\ pipe'[i - 1] = pipe[i]
      /\ \A i \in DOMAIN pipe : i \in Nat /\ i >= 1
  BY DEF TypeOK
<1>2. AheadInPipe(t, u)' => AheadInPipe(t, u)
  <2> SUFFICES ASSUME NEW i \in DOMAIN pipe', NEW j \in DOMAIN pipe', i < j,
                      pipe'[i] = Rpush(t), pipe'[j] = Rpush(u)
               PROVE  AheadInPipe(t, u)
    BY DEF AheadInPipe
  <2>1. i + 1 < j + 1 /\ pipe[i + 1] = Rpush(t) /\ pipe[j + 1] = Rpush(u)
    BY <1>1
  <2> QED
    BY <1>1, <2>1 DEF AheadInPipe
<1>3. AheadInPipe(t, u) => AheadInPipe(t, u)'
  <2> SUFFICES ASSUME NEW i \in DOMAIN pipe, NEW j \in DOMAIN pipe, i < j,
                      pipe[i] = Rpush(t), pipe[j] = Rpush(u)
               PROVE  AheadInPipe(t, u)'
    BY DEF AheadInPipe
  <2>1. i # 1 /\ j # 1
    BY <1>1
  <2>2. i - 1 < j - 1 /\ pipe'[i - 1] = Rpush(t) /\ pipe'[j - 1] = Rpush(u)
    BY <1>1, <2>1
  <2> QED
    BY <1>1, <2>1, <2>2 DEF AheadInPipe
<1> QED
  BY <1>2, <1>3

\* The RPUSH that Redis answers next is the first of all.
LEMMA FirstInPipe ==
    ASSUME TypeOK, PipeInv, HandedInv, pipe # <<>>, NEW h \in Tasks, Head(pipe) = Rpush(h),
           NEW u \in Tasks
    PROVE  /\ ~AheadInPipe(u, h)
           /\ stage[u] = "persisting" /\ u # h => AheadInPipe(h, u)
<1>1. pipe[1] = Rpush(h) /\ 1 \in DOMAIN pipe /\ pipe \in Seq(Command)
  BY DEF TypeOK
<1>2. \A i \in DOMAIN pipe : pipe[i] = Rpush(h) => i = 1
  BY <1>1, RpushOf DEF PipeInv
<1>3. ~AheadInPipe(u, h)
  BY <1>1, <1>2 DEF AheadInPipe
<1>4. ASSUME stage[u] = "persisting", u # h PROVE AheadInPipe(h, u)
  <2>1. PICK j \in DOMAIN pipe : pipe[j] = Rpush(u)
    BY <1>4 DEF HandedInv
  <2>2. j # 1
    BY <1>1, <1>4, <2>1, RpushOf
  <2>3. 1 < j
    BY <1>1, <2>1, <2>2
  <2> QED
    BY <1>1, <2>1, <2>3 DEF AheadInPipe
<1> QED
  BY <1>3, <1>4

\* A step that leaves the tasks where they are is a step the executor does not see.
LEMMA Unseen ==
    ASSUME IInv, IInv',
           \A t \in Tasks : \/ stage'[t] = stage[t]
                            \/ stage[t] = "persisting" /\ stage'[t] = "queued",
           \A t, u \in Tasks : RequestOf[t] = RequestOf[u] => (Precedes(t, u)' <=> Precedes(t, u))
    PROVE  UNCHANGED Serial!vars
<1>1. Ahead' = Ahead
  BY AheadIs, AheadIsNext, SamePairs
<1>2. Waiting' = Waiting /\ Executing' = Executing
  BY DEF Waiting, Executing
<1>3. {t \in Tasks : stage'[t] # "new"} = {t \in Tasks : stage[t] # "new"}
  OBVIOUS
<1> QED
  BY <1>1, <1>2, <1>3 DEF Serial!vars

LEMMA AddRefines ==
    ASSUME IInv, IInv', HandedInv, NEW t \in Tasks, AddTask(t)
    PROVE  Serial!HandOver(t)
<1>1. /\ stage[t] = "new" /\ stage' = [stage EXCEPT ![t] = "persisting"]
      /\ pipe' = Append(pipe, Rpush(t)) /\ queue' = queue
  BY DEF AddTask
<1>2. stage \in [Tasks -> Stages] /\ pipe \in Seq(Command) /\ Rpush(t) \in Command
  BY CommandTypes DEF IInv, TypeOK
<1>3. /\ \A i \in DOMAIN pipe : i \in DOMAIN pipe' /\ pipe'[i] = pipe[i] /\ i < Len(pipe) + 1
      /\ Len(pipe) + 1 \in DOMAIN pipe' /\ pipe'[Len(pipe) + 1] = Rpush(t)
      /\ \A i \in DOMAIN pipe' : i \in DOMAIN pipe \/ i = Len(pipe) + 1
      /\ \A i \in DOMAIN pipe' : ~(Len(pipe) + 1 < i)
  BY <1>1, <1>2, AppendProperties
<1>4. \A u, w \in Tasks : AheadInQueue(u, w)' <=> AheadInQueue(u, w)
  BY <1>1 DEF AheadInQueue
<1>5. \A u, w \in Tasks : w # t /\ u # t => (AheadInPipe(u, w)' <=> AheadInPipe(u, w))
  BY <1>3, RpushOf DEF AheadInPipe
<1>6. \A u \in Tasks : stage[u] = "persisting" => AheadInPipe(u, t)'
  BY <1>3 DEF AheadInPipe, HandedInv
<1>7. \A i \in DOMAIN pipe : pipe[i] # Rpush(t)
  BY <1>1, <1>2, RpushOf DEF IInv, PipeInv
<1>8. \A u \in Tasks : ~AheadInPipe(t, u)'
  BY <1>3, <1>7 DEF AheadInPipe
<1>9. \A u \in Tasks : u # t => stage'[u] = stage[u]
  BY <1>1, <1>2
<1>10. stage'[t] = "persisting"
  BY <1>1, <1>2
<1>11. ASSUME NEW u \in Tasks, NEW w \in Tasks
       PROVE  Precedes(u, w)' <=> \/ Precedes(u, w)
                                  \/ w = t /\ u \in Waiting
  <2>1. CASE u # t /\ w # t
    BY <1>4, <1>5, <1>9, <2>1 DEF Precedes
  <2>2. CASE u = t
    BY <1>1, <1>8, <1>10, <2>2 DEF Precedes, Waiting
  <2>3. CASE u # t /\ w = t
    BY <1>1, <1>6, <1>9, <1>10, <2>3 DEF Precedes, Waiting
  <2> QED
    BY <2>1, <2>2, <2>3
<1>12. PICK more : more = {<<u, t>> : u \in {w \in Waiting : RequestOf[w] = RequestOf[t]}}
  OBVIOUS
<1>13. /\ more \subseteq Tasks \X Tasks
       /\ \A u, w \in Tasks : <<u, w>> \in more <=>
              w = t /\ u \in Waiting /\ RequestOf[u] = RequestOf[t]
  BY <1>12 DEF Waiting
<1>14. Ahead' = Ahead \cup more
  <2>1. \A u, w \in Tasks : <<u, w>> \in Ahead' <=> <<u, w>> \in Ahead \cup more
    BY <1>11, <1>13, AheadIs, AheadIsNext
  <2> QED
    BY <2>1, <1>13, AheadIs, AheadIsNext, SamePairs
<1>15. Waiting' = Waiting \cup {t} /\ Executing' = Executing
  BY <1>1, <1>9, <1>10 DEF Waiting, Executing
<1>16. /\ t \notin {u \in Tasks : stage[u] # "new"}
       /\ {u \in Tasks : stage'[u] # "new"} = {u \in Tasks : stage[u] # "new"} \cup {t}
  BY <1>1, <1>9, <1>10
<1> QED
  BY <1>12, <1>14, <1>15, <1>16 DEF Serial!HandOver, Serial!Together

\* A task leaves those that wait, the others keep their order.
LEMMA LeaveRefines ==
    ASSUME IInv, IInv', NEW t \in Tasks, stage[t] \in {"persisting", "queued"},
           stage'[t] \notin {"persisting", "queued", "new"},
           \A u \in Tasks : u # t => stage'[u] = stage[u],
           \A u, w \in Tasks : u # t /\ w # t =>
               /\ AheadInPipe(u, w)' <=> AheadInPipe(u, w)
               /\ AheadInQueue(u, w)' <=> AheadInQueue(u, w)
    PROVE  /\ Serial!Leave(t)
           /\ {u \in Tasks : stage'[u] # "new"} = {u \in Tasks : stage[u] # "new"}
<1>1. ASSUME NEW u \in Tasks, NEW w \in Tasks
      PROVE  Precedes(u, w)' <=> Precedes(u, w) /\ u # t /\ w # t
  <2>1. CASE u # t /\ w # t
    BY <2>1 DEF Precedes
  <2>2. CASE u = t \/ w = t
    BY <2>2 DEF Precedes
  <2> QED
    BY <2>1, <2>2
<1>2. PICK less : less = {p \in Ahead : p[1] # t /\ p[2] # t}
  OBVIOUS
<1>3. /\ less \subseteq Tasks \X Tasks
      /\ \A u, w \in Tasks : <<u, w>> \in less <=> <<u, w>> \in Ahead /\ u # t /\ w # t
  BY <1>2, AheadIs
<1>4. Ahead' = less
  BY <1>1, <1>3, AheadIs, AheadIsNext, SamePairs
<1>5. t \in Waiting /\ Waiting' = Waiting \ {t}
  BY DEF Waiting
<1> QED
  BY <1>2, <1>4, <1>5 DEF Serial!Leave

\* The task whose RPUSH is answered is the one at the head of the pipeline.
LEMMA AnsweredTask ==
    ASSUME IInv, HandedInv, TaskPersisted \/ PersistError, NEW h, h = Head(pipe).task
    PROVE  /\ h \in Tasks /\ stage[h] = "persisting"
           /\ pipe # <<>> /\ pipe' = Tail(pipe) /\ Head(pipe) = Rpush(h)
           /\ \A t, u \in Tasks : t # h => (AheadInPipe(t, u)' <=> AheadInPipe(t, u))
<1>1. pipe # <<>> /\ pipe' = Tail(pipe) /\ Head(pipe).op = "rpush"
  BY DEF TaskPersisted, PersistError
<1>2. h \in Tasks /\ stage[h] = "persisting"
  BY HeadPersisting DEF IInv
<1>3. 1 \in DOMAIN pipe /\ Head(pipe) = pipe[1]
  BY <1>1 DEF IInv, TypeOK
<1>4. Head(pipe) = Rpush(h)
  BY <1>1, <1>3 DEF HandedInv
<1>5. \A t, u \in Tasks : t # h => (AheadInPipe(t, u)' <=> AheadInPipe(t, u))
  BY <1>1, <1>2, <1>4, PipeShifted, RpushOf DEF IInv
<1> QED
  BY <1>1, <1>2, <1>4, <1>5

\* The call fails, or ends because the process stops: the task is withdrawn.
LEMMA WithdrawRefines ==
    ASSUME IInv, IInv', HandedInv, PersistError \/ (TaskPersisted /\ shutdown # "no")
    PROVE  \E t \in Tasks : Serial!Withdraw(t)
<1>1. PICK h : h = Head(pipe).task
  OBVIOUS
<1>2. /\ h \in Tasks /\ stage[h] = "persisting"
      /\ \A t, u \in Tasks : t # h => (AheadInPipe(t, u)' <=> AheadInPipe(t, u))
  BY <1>1, AnsweredTask
<1>3. /\ stage' = [stage EXCEPT ![h] = "rejected"] \/ stage' = [stage EXCEPT ![h] = "abandoned"]
      /\ queue' = queue
  BY <1>1 DEF PersistError, TaskPersisted, Enqueue
<1>4. stage \in [Tasks -> Stages]
  BY DEF IInv, TypeOK
<1>5. /\ stage'[h] \notin {"persisting", "queued", "new", "executing"}
      /\ \A u \in Tasks : u # h => stage'[u] = stage[u]
  BY <1>2, <1>3, <1>4
<1>6. \A t, u \in Tasks : AheadInQueue(t, u)' <=> AheadInQueue(t, u)
  BY <1>3 DEF AheadInQueue
<1>7. Serial!Leave(h) /\ {u \in Tasks : stage'[u] # "new"} = {u \in Tasks : stage[u] # "new"}
  BY <1>2, <1>5, <1>6, LeaveRefines
<1>8. Executing' = Executing
  BY <1>2, <1>5 DEF Executing
<1> QED
  BY <1>2, <1>7, <1>8 DEF Serial!Withdraw

\* The task moves from the head of the pipeline to the end of its queue.
LEMMA PersistedRefines ==
    ASSUME IInv, IInv', HandedInv, TaskPersisted, shutdown = "no"
    PROVE  UNCHANGED Serial!vars
<1>1. PICK h : h = Head(pipe).task
  OBVIOUS
<1>2. /\ h \in Tasks /\ stage[h] = "persisting" /\ pipe # <<>> /\ Head(pipe) = Rpush(h)
      /\ \A t, u \in Tasks : t # h => (AheadInPipe(t, u)' <=> AheadInPipe(t, u))
  BY <1>1, AnsweredTask
<1>3. PICK r \in Requests : r = RequestOf[h]
  BY <1>2, ConstantsAssumption
<1>4. /\ stage' = [stage EXCEPT ![h] = "queued"]
      /\ queue' = [queue EXCEPT ![r] = Append(queue[r], h)]
  BY <1>1, <1>3 DEF TaskPersisted, Enqueue
<1>5. stage \in [Tasks -> Stages] /\ queue \in [Requests -> Seq(Tasks)]
  BY DEF IInv, TypeOK
<1>6. stage'[h] = "queued" /\ \A u \in Tasks : u # h => stage'[u] = stage[u]
  BY <1>2, <1>4, <1>5
<1>7. /\ \A q \in Requests : q # r => queue'[q] = queue[q]
      /\ queue'[r] = Append(queue[r], h) /\ queue[r] \in Seq(Tasks)
  BY <1>4, <1>5
<1>8. /\ \A i \in DOMAIN queue[r] : i \in DOMAIN queue'[r] /\ queue'[r][i] = queue[r][i]
                                    /\ i < Len(queue[r]) + 1
      /\ Len(queue[r]) + 1 \in DOMAIN queue'[r] /\ queue'[r][Len(queue[r]) + 1] = h
      /\ \A i \in DOMAIN queue'[r] : i \in DOMAIN queue[r] \/ i = Len(queue[r]) + 1
      /\ \A i \in DOMAIN queue'[r] : ~(Len(queue[r]) + 1 < i)
  BY <1>2, <1>7, AppendProperties
<1>9. \A i \in DOMAIN queue[r] : queue[r][i] # h
  BY <1>2, <1>5 DEF IInv, QueueInv
<1>10. ASSUME NEW t \in Tasks, NEW u \in Tasks, t # h, u # h, RequestOf[t] = RequestOf[u]
       PROVE  AheadInQueue(t, u)' <=> AheadInQueue(t, u)
  <2>1. CASE RequestOf[t] = r
    BY <1>8, <1>10, <2>1 DEF AheadInQueue
  <2>2. CASE RequestOf[t] # r
    <3>1. queue'[RequestOf[t]] = queue[RequestOf[t]]
      BY <1>7, <2>2, ConstantsAssumption
    <3> QED
      BY <3>1 DEF AheadInQueue
  <2> QED
    BY <2>1, <2>2
<1>11. ASSUME NEW t \in Tasks, stage[t] = "queued", RequestOf[t] = r
       PROVE  AheadInQueue(t, h)'
  <2>1. PICK i \in DOMAIN queue[r] : queue[r][i] = t
    BY <1>5, <1>11 DEF IInv, QueueInv
  <2> QED
    BY <1>8, <1>11, <2>1 DEF AheadInQueue
<1>12. \A u \in Tasks : ~AheadInQueue(h, u)'
  BY <1>3, <1>8, <1>9 DEF AheadInQueue
<1>13. \A u \in Tasks : ~AheadInPipe(u, h) /\ (stage[u] = "persisting" /\ u # h => AheadInPipe(h, u))
  BY <1>2, FirstInPipe DEF IInv
<1>14. ASSUME NEW t \in Tasks, NEW u \in Tasks, RequestOf[t] = RequestOf[u]
       PROVE  Precedes(t, u)' <=> Precedes(t, u)
  <2>1. CASE t # h /\ u # h
    BY <1>2, <1>6, <1>10, <1>14, <2>1 DEF Precedes
  <2>2. CASE t = h
    BY <1>2, <1>6, <1>12, <1>13, <2>2 DEF Precedes
  <2>3. CASE t # h /\ u = h
    BY <1>2, <1>3, <1>6, <1>11, <1>13, <1>14, <2>3 DEF Precedes
  <2> QED
    BY <2>1, <2>2, <2>3
<1> QED
  BY <1>2, <1>6, <1>14, Unseen

\* A task is started: it was the first in the queue of its request, and no
\* other task of the request is executing.
LEMMA StartRefines ==
    ASSUME IInv, IInv', NEW r \in Requests, ExecuteTaskInQueue(r),
           r \notin running, queue[r] # <<>>
    PROVE  \E t \in Tasks : Serial!Start(t)
<1>1. PICK h : h = Head(queue[r])
  OBVIOUS
<1>2. /\ stage' = [stage EXCEPT ![h] = "executing"] /\ queue' = [queue EXCEPT ![r] = Tail(queue[r])]
      /\ pipe' = pipe
  BY <1>1 DEF ExecuteTaskInQueue, Busy
<1>3. /\ queue \in [Requests -> Seq(Tasks)] /\ queue[r] \in Seq(Tasks)
      /\ stage \in [Tasks -> Stages]
  BY DEF IInv, TypeOK
<1>4. h = queue[r][1] /\ 1 \in 1 .. Len(queue[r]) /\ h \in Tasks
  BY <1>1, <1>3
<1>5. stage[h] = "queued" /\ RequestOf[h] = r
  BY <1>4 DEF IInv, QueueInv
<1>6. stage'[h] = "executing" /\ \A u \in Tasks : u # h => stage'[u] = stage[u]
  BY <1>2, <1>3, <1>4
<1>7. /\ \A q \in Requests : q # r => queue'[q] = queue[q]
      /\ queue'[r] = Tail(queue[r])
  BY <1>2, <1>3
<1>8. /\ \A i \in DOMAIN queue'[r] : queue'[r][i] = queue[r][i + 1] /\ i + 1 \in DOMAIN queue[r]
                                     /\ i \in Nat
      /\ \A i \in DOMAIN queue[r] : i \in Nat /\ i >= 1
      /\ \A i \in DOMAIN queue[r] : i # 1 => i - 1 \in DOMAIN queue'[r] /\ queue'[r][i - 1] = queue[r][i]
  BY <1>3, <1>7
<1>9. ASSUME NEW t \in Tasks, NEW u \in Tasks, t # h, u # h, RequestOf[t] = r
      PROVE  AheadInQueue(t, u)' <=> AheadInQueue(t, u)
  <2>1. ASSUME NEW i \in DOMAIN queue'[r], NEW j \in DOMAIN queue'[r], i < j,
               queue'[r][i] = t, queue'[r][j] = u
        PROVE  AheadInQueue(t, u)
    <3>1. i + 1 < j + 1
      BY <1>8, <2>1
    <3> QED
      BY <1>8, <1>9, <2>1, <3>1 DEF AheadInQueue
  <2>2. ASSUME NEW i \in DOMAIN queue[r], NEW j \in DOMAIN queue[r], i < j,
               queue[r][i] = t, queue[r][j] = u
        PROVE  AheadInQueue(t, u)'
    <3>1. i # 1 /\ j # 1
      BY <1>4, <1>9, <2>2
    <3>2. i - 1 < j - 1
      BY <1>8, <2>2
    <3> QED
      BY <1>8, <1>9, <2>2, <3>1, <3>2 DEF AheadInQueue
  <2> QED
    BY <1>9, <2>1, <2>2 DEF AheadInQueue
<1>10. ASSUME NEW t \in Tasks, NEW u \in Tasks, t # h, u # h
       PROVE  AheadInQueue(t, u)' <=> AheadInQueue(t, u)
  <2>1. CASE RequestOf[t] = r
    BY <1>9, <1>10, <2>1
  <2>2. CASE RequestOf[t] # r
    <3>1. queue'[RequestOf[t]] = queue[RequestOf[t]]
      BY <1>7, <2>2, ConstantsAssumption
    <3> QED
      BY <3>1 DEF AheadInQueue
  <2> QED
    BY <2>1, <2>2
<1>11. \A t, u \in Tasks : AheadInPipe(t, u)' <=> AheadInPipe(t, u)
  BY <1>2 DEF AheadInPipe
<1>12. Serial!Leave(h) /\ {u \in Tasks : stage'[u] # "new"} = {u \in Tasks : stage[u] # "new"}
  BY <1>4, <1>5, <1>6, <1>10, <1>11, LeaveRefines
<1>13. Executing' = Executing \cup {h}
  BY <1>4, <1>6 DEF Executing
<1>14. \A u \in Executing : RequestOf[u] # RequestOf[h]
  BY <1>5 DEF IInv, RunningInv
<1>15. \A i \in DOMAIN queue[r] : queue[r][i] = h => i = 1
  BY <1>3, <1>4 DEF IInv, QueueInv
<1>16. ASSUME NEW u \in Tasks, RequestOf[u] = r PROVE ~AheadInQueue(u, h)
  BY <1>8, <1>15, <1>16 DEF AheadInQueue
<1>17. \A u \in Waiting : <<u, h>> \notin Ahead
  BY <1>4, <1>5, <1>16, AheadIs DEF Precedes, Waiting
<1> QED
  BY <1>4, <1>12, <1>13, <1>14, <1>17 DEF Serial!Start, Serial!Together

\* A task that is done leaves its request free.
LEMMA FinishRefines ==
    ASSUME IInv, IInv', NEW t \in Tasks, FinishTask(t)
    PROVE  Serial!Finish(t)
<1>1. /\ stage[t] = "executing" /\ stage' = [stage EXCEPT ![t] = "done"] /\ queue' = queue
      /\ \/ pipe' = pipe \o <<Del(RequestOf[t]), Lpop(RequestOf[t])>>
         \/ pipe' = Append(pipe, Lpop(RequestOf[t]))
  BY DEF FinishTask
<1>2. stage \in [Tasks -> Stages] /\ pipe \in Seq(Command)
  BY DEF IInv, TypeOK
<1>3. /\ Lpop(RequestOf[t]).op # "rpush" /\ Del(RequestOf[t]).op # "rpush"
      /\ Lpop(RequestOf[t]) \in Command /\ Del(RequestOf[t]) \in Command
  BY CommandTypes, ConstantsAssumption DEF Lpop, Del
<1>4. /\ \A i \in DOMAIN pipe : i \in DOMAIN pipe' /\ pipe'[i] = pipe[i]
      /\ \A i \in DOMAIN pipe' : pipe'[i].op = "rpush" => i \in DOMAIN pipe
  <2>1. CASE pipe' = pipe \o <<Del(RequestOf[t]), Lpop(RequestOf[t])>>
    BY <1>2, <1>3, <2>1
  <2>2. CASE pipe' = Append(pipe, Lpop(RequestOf[t]))
    BY <1>2, <1>3, <2>2, AppendProperties
  <2> QED
    BY <1>1, <2>1, <2>2
<1>5. \A u, w \in Tasks : AheadInPipe(u, w)' <=> AheadInPipe(u, w)
  BY <1>4, PipeExtended DEF IInv
<1>6. \A u, w \in Tasks : AheadInQueue(u, w)' <=> AheadInQueue(u, w)
  BY <1>1 DEF AheadInQueue
<1>7. stage'[t] = "done" /\ \A u \in Tasks : u # t => stage'[u] = stage[u]
  BY <1>1, <1>2
<1>8. \A u, w \in Tasks : Precedes(u, w)' <=> Precedes(u, w)
  BY <1>1, <1>5, <1>6, <1>7 DEF Precedes
<1>9. Ahead' = Ahead
  BY <1>8, AheadIs, AheadIsNext, SamePairs
<1>10. /\ Waiting' = Waiting /\ t \in Executing /\ Executing' = Executing \ {t}
       /\ {u \in Tasks : stage'[u] # "new"} = {u \in Tasks : stage[u] # "new"}
  BY <1>1, <1>7 DEF Waiting, Executing
<1> QED
  BY <1>9, <1>10 DEF Serial!Finish

\* The other steps: answers to LPOP and DEL, callbacks that start nothing.
LEMMA QuietRefines ==
    ASSUME IInv, IInv',
           \/ EnterCheckPhase \/ ListShrunk \/ Stop \/ UNCHANGED vars
           \/ \E r \in Requests : ExecuteTaskInQueue(r) /\ (r \in running \/ queue[r] = <<>>)
    PROVE  UNCHANGED Serial!vars
<1>1. stage' = stage /\ queue' = queue
  BY DEF EnterCheckPhase, ListShrunk, Stop, ExecuteTaskInQueue, Busy, vars, memory, loop, redis
<1>2. \A t, u \in Tasks : AheadInPipe(t, u)' <=> AheadInPipe(t, u)
  <2>1. CASE ListShrunk
    <3>1. /\ pipe # <<>> /\ pipe' = Tail(pipe)
          /\ \A t \in Tasks : Head(pipe) # Rpush(t)
      BY <2>1, RpushOf DEF ListShrunk
    <3> QED
      BY <3>1, PipeShifted DEF IInv
  <2>2. CASE pipe' = pipe
    BY <2>2 DEF AheadInPipe
  <2>3. ASSUME NEW r \in Requests, pipe' = Append(pipe, Del(r))
        PROVE  \A t, u \in Tasks : AheadInPipe(t, u)' <=> AheadInPipe(t, u)
    <3>1. pipe \in Seq(Command) /\ Del(r) \in Command /\ Del(r).op # "rpush"
      BY CommandTypes DEF IInv, TypeOK, Del
    <3>2. /\ \A i \in DOMAIN pipe : i \in DOMAIN pipe' /\ pipe'[i] = pipe[i]
          /\ \A i \in DOMAIN pipe' : pipe'[i].op = "rpush" => i \in DOMAIN pipe
      BY <2>3, <3>1, AppendProperties
    <3> QED
      BY <3>2, PipeExtended DEF IInv
  <2> QED
    BY <2>1, <2>2, <2>3 DEF EnterCheckPhase, Stop, ExecuteTaskInQueue, Busy, vars, redis
<1>3. \A t, u \in Tasks : AheadInQueue(t, u)' <=> AheadInQueue(t, u)
  BY <1>1 DEF AheadInQueue
<1>4. \A t, u \in Tasks : Precedes(t, u)' <=> Precedes(t, u)
  BY <1>1, <1>2, <1>3 DEF Precedes
<1> QED
  BY <1>1, <1>4, Unseen

\* Each step of the queue is a step of the executor, or none.
LEMMA StepRefines ==
    ASSUME IInv, IInv', HandedInv, [Next]_vars
    PROVE  [Serial!Next]_(Serial!vars)
<1>1. CASE \E t \in Tasks : AddTask(t) \/ FinishTask(t)
  BY <1>1, AddRefines, FinishRefines DEF Serial!Next
<1>2. CASE TaskPersisted \/ PersistError
  BY <1>2, WithdrawRefines, PersistedRefines DEF Serial!Next
<1>3. CASE \E r \in Requests : ExecuteTaskInQueue(r) /\ r \notin running /\ queue[r] # <<>>
  BY <1>3, StartRefines DEF Serial!Next
<1>4. CASE \/ EnterCheckPhase \/ ListShrunk \/ Stop \/ UNCHANGED vars
           \/ \E r \in Requests : ExecuteTaskInQueue(r) /\ (r \in running \/ queue[r] = <<>>)
  BY <1>4, QuietRefines
<1> QED
  BY <1>1, <1>2, <1>3, <1>4 DEF Next

\* An RPUSH is in the pipeline until it is answered.
LEMMA NextHanded ==
    ASSUME IInv, IInv', HandedInv, [Next]_vars
    PROVE  HandedInv'
<1>a. pipe \in Seq(Command) /\ pipe' \in Seq(Command) /\ stage \in [Tasks -> Stages]
  BY DEF IInv, TypeOK
<1>1. ASSUME \A t \in Tasks : stage'[t] = "persisting" => stage[t] = "persisting",
             \A i \in DOMAIN pipe : i \in DOMAIN pipe' /\ pipe'[i] = pipe[i],
             \A i \in DOMAIN pipe' : pipe'[i].op = "rpush" => i \in DOMAIN pipe
      PROVE  HandedInv'
  BY <1>1 DEF HandedInv
<1>2. ASSUME \A t \in Tasks : stage'[t] = "persisting" =>
                 stage[t] = "persisting" /\ Head(pipe) # Rpush(t),
             pipe # <<>>, pipe' = Tail(pipe)
      PROVE  HandedInv'
  <2>1. /\ Head(pipe) = pipe[1]
        /\ \A i \in DOMAIN pipe' : pipe'[i] = pipe[i + 1] /\ i + 1 \in DOMAIN pipe
        /\ \A i \in DOMAIN pipe : i # 1 => i - 1 \in DOMAIN pipe' /\ pipe'[i - 1] = pipe[i]
    BY <1>a, <1>2
  <2>2. ASSUME NEW t \in Tasks, stage'[t] = "persisting"
        PROVE  \E i \in DOMAIN pipe' : pipe'[i] = Rpush(t)
    <3>1. PICK i \in DOMAIN pipe : pipe[i] = Rpush(t)
      BY <1>2, <2>2 DEF HandedInv
    <3>2. i # 1
      BY <1>2, <2>1, <2>2, <3>1
    <3> QED
      BY <2>1, <3>1, <3>2
  <2> QED
    BY <2>1, <2>2 DEF HandedInv
<1>3. ASSUME NEW t \in Tasks, AddTask(t) PROVE HandedInv'
  <2>1. stage' = [stage EXCEPT ![t] = "persisting"] /\ pipe' = Append(pipe, Rpush(t))
    BY <1>3 DEF AddTask
  <2>2. /\ \A i \in DOMAIN pipe : i \in DOMAIN pipe' /\ pipe'[i] = pipe[i]
        /\ Len(pipe) + 1 \in DOMAIN pipe' /\ pipe'[Len(pipe) + 1] = Rpush(t)
        /\ \A i \in DOMAIN pipe' : i \in DOMAIN pipe \/ i = Len(pipe) + 1
    BY <1>a, <2>1, CommandTypes, AppendProperties
  <2>3. \A u \in Tasks : u # t => stage'[u] = stage[u]
    BY <1>a, <2>1
  <2> QED
    BY <2>2, <2>3, RpushOf DEF HandedInv
<1>4. ASSUME NEW t \in Tasks, FinishTask(t) PROVE HandedInv'
  <2>1. /\ stage' = [stage EXCEPT ![t] = "done"]
        /\ \/ pipe' = pipe \o <<Del(RequestOf[t]), Lpop(RequestOf[t])>>
           \/ pipe' = Append(pipe, Lpop(RequestOf[t]))
    BY <1>4 DEF FinishTask
  <2>2. /\ Lpop(RequestOf[t]).op # "rpush" /\ Del(RequestOf[t]).op # "rpush"
        /\ Lpop(RequestOf[t]) \in Command /\ Del(RequestOf[t]) \in Command
    BY CommandTypes, ConstantsAssumption DEF Lpop, Del
  <2>3. \A u \in Tasks : stage'[u] = "persisting" => stage[u] = "persisting"
    BY <1>a, <2>1
  <2>4. /\ \A i \in DOMAIN pipe : i \in DOMAIN pipe' /\ pipe'[i] = pipe[i]
        /\ \A i \in DOMAIN pipe' : pipe'[i].op = "rpush" => i \in DOMAIN pipe
    <3>1. CASE pipe' = pipe \o <<Del(RequestOf[t]), Lpop(RequestOf[t])>>
      BY <1>a, <2>2, <3>1
    <3>2. CASE pipe' = Append(pipe, Lpop(RequestOf[t]))
      BY <1>a, <2>2, <3>2, AppendProperties
    <3> QED
      BY <2>1, <3>1, <3>2
  <2> QED
    BY <1>1, <2>3, <2>4
<1>5. CASE TaskPersisted \/ PersistError
  <2>1. PICK h : h = Head(pipe).task
    OBVIOUS
  <2>2. /\ h \in Tasks /\ stage[h] = "persisting"
        /\ pipe # <<>> /\ pipe' = Tail(pipe) /\ Head(pipe) = Rpush(h)
    BY <1>5, <2>1, AnsweredTask
  <2>3. /\ stage'[h] # "persisting"
        /\ \A u \in Tasks : u # h => stage'[u] = stage[u]
    BY <1>5, <1>a, <2>1, <2>2 DEF TaskPersisted, Enqueue, PersistError
  <2> QED
    BY <1>2, <2>2, <2>3, RpushOf
<1>6. CASE ListShrunk
  BY <1>2, <1>6, RpushOf DEF ListShrunk, memory
<1>7. ASSUME NEW r \in Requests, ExecuteTaskInQueue(r) PROVE HandedInv'
  <2>1. \A t \in Tasks : stage'[t] = "persisting" => stage[t] = "persisting"
    BY <1>7, <1>a DEF ExecuteTaskInQueue, memory
  <2>2. pipe' = pipe \/ pipe' = Append(pipe, Del(r))
    BY <1>7 DEF ExecuteTaskInQueue
  <2>3. Del(r) \in Command /\ Del(r).op # "rpush"
    BY CommandTypes DEF Del
  <2>4. /\ \A i \in DOMAIN pipe : i \in DOMAIN pipe' /\ pipe'[i] = pipe[i]
        /\ \A i \in DOMAIN pipe' : pipe'[i].op = "rpush" => i \in DOMAIN pipe
    BY <1>a, <2>2, <2>3, AppendProperties
  <2> QED
    BY <1>1, <2>1, <2>4
<1>8. CASE UNCHANGED <<stage, pipe>>
  BY <1>1, <1>8
<1> QED
  BY <1>3, <1>4, <1>5, <1>6, <1>7, <1>8
     DEF Next, EnterCheckPhase, Stop, vars, memory, redis

LEMMA InitRefines == Init => HandedInv /\ Serial!Init
<1> SUFFICES ASSUME Init PROVE HandedInv /\ Serial!Init
  OBVIOUS
<1>1. DOMAIN pipe = {} /\ \A t \in Tasks : stage[t] = "new"
  BY DEF Init
<1>2. Waiting = {} /\ Executing = {} /\ {t \in Tasks : stage[t] # "new"} = {}
  BY <1>1 DEF Waiting, Executing
<1>3. Ahead = {}
  BY <1>2 DEF Ahead
<1> QED
  BY <1>1, <1>2, <1>3 DEF HandedInv, Serial!Init

\* The tasks of one request are executed one at a time and in the order of the
\* calls of addTaskToQueue(), whatever Redis answers and however the event loop
\* orders callbacks.
THEOREM SerialExecution == Spec => ExecutesSerially
<1>1. IInv /\ IInv' /\ HandedInv /\ [Next]_vars => HandedInv'
  BY NextHanded
<1>2. IInv /\ IInv' /\ HandedInv /\ [Next]_vars => [Serial!Next]_(Serial!vars)
  BY StepRefines
<1> QED
  BY <1>1, <1>2, InitRefines, Invariant, PTL DEF Spec, ExecutesSerially, Serial!Spec

=============================================================================
