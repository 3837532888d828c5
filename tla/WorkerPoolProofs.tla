-------------------------- MODULE WorkerPoolProofs --------------------------
(***************************************************************************)
(* Safety of WorkerPool for any number of workers, tasks and faults.  What *)
(* makes NothingLostByStopping inductive: a job is on its way only to a    *)
(* worker that has not announced its stop, and runs only where the worker  *)
(* still waits for its jobs (AtWork), since the master gives none to a     *)
(* worker that is marked, and a worker that has announced its stop is      *)
(* marked as long as it is listed (Marked).                                *)
(***************************************************************************)
EXTENDS WorkerPool, FiniteSetTheorems, TLAPS

\* What the master knows of a worker, and what it is.
Marked ==
    \A w \in Workers :
        /\ w \in listed => phase[w] # "off"
        /\ w \in listed /\ phase[w] = "gone" => w \in cut
        /\ w \in listed /\ phase[w] \in {"draining", "handing", "handed"} => w \in stopping
        /\ remaining[w] # None => phase[w] \in {"handed", "gone"}

\* Where jobs are.
AtWork ==
    /\ \A job \in wire : phase[job.worker] \in {"up", "announcing"}
    /\ \A job \in running : phase[job.worker] \in {"up", "announcing", "draining"}

\* A new job is the only one of its task, which nobody has seen yet.
Fresh ==
    /\ saved \subseteq given
    /\ \A job \in wire \cup running :
           job.does = "new" =>
               /\ job.task \in given /\ job.task \notin saved
               /\ job \in wire => job \notin running
               /\ \A other \in wire \cup running :
                      other.does = "new" /\ other.task = job.task => other = job

\* NothingLostByStopping, where a worker that has handed over counts no more.
Trying(t) == \E w \in Workers : phase[w] \notin {"off", "handed", "gone"} /\ t \in pending[w]
Held(t) == \E w \in Workers : t \in Known(w)
Due(t) == \E job \in wire \cup running : job.task = t
Covered == \A t \in saved \ dropped : Trying(t) \/ Held(t) \/ Due(t)

IInv == TypeOK /\ Marked /\ AtWork /\ Fresh /\ CountAgrees /\ Covered

-----------------------------------------------------------------------------
(* Helpers.                                                                *)

\* None is not a set of tasks.
LEMMA NoneIsNoSet == ASSUME NEW s \in SUBSET Tasks PROVE None # s
  BY ConstantsAssumption

\* What the master knows of a worker is a set of tasks.
LEMMA KnownType == ASSUME TypeOK PROVE \A w \in Workers : Known(w) \in SUBSET Tasks
  BY DEF TypeOK, Known

\* What Init establishes.
LEMMA InitIInv == Init => IInv
<1> SUFFICES ASSUME Init PROVE IInv
  OBVIOUS
<1>1. TypeOK
  BY ConstantsAssumption DEF Init, TypeOK, Phases
<1>2. CountAgrees
  BY FS_EmptySet DEF Init, CountAgrees
<1> QED
  BY <1>1, <1>2 DEF Init, IInv, Marked, AtWork, Fresh, Covered

\* The walk over the array visits and leaves workers.
LEMMA WalkTypes ==
    ASSUME NEW seq \in Seq(Workers)
    PROVE  Visited(seq) \subseteq Workers /\ Skipped(seq) \in Seq(Workers)
<1>1. Visited(seq) \subseteq Workers
  BY DEF Visited
<1>2. Len(seq) \in Nat /\ Len(seq) \div 2 \in Nat
      /\ \A i \in 1 .. Len(seq) \div 2 : 2 * i \in 1 .. Len(seq)
  OBVIOUS
<1>3. \A i \in 1 .. Len(seq) \div 2 : seq[2 * i] \in Workers
  BY <1>2
<1>4. Skipped(seq) \in Seq(Workers)
  BY <1>2, <1>3 DEF Skipped
<1> QED
  BY <1>1, <1>4

\* One less at the end of the array.
LEMMA FrontType == ASSUME NEW seq \in Seq(Workers), seq # <<>> PROVE Front(seq) \in Seq(Workers)
<1>1. Len(seq) \in Nat /\ Len(seq) - 1 \in Nat /\ \A i \in 1 .. (Len(seq) - 1) : seq[i] \in Workers
  OBVIOUS
<1>2. Front(seq) = SubSeq(seq, 1, Len(seq) - 1)
  BY DEF Front
<1> QED
  BY <1>1, <1>2

\* What is handed on is due to a worker that takes jobs, or dropped.
LEMMA HandOnKeeps ==
    ASSUME TypeOK, NEW lost, lost \subseteq Workers, NEW takers, takers \subseteq Workers,
           HandOn(lost, takers), running' = running
    PROVE  /\ wire' \subseteq Job /\ wire \subseteq wire'
           /\ \A job \in wire' \ wire : /\ job.does = "continue" /\ job.worker \in takers
                                        /\ job.worker \notin cut
           /\ remaining' \in [Workers -> {None} \cup SUBSET Tasks]
           /\ \A w \in Workers : remaining'[w] \in {None, remaining[w]}
           /\ dropped' \subseteq Tasks /\ dropped \subseteq dropped'
           /\ \A t : Held(t) => Held(t)' \/ Due(t)' \/ t \in dropped'
<1> DEFINE tasks == Resumable(lost)
<1>1. tasks \subseteq Tasks /\ UNION {Known(w) : w \in lost} \subseteq Tasks
      /\ tasks \subseteq UNION {Known(w) : w \in lost}
  BY KnownType DEF Resumable
<1>2. PICK to \in [tasks -> takers] :
         /\ wire' = wire \cup {[task |-> t, worker |-> to[t], does |-> "continue"] :
                                   t \in {u \in tasks : to[u] \notin cut}}
         /\ dropped' = dropped \cup {t \in tasks : to[t] \in cut}
                               \cup ((UNION {Known(w) : w \in lost}) \ tasks)
  BY DEF HandOn
<1>3. remaining' = [w \in Workers |-> IF w \in lost THEN None ELSE remaining[w]]
  BY DEF HandOn
<1>4. \A job \in wire' \ wire : \E t \in tasks :
          /\ job = [task |-> t, worker |-> to[t], does |-> "continue"]
          /\ to[t] \in takers /\ to[t] \notin cut
  BY <1>2
<1>5. wire' \subseteq Job /\ wire \subseteq wire'
  BY <1>1, <1>2, <1>4 DEF TypeOK, Job
<1>6. \A job \in wire' \ wire : /\ job.does = "continue" /\ job.worker \in takers
                                /\ job.worker \notin cut
  BY <1>4
<1>7. /\ remaining' \in [Workers -> {None} \cup SUBSET Tasks]
      /\ \A w \in Workers : remaining'[w] \in {None, remaining[w]}
  BY <1>3 DEF TypeOK
<1>8. dropped' \subseteq Tasks /\ dropped \subseteq dropped'
  BY <1>1, <1>2 DEF TypeOK
<1>9. ASSUME NEW t, Held(t) PROVE Held(t)' \/ Due(t)' \/ t \in dropped'
  <2>1. PICK w \in Workers : t \in Known(w)
    BY <1>9 DEF Held
  <2>2. CASE w \notin lost
    <3>1. t \in Known(w)'
      BY <1>3, <2>1, <2>2 DEF Known
    <3> QED
      BY <3>1 DEF Held
  <2>3. CASE w \in lost /\ t \in tasks /\ to[t] \notin cut
    <3>1. [task |-> t, worker |-> to[t], does |-> "continue"] \in wire'
      BY <1>2, <2>3
    <3> QED
      BY <3>1 DEF Due
  <2>4. CASE w \in lost /\ ~(t \in tasks /\ to[t] \notin cut)
    <3>1. t \in UNION {Known(v) : v \in lost}
      BY <2>1, <2>4
    <3>2. t \in {u \in tasks : to[u] \in cut} \cup ((UNION {Known(v) : v \in lost}) \ tasks)
      BY <2>4, <3>1
    <3> QED
      BY <1>2, <3>2
  <2> QED
    BY <2>2, <2>3, <2>4
<1> QED
  BY <1>5, <1>6, <1>7, <1>8, <1>9

-----------------------------------------------------------------------------
(* The steps of the master.                                                *)

\* A job is given to a worker that takes it.
LEMMA DelegateStep == ASSUME IInv, NEW t \in Tasks, NEW w \in Workers, Delegate(t, w) PROVE IInv'
<1> USE DEF IInv
<1> DEFINE job == [task |-> t, worker |-> w, does |-> "new"]
<1>1. /\ t \notin given /\ w \in listed \ stopping /\ given' = given \cup {t}
      /\ wire' = wire \/ (w \notin cut /\ wire' = wire \cup {job})
      /\ UNCHANGED <<worker, listed, stopping, stoppingWorkerCount, remaining, lostToHandle, cut,
                     saved, late, dropped, faults>>
  BY DEF Delegate, Takers
<1>2. job \in Job /\ job.task = t /\ job.worker = w /\ job.does = "new"
  BY DEF Job
<1>3. TypeOK'
  BY <1>1, <1>2 DEF TypeOK, worker
<1>4. Marked' /\ CountAgrees'
  BY <1>1 DEF Marked, CountAgrees, worker
<1>5. w \notin cut => phase[w] \in {"up", "announcing"}
  BY <1>1 DEF Marked, TypeOK, Phases
<1>6. AtWork'
  BY <1>1, <1>2, <1>5 DEF AtWork, worker
<1>7. Fresh'
  <2>1. \A other \in wire \cup running : other.does = "new" => other.task # t
    BY <1>1 DEF Fresh
  <2> QED
    BY <1>1, <1>2, <2>1 DEF Fresh, worker
<1>8. Covered'
  BY <1>1 DEF Covered, Trying, Held, Due, Known, worker
<1> QED
  BY <1>3, <1>4, <1>6, <1>7, <1>8

\* A worker subscribes; phase' says whether it is new or back.
LEMMA SubscribeStep ==
    ASSUME IInv, NEW w \in Workers, Start(w) \/ Resubscribe(w)
    PROVE  IInv'
<1> USE DEF IInv
<1>1. /\ Subscribed(w)
      /\ phase' = phase \/ (phase[w] = "off" /\ phase' = [phase EXCEPT ![w] = "up"])
      /\ phase'[w] \in {"up", "announcing"} /\ again' \subseteq Workers
      /\ UNCHANGED <<handed, pending, running, stopping, stoppingWorkerCount, given, cut, saved,
                     late, faults>>
  BY DEF Start, Resubscribe, Goes, To, TypeOK
<1>2. phase' \in [Workers -> Phases] /\ \A v \in Workers : phase'[v] = phase[v] \/ (v = w /\ phase[v] = "off")
  BY <1>1 DEF TypeOK, Phases
<1>3. CASE w \in listed
  <2>1. UNCHANGED <<listed, lostToHandle, remaining, wire, dropped>>
    BY <1>1, <1>3 DEF Subscribed
  <2>2. phase' = phase
    BY <1>1, <1>3 DEF Marked
  <2> QED
    BY <1>1, <1>2, <2>1, <2>2 DEF TypeOK, Marked, AtWork, Fresh, CountAgrees, Covered, Trying,
                                  Held, Due, Known
<1>4. CASE w \notin listed
  <2> DEFINE lost == Visited(lostToHandle)
             takers == Takers(listed \cup {w})
  <2>1. listed' = listed \cup {w} /\ lostToHandle' = Skipped(lostToHandle) /\ HandOn(lost, takers)
    BY <1>1, <1>4 DEF Subscribed
  <2>2. lost \subseteq Workers /\ takers \subseteq Workers /\ lostToHandle' \in Seq(Workers)
    BY <2>1, WalkTypes DEF TypeOK, Takers
  <2>3. /\ wire' \subseteq Job /\ wire \subseteq wire'
        /\ \A job \in wire' \ wire : /\ job.does = "continue" /\ job.worker \in takers
                                     /\ job.worker \notin cut
        /\ remaining' \in [Workers -> {None} \cup SUBSET Tasks]
        /\ \A v \in Workers : remaining'[v] \in {None, remaining[v]}
        /\ dropped' \subseteq Tasks /\ dropped \subseteq dropped'
        /\ \A t : Held(t) => Held(t)' \/ Due(t)' \/ t \in dropped'
    BY <1>1, <2>1, <2>2, HandOnKeeps
  <2>4. TypeOK'
    BY <1>1, <1>2, <2>1, <2>2, <2>3 DEF TypeOK
  <2>5. Marked'
    BY <1>1, <1>2, <2>1, <2>3 DEF Marked
  <2>6. \A v \in takers : v \notin cut => phase'[v] \in {"up", "announcing"}
    BY <1>1, <1>2, <2>2 DEF Takers, Marked, TypeOK, Phases
  <2>7. AtWork'
    <3>1. \A job \in wire \cup running : job.worker \in Workers /\ phase'[job.worker] = phase[job.worker]
      BY <1>2 DEF AtWork, TypeOK, Job
    <3> QED
      BY <1>1, <2>3, <2>6, <3>1 DEF AtWork
  <2>8. Fresh'
    BY <1>1, <2>3 DEF Fresh
  <2>9. Covered'
    <3>1. \A t : Trying(t) => Trying(t)'
      BY <1>1, <1>2 DEF Trying
    <3>2. \A t : Due(t) => Due(t)'
      BY <1>1, <2>3 DEF Due
    <3> QED
      BY <1>1, <2>3, <3>1, <3>2 DEF Covered
  <2> QED
    BY <1>1, <2>4, <2>5, <2>7, <2>8, <2>9 DEF CountAgrees
<1> QED
  BY <1>3, <1>4

\* A worker is taken out of the list.
LEMMA CancelledStep == ASSUME IInv, NEW w \in Workers, Cancelled(w) PROVE IInv'
<1> USE DEF IInv
<1>1. /\ w \in cut /\ cut' = cut \ {w} /\ listed' = listed \ {w} /\ stopping' = stopping \ {w}
      /\ stoppingWorkerCount' = stoppingWorkerCount - (IF w \in stopping THEN 1 ELSE 0)
      /\ UNCHANGED <<worker, given, saved, late, faults>>
  BY DEF Cancelled, Uncounted
<1>2. CountAgrees' /\ stoppingWorkerCount' \in Nat
  <2>1. IsFiniteSet(stopping)
    BY FS_Subset, ConstantsAssumption DEF TypeOK
  <2>2. /\ IsFiniteSet(stopping \ {w})
        /\ Cardinality(stopping \ {w}) = IF w \in stopping THEN Cardinality(stopping) - 1
                                                           ELSE Cardinality(stopping)
    BY <2>1, FS_RemoveElement
  <2>3. Cardinality(stopping \ {w}) \in Nat /\ Cardinality(stopping) \in Nat
    BY <2>1, <2>2, FS_CardinalityType
  <2> QED
    BY <1>1, <2>2, <2>3 DEF CountAgrees
<1>3. /\ wire' \subseteq Job /\ wire \subseteq wire'
      /\ \A job \in wire' \ wire : /\ job.does = "continue" /\ job.worker \in listed' \ stopping
                                   /\ job.worker \notin cut
      /\ remaining' \in [Workers -> {None} \cup SUBSET Tasks]
      /\ \A v \in Workers : remaining'[v] \in {None, remaining[v]}
      /\ dropped' \subseteq Tasks /\ dropped \subseteq dropped'
      /\ \A t : Held(t) => Held(t)' \/ Due(t)' \/ t \in dropped'
      /\ lostToHandle' \in Seq(Workers)
  <2>1. \/ /\ UNCHANGED <<remaining, wire, dropped>>
           /\ lostToHandle' \in {lostToHandle, Append(lostToHandle, w)}
        \/ /\ HandOn({w}, Takers(listed'))
           /\ lostToHandle' = IF lostToHandle = <<>> THEN <<>> ELSE Front(lostToHandle)
    BY DEF Cancelled
  <2>2. lostToHandle' \in Seq(Workers)
    BY <2>1, FrontType DEF TypeOK
  <2>3. CASE UNCHANGED <<remaining, wire, dropped>>
    <3>1. \A t : Held(t) => Held(t)'
      BY <2>3 DEF Held, Known
    <3>2. wire \subseteq Job /\ dropped \subseteq Tasks
          /\ remaining \in [Workers -> {None} \cup SUBSET Tasks]
      BY DEF TypeOK
    <3> QED
      BY <2>2, <2>3, <3>1, <3>2
  <2>4. CASE HandOn({w}, Takers(listed'))
    <3>1. Takers(listed') \subseteq Workers /\ Takers(listed') = listed' \ stopping
      BY <1>1 DEF TypeOK, Takers
    <3>2. running' = running /\ {w} \subseteq Workers
      BY <1>1 DEF worker
    <3>3. \A job \in wire' \ wire : job.worker \in Takers(listed')
      BY <2>4, <3>1, <3>2, HandOnKeeps
    <3> QED
      BY <2>2, <2>4, <3>1, <3>2, HandOnKeeps
  <2> QED
    BY <2>1, <2>3, <2>4
<1>4. TypeOK'
  BY <1>1, <1>2, <1>3 DEF TypeOK, worker
<1>5. Marked'
  BY <1>1, <1>3 DEF Marked, worker
<1>6. \A v \in listed' \ stopping : v \notin cut => phase[v] \in {"up", "announcing"}
  BY <1>1 DEF Marked, TypeOK, Phases
<1>7. AtWork'
  BY <1>1, <1>3, <1>6 DEF AtWork, worker
<1>8. Fresh'
  BY <1>1, <1>3 DEF Fresh, worker
<1>9. Covered'
  <2>1. \A t : (Trying(t) => Trying(t)') /\ (Due(t) => Due(t)')
    BY <1>1, <1>3 DEF Trying, Due, worker
  <2> QED
    BY <1>1, <1>3, <2>1 DEF Covered
<1> QED
  BY <1>2, <1>4, <1>5, <1>7, <1>8, <1>9

-----------------------------------------------------------------------------
(* The steps of the workers.                                               *)

\* A job arrives.
LEMMA ReceiveStep == ASSUME IInv, NEW job \in Job, Receive(job) PROVE IInv'
<1> USE DEF IInv
<1>1. /\ job \in wire /\ wire' = wire \ {job} /\ running' = running \cup {job}
      /\ UNCHANGED <<phase, again, handed, pending, master, cut, saved, late, dropped, faults>>
  BY DEF Receive
<1>2. TypeOK'
  BY <1>1 DEF TypeOK, master
<1>3. Marked' /\ CountAgrees'
  BY <1>1 DEF Marked, CountAgrees, master
<1>4. AtWork'
  BY <1>1 DEF AtWork
<1>5. Fresh'
  BY <1>1 DEF Fresh, master
<1>6. Covered'
  BY <1>1 DEF Covered, Trying, Held, Due, Known, master
<1> QED
  BY <1>2, <1>3, <1>4, <1>5, <1>6

\* A job leaves its task behind, or goes on with it.
LEMMA WorkStep == ASSUME IInv, NEW job \in Job, Work(job) PROVE IInv'
<1> USE DEF IInv
<1>1. /\ job \in running /\ running' = running \ {job}
      /\ saved' = (IF job.does = "new" THEN saved \cup {job.task} ELSE saved)
      /\ pending' = (IF job.task \in saved'
                     THEN [pending EXCEPT ![job.worker] = @ \cup {job.task}] ELSE pending)
      /\ handed' \subseteq Tasks
      /\ UNCHANGED <<phase, again, master, wire, cut, late, dropped, faults>>
  BY DEF Work, Answered, Job, TypeOK
<1>2. job.task \in Tasks /\ job.worker \in Workers
  BY DEF Job
<1>3. /\ pending' \in [Workers -> SUBSET Tasks] /\ \A w \in Workers : pending[w] \subseteq pending'[w]
      /\ job.task \in saved' => job.task \in pending'[job.worker]
  BY <1>1, <1>2 DEF TypeOK
<1>4. TypeOK'
  BY <1>1, <1>2, <1>3 DEF TypeOK, master
<1>5. Marked' /\ CountAgrees'
  BY <1>1 DEF Marked, CountAgrees, master
<1>6. AtWork'
  BY <1>1 DEF AtWork
<1>7. Fresh'
  <2>1. CASE job.does = "new"
    <3>1. \A other \in wire' \cup running' : other.does = "new" => other.task # job.task
      BY <1>1, <2>1 DEF Fresh
    <3>2. job.task \in given
      BY <1>1, <2>1 DEF Fresh
    <3> QED
      BY <1>1, <2>1, <3>1, <3>2 DEF Fresh, master
  <2>2. CASE job.does # "new"
    BY <1>1, <2>2 DEF Fresh, master
  <2> QED
    BY <2>1, <2>2
<1>8. Covered'
  <2> SUFFICES ASSUME NEW t \in saved' \ dropped' PROVE Trying(t)' \/ Held(t)' \/ Due(t)'
    BY DEF Covered
  <2>1. CASE t = job.task
    <3>1. phase'[job.worker] \in {"up", "announcing", "draining"}
      BY <1>1 DEF AtWork
    <3> QED
      BY <1>2, <1>3, <2>1, <3>1 DEF Trying
  <2>2. CASE t # job.task
    <3>1. Trying(t) \/ Held(t) \/ Due(t)
      BY <1>1, <2>2 DEF Covered
    <3>2. Trying(t) => Trying(t)'
      BY <1>1, <1>3 DEF Trying
    <3>3. Held(t) => Held(t)'
      BY <1>1 DEF Held, Known, master
    <3>4. Due(t) => Due(t)'
      BY <1>1, <2>2 DEF Due
    <3> QED
      BY <3>1, <3>2, <3>3, <3>4
  <2> QED
    BY <2>1, <2>2
<1> QED
  BY <1>4, <1>5, <1>6, <1>7, <1>8

\* A job leaves nothing behind.
LEMMA FailStep == ASSUME IInv, NEW job \in Job, Fail(job) PROVE IInv'
<1> USE DEF IInv
<1>1. /\ job \in running /\ job.does = "new" /\ running' = running \ {job}
      /\ UNCHANGED <<phase, again, handed, pending, master, wire, cut, saved, late, dropped, faults>>
  BY DEF Fail, Answered
<1>2. TypeOK' /\ Marked' /\ CountAgrees'
  BY <1>1 DEF TypeOK, Marked, CountAgrees, master
<1>3. AtWork' /\ Fresh'
  BY <1>1 DEF AtWork, Fresh, master
<1>4. Covered'
  <2>1. job.task \notin saved
    BY <1>1 DEF Fresh
  <2>2. \A t \in saved : Due(t) => Due(t)'
    BY <1>1, <2>1 DEF Due
  <2> QED
    BY <1>1, <2>2 DEF Covered, Trying, Held, Known, master
<1> QED
  BY <1>2, <1>3, <1>4

\* A task is finished.
LEMMA EndsStep == ASSUME IInv, NEW w \in Workers, NEW t \in Tasks, Ends(w, t) PROVE IInv'
<1> USE DEF IInv
<1>1. /\ pending' = [pending EXCEPT ![w] = @ \ {t}] /\ saved' = saved \ {t}
      /\ UNCHANGED <<phase, again, handed, running, master, wire, cut, late, dropped, faults>>
  BY DEF Ends
<1>2. /\ pending' \in [Workers -> SUBSET Tasks]
      /\ \A v \in Workers : \A u : u \in pending[v] /\ u # t => u \in pending'[v]
  BY <1>1 DEF TypeOK
<1>3. TypeOK' /\ Marked' /\ CountAgrees'
  BY <1>1, <1>2 DEF TypeOK, Marked, CountAgrees, master
<1>4. AtWork' /\ Fresh'
  BY <1>1 DEF AtWork, Fresh, master
<1>5. Covered'
  BY <1>1, <1>2 DEF Covered, Trying, Held, Due, Known, master
<1> QED
  BY <1>3, <1>4, <1>5

\* A worker goes from one phase of its stop to the next.
LEMMA StopStep ==
    ASSUME IInv, NEW w \in Workers, ShutDown(w) \/ Announce(w) \/ Drain(w) \/ HandOver(w)
    PROVE  IInv'
<1> USE DEF IInv
<1>1. PICK next \in {"announcing", "draining", "handing", "handed"} : To(w, next)
  BY DEF ShutDown, Announce, Drain, HandOver, Goes
<1>2. phase' \in [Workers -> Phases] /\ phase'[w] = next
      /\ \A v \in Workers : v # w => phase'[v] = phase[v]
  BY <1>1 DEF To, TypeOK, Phases
<1>3. /\ UNCHANGED <<again, handed, pending, running, listed, lostToHandle, given, wire, cut, saved,
                     late, dropped, faults>>
      /\ phase[w] \in {"up", "announcing", "draining", "handing"}
  BY DEF ShutDown, Announce, Drain, HandOver, Goes, master
<1>4. /\ stopping' \subseteq listed /\ stopping \subseteq stopping'
      /\ stoppingWorkerCount' \in Nat /\ stoppingWorkerCount' = Cardinality(stopping')
  <2>1. CASE UNCHANGED <<stopping, stoppingWorkerCount>>
    BY <2>1 DEF TypeOK, CountAgrees
  <2>2. CASE /\ w \in listed \ stopping /\ stopping' = stopping \cup {w}
             /\ stoppingWorkerCount' = stoppingWorkerCount + 1
    <3>1. IsFiniteSet(stopping)
      BY FS_Subset, ConstantsAssumption DEF TypeOK
    <3>2. Cardinality(stopping \cup {w}) = Cardinality(stopping) + 1
      BY <2>2, <3>1, FS_AddElement
    <3> QED
      BY <2>2, <3>2 DEF TypeOK, CountAgrees
  <2> QED
    BY <2>1, <2>2 DEF ShutDown, Announce, Drain, HandOver, master
<1>5. \/ remaining' = remaining /\ next # "handed"
      \/ remaining' = [remaining EXCEPT ![w] = pending[w]] /\ next = "handed" /\ phase[w] = "handing"
  BY <1>1, <1>2 DEF ShutDown, Announce, Drain, HandOver, master, Goes, To, TypeOK
<1>6. remaining' \in [Workers -> {None} \cup SUBSET Tasks]
  BY <1>5 DEF TypeOK
<1>7. TypeOK'
  BY <1>2, <1>3, <1>4, <1>6 DEF TypeOK
<1>8. Marked'
  <2>1. next # "announcing" /\ w \in listed => w \in stopping'
    <3>1. CASE Announce(w)
      BY <3>1 DEF Announce
    <3>2. CASE Drain(w) \/ HandOver(w)
      BY <1>4, <3>2 DEF Drain, HandOver, Goes, Marked
    <3>3. CASE ShutDown(w)
      BY <1>2, <3>3 DEF ShutDown, Goes, To, TypeOK
    <3> QED
      BY <3>1, <3>2, <3>3
  <2>2. remaining[w] = None
    BY <1>3 DEF Marked
  <2> QED
    BY <1>2, <1>3, <1>4, <1>5, <2>1, <2>2 DEF Marked, TypeOK
<1>9. AtWork'
  <2>1. \A job \in wire : job.worker = w => next = "announcing"
    <3>1. CASE ShutDown(w)
      BY <1>2, <3>1 DEF ShutDown, Goes, To, TypeOK
    <3>2. CASE Announce(w)
      BY <3>2 DEF Announce
    <3>3. CASE Drain(w) \/ HandOver(w)
      BY <3>3 DEF Drain, HandOver, Goes, AtWork
    <3> QED
      BY <3>1, <3>2, <3>3
  <2>2. \A job \in running : job.worker = w => next \in {"announcing", "draining"}
    <3>1. CASE ShutDown(w) \/ Announce(w)
      BY <1>2, <3>1 DEF ShutDown, Announce, Goes, To, TypeOK
    <3>2. CASE Drain(w)
      BY <3>2 DEF Drain
    <3>3. CASE HandOver(w)
      BY <3>3 DEF HandOver, Goes, AtWork
    <3> QED
      BY <3>1, <3>2, <3>3
  <2>3. \A job \in wire \cup running : job.worker \in Workers
    BY DEF TypeOK, Job
  <2> QED
    BY <1>2, <1>3, <2>1, <2>2, <2>3 DEF AtWork
<1>10. Fresh'
  BY <1>3 DEF Fresh
<1>11. Covered'
  <2> SUFFICES ASSUME NEW t \in saved \ dropped PROVE Trying(t)' \/ Held(t)' \/ Due(t)'
    BY <1>3 DEF Covered
  <2>1. Due(t) => Due(t)'
    BY <1>3 DEF Due
  <2>2. Held(t) => Held(t)'
    <3>1. \A v \in Workers : t \in Known(v) => t \in Known(v)'
      BY <1>3, <1>5 DEF Known, Marked, TypeOK
    <3> QED
      BY <3>1 DEF Held
  <2>3. Trying(t) => Trying(t)' \/ Held(t)'
    <3>1. CASE next # "handed"
      BY <1>2, <1>3, <3>1 DEF Trying
    <3>2. CASE next = "handed"
      <4>1. pending[w] \in SUBSET Tasks /\ remaining'[w] = pending[w]
        BY <1>5, <3>2 DEF TypeOK
      <4>2. t \in pending[w] => t \in Known(w)'
        BY <4>1, NoneIsNoSet DEF Known
      <4> QED
        BY <1>2, <1>3, <4>2 DEF Trying, Held
    <3> QED
      BY <3>1, <3>2
  <2> QED
    BY <2>1, <2>2, <2>3 DEF Covered
<1> QED
  BY <1>4, <1>7, <1>8, <1>9, <1>10, <1>11 DEF CountAgrees

\* A worker goes, with its tasks handed over or dropped.
LEMMA LeaveStep == ASSUME IInv, NEW w \in Workers, Stop(w) \/ Crash(w) PROVE IInv'
<1> USE DEF IInv
<1>1. /\ phase' = [phase EXCEPT ![w] = "gone"] /\ again' = again \ {w}
      /\ pending' = [pending EXCEPT ![w] = {}]
      /\ running' = {job \in running : job.worker # w} /\ wire' = {job \in wire : job.worker # w}
      /\ cut' = (IF w \in listed THEN cut \cup {w} ELSE cut)
      /\ UNCHANGED <<handed, master, saved, late>>
  BY DEF Stop, Crash, Leave, To
<1>2. /\ faults' \in 0 .. MaxFaults /\ dropped' \subseteq Tasks /\ dropped \subseteq dropped'
      /\ \/ phase[w] = "handed"
         \/ /\ pending[w] \subseteq dropped'
            /\ \A job \in running \cup wire : job.worker = w => job.task \in dropped'
  <2>1. CASE Stop(w)
    BY <2>1 DEF Stop, TypeOK
  <2>2. CASE Crash(w)
    <3>1. faults' \in 0 .. MaxFaults
      BY <2>2, ConstantsAssumption DEF Crash, TypeOK
    <3>2. dropped' = dropped \cup pending[w]
                             \cup {job.task : job \in {j \in running \cup wire : j.worker = w}}
      BY <2>2 DEF Crash
    <3> QED
      BY <3>1, <3>2 DEF TypeOK, Job
  <2> QED
    BY <2>1, <2>2
<1>3. /\ phase' \in [Workers -> Phases] /\ phase'[w] = "gone"
      /\ \A v \in Workers : v # w => phase'[v] = phase[v]
      /\ pending' \in [Workers -> SUBSET Tasks]
      /\ \A v \in Workers : v # w => pending'[v] = pending[v]
  BY <1>1 DEF TypeOK, Phases
<1>4. TypeOK'
  BY <1>1, <1>2, <1>3 DEF TypeOK, master
<1>5. Marked'
  BY <1>1, <1>3 DEF Marked, master
<1>6. AtWork'
  <2>1. \A job \in wire' \cup running' : job.worker \in Workers /\ job.worker # w
    BY <1>1 DEF TypeOK, Job
  <2> QED
    BY <1>1, <1>3, <2>1 DEF AtWork
<1>7. Fresh' /\ CountAgrees'
  BY <1>1 DEF Fresh, CountAgrees, master
<1>8. Covered'
  <2> SUFFICES ASSUME NEW t \in saved \ dropped' PROVE Trying(t)' \/ Held(t)' \/ Due(t)'
    BY <1>1 DEF Covered
  <2>1. Trying(t) \/ Held(t) \/ Due(t)
    BY <1>2 DEF Covered
  <2>2. Held(t) => Held(t)'
    BY <1>1 DEF Held, Known, master
  <2>3. Trying(t) => Trying(t)'
    <3>1. ASSUME NEW v \in Workers, phase[v] \notin {"off", "handed", "gone"}, t \in pending[v]
          PROVE  v # w
      BY <1>2, <3>1
    <3> QED
      BY <1>3, <3>1 DEF Trying
  <2>4. Due(t) => Due(t)'
    <3>1. ASSUME NEW job \in wire \cup running, job.task = t PROVE job.worker # w
      BY <1>2, <3>1 DEF AtWork
    <3> QED
      BY <1>1, <3>1 DEF Due
  <2> QED
    BY <2>1, <2>2, <2>3, <2>4
<1> QED
  BY <1>4, <1>5, <1>6, <1>7, <1>8

\* A connection breaks.
LEMMA BreakStep == ASSUME IInv, NEW w \in Workers, Break(w) PROVE IInv'
<1> USE DEF IInv
<1>1. /\ w \in listed /\ cut' = cut \cup {w} /\ again' = again \cup {w}
      /\ wire' = {job \in wire : job.worker # w}
      /\ dropped' = dropped \cup {job.task : job \in {j \in wire : j.worker = w}}
      /\ UNCHANGED <<phase, handed, pending, running, master, saved, late>>
  BY DEF Break
<1>2. faults' \in 0 .. MaxFaults
  BY ConstantsAssumption DEF Break, TypeOK
<1>3. dropped' \subseteq Tasks /\ \A job \in wire : job.worker = w => job.task \in dropped'
  BY <1>1 DEF TypeOK, Job
<1>4. TypeOK'
  BY <1>1, <1>2, <1>3 DEF TypeOK, master
<1>5. Marked' /\ CountAgrees'
  BY <1>1 DEF Marked, CountAgrees, master
<1>6. AtWork' /\ Fresh'
  BY <1>1 DEF AtWork, Fresh, master
<1>7. Covered'
  <2> SUFFICES ASSUME NEW t \in saved \ dropped' PROVE Trying(t)' \/ Held(t)' \/ Due(t)'
    BY <1>1 DEF Covered
  <2>1. Due(t) => Due(t)'
    BY <1>1, <1>3 DEF Due
  <2> QED
    BY <1>1, <2>1 DEF Covered, Trying, Held, Known, master
<1> QED
  BY <1>4, <1>5, <1>6, <1>7

-----------------------------------------------------------------------------
(* The theorems.                                                           *)

\* The strengthening holds in every state of the specification.
THEOREM Invariant == Spec => []IInv
<1>1. IInv /\ [Next]_vars => IInv'
  <2> SUFFICES ASSUME IInv, [Next]_vars PROVE IInv'
    OBVIOUS
  <2>1. CASE UNCHANGED vars
    BY <2>1 DEF vars, worker, master, IInv, TypeOK, Marked, AtWork, Fresh, CountAgrees, Covered,
                Trying, Held, Due, Known
  <2>2. ASSUME NEW t \in Tasks, Deadline(t) PROVE IInv'
    BY <2>2 DEF Deadline, worker, master, IInv, TypeOK, Marked, AtWork, Fresh, CountAgrees,
                Covered, Trying, Held, Due, Known
  <2>3. ASSUME NEW w \in Workers, Jobs(w) PROVE IInv'
    BY <2>3, ReceiveStep, WorkStep, FailStep DEF Jobs
  <2>4. ASSUME NEW w \in Workers, Start(w) \/ ShutDown(w) \/ Step(w) \/ Crash(w) \/ Break(w)
        PROVE  IInv'
    BY <2>4, SubscribeStep, StopStep, LeaveStep, CancelledStep, BreakStep DEF Step
  <2>5. ASSUME NEW w \in Workers, NEW t \in Tasks, Delegate(t, w) \/ Succeeds(w, t) \/ GivesUp(w, t)
        PROVE  IInv'
    BY <2>5, DelegateStep, EndsStep DEF Succeeds, GivesUp
  <2> QED
    BY <2>1, <2>2, <2>3, <2>4, <2>5 DEF Next
<1> QED
  BY InitIInv, <1>1, PTL DEF Spec

\* The variables keep their types: only listed workers are marked or cut off.
THEOREM TypeCorrect == Spec => []TypeOK
  BY Invariant, PTL DEF IInv

\* For any number of workers, the count that decides whether there is one to delegate
\* to agrees with the marks in the list (subscribe(), workerStoppingCall()).
THEOREM CountIsRight == Spec => []CountAgrees
  BY Invariant, PTL DEF IInv

\* For any number of workers, tasks and faults, a task that is not finished is not
\* lost by the stop of a worker (shutdown() of client.js).
THEOREM NothingLost == Spec => []NothingLostByStopping
<1>1. IInv => NothingLostByStopping
  BY DEF IInv, Covered, Trying, Held, Due, NothingLostByStopping, Live
<1> QED
  BY Invariant, <1>1, PTL

=============================================================================
