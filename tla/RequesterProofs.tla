-------------------------- MODULE RequesterProofs ---------------------------
(***************************************************************************)
(* Safety at the RP, for any number of IdPs and ASes and any calls: the    *)
(* answers to a request, then its creation and its end.                    *)
(*                                                                         *)
(* RpRequest: an AS signs only after the last answer (SignedLast), tasks   *)
(* are about a block that is on the chain (TasksPlaced), what was reported *)
(* was reported by the task whose turn it was (ReportedRightly), and an AS *)
(* is asked by the task of an answer, of which there is one for each IdP   *)
(* (AskedInv).                                                             *)
(*                                                                         *)
(* RequestLifecycle, in the second half, one call at a time (Well): in     *)
(* which order its functions run (OneStage, InOrder, EndsMatch), that      *)
(* whatever counts down to the timeout, in Redis or in memory, does not    *)
(* run ahead of the clock (Due), that an announced request has its time in *)
(* Redis and somebody who acts on it (Tended), and who is still to take    *)
(* the stored data away (Stored).                                          *)
(***************************************************************************)
EXTENDS RpRequest, RequestLifecycle, FiniteSetTheorems, TLAPS

\* The first signature on data comes in a block after the last answer.
SignedLast ==
    \A h \in DOMAIN chain : chain[h].signed # {} =>
        /\ chain[h].answered = Idps
        /\ h > 1 /\ chain[h - 1].answered = Idps

Placed(t) ==
    /\ t.kind = "response" => AnsweredIn(t.from, t.height)
    /\ t.kind = "update" => t.height \in DOMAIN chain

TasksPlaced == \A k \in DOMAIN tasks : Placed(tasks[k])

ReportedRightly ==
    \A t \in reported :
        /\ Placed(t)
        /\ t.kind = "response" => ~Ended(chain[t.height])
        /\ t.kind = "update" => ~IdpAnswer(chain[t.height])

IInv == /\ TypeOK
        /\ ForgottenForGood
        /\ KnownInvalidStops
        /\ SignedLast
        /\ TasksPlaced
        /\ ReportedRightly

-----------------------------------------------------------------------------

\* What Init establishes: the empty queue and the chain of one state.
LEMMA InitIInv == Init => IInv
  BY ConstantsAssumption, SMTT(30)
     DEF Init, IInv, TypeOK, ForgottenForGood, KnownInvalidStops, SignedLast, TasksPlaced,
         ReportedRightly, Heights, Detail, Request

\* A longer chain changes nothing about the heights it already had.
LEMMA Grown ==
    ASSUME chain \in Seq(Detail), NEW d \in Detail, chain' = Append(chain, d)
    PROVE  /\ chain' \in Seq(Detail) /\ chain' # <<>>
           /\ Len(chain') = Len(chain) + 1
           /\ DOMAIN chain \subseteq DOMAIN chain'
           /\ \A h \in DOMAIN chain : chain'[h] = chain[h]
           /\ chain'[Len(chain) + 1] = d
           /\ DOMAIN chain' = DOMAIN chain \cup {Len(chain) + 1}
  OBVIOUS

\* The head of the queue is a task of its type, and its tail keeps what is known.
LEMMA HeadTail ==
    ASSUME TypeOK, TasksPlaced, NEW kind, Takes(kind), chain' = chain
    PROVE  /\ Head(tasks) \in Task /\ Head(tasks).kind = kind
           /\ Placed(Head(tasks))
           /\ tasks' \in Seq(Task)
           /\ TasksPlaced'
<1>1. tasks \in Seq(Task) /\ tasks # <<>> /\ tasks' = Tail(tasks)
  BY DEF TypeOK, Takes
<1>2. Head(tasks) = tasks[1] /\ 1 \in DOMAIN tasks /\ Head(tasks) \in Task
  BY <1>1
<1>3. \A k \in DOMAIN tasks' : tasks'[k] = tasks[k + 1] /\ k + 1 \in DOMAIN tasks
  BY <1>1
<1>4. TasksPlaced'
  BY <1>3 DEF TasksPlaced, Placed, AnsweredIn
<1> QED
  BY <1>1, <1>2, <1>4 DEF TasksPlaced, Takes

\* What is known of reported tasks stays true when a task is reported.
LEMMA ReportStep ==
    ASSUME TypeOK, ReportedRightly, chain' = chain, request' = request,
           NEW t \in Task, Placed(t),
           t.kind = "response" => ~Ended(chain[t.height]),
           t.kind = "update" => ~IdpAnswer(chain[t.height]),
           reported' = reported \cup {t}
    PROVE  ReportedRightly' /\ reported' \subseteq Task
  BY DEF ReportedRightly, Placed, AnsweredIn, TypeOK, Ended, IdpAnswer

\* ... and when none is.
LEMMA NoReport ==
    ASSUME ReportedRightly, chain' = chain, reported' = reported
    PROVE  ReportedRightly'
  BY DEF ReportedRightly, Placed, AnsweredIn, Ended, IdpAnswer

\* A chain that grows keeps what is known of tasks and reports.
LEMMA PlacedGrows ==
    ASSUME chain \in Seq(Detail), NEW d \in Detail, chain' = Append(chain, d),
           NEW t, Placed(t)
    PROVE  Placed(t)'
<1>1. t.kind = "update" => t.height \in DOMAIN chain'
  BY Grown DEF Placed
<1>2. ASSUME t.kind = "response" PROVE AnsweredIn(t.from, t.height)'
  <2>1. AnsweredIn(t.from, t.height)
    BY <1>2 DEF Placed
  <2>2. t.height \in Nat \ {0} /\ t.height > 1 => t.height - 1 \in DOMAIN chain
    BY <2>1 DEF AnsweredIn
  <2> QED
    BY <2>1, <2>2, Grown DEF AnsweredIn
<1> QED
  BY <1>1, <1>2 DEF Placed

\* A block leaves the invariant intact.
LEMMA BlockStep ==
    ASSUME IInv, NEW R \in SUBSET Idps, NEW S \in SUBSET Ases, NEW D \in SUBSET Ases,
           NEW end \in {"open", "close", "timeout"}, Block(R, S, D, end)
    PROVE  IInv'
<1> DEFINE last == chain[Len(chain)]
           new == [answered |-> last.answered \cup R, signed |-> last.signed \cup S,
                   received |-> last.received \cup D,
                   closed |-> end = "close", timedOut |-> end = "timeout"]
<1>1. chain \in Seq(Detail) /\ Len(chain) \in DOMAIN chain /\ last \in Detail
  BY DEF IInv, TypeOK
<1>2. new \in Detail
  BY <1>1 DEF Detail
<1>3. chain' = Append(chain, new)
  BY DEF Block, Latest
<1>4. UNCHANGED <<request, seen, delivered, tasks, cached, accessors, checked, dataRequests,
                  acked, closing, reported, stored, failures>>
  BY DEF Block, cache, sent
<1>5. TypeOK'
  <2>1. Len(chain') = Len(chain) + 1 /\ chain' \in Seq(Detail) /\ chain' # <<>>
    BY <1>1, <1>2, <1>3, Grown
  <2> QED
    BY <2>1, <1>1, <1>4 DEF IInv, TypeOK
<1>6. ForgottenForGood' /\ KnownInvalidStops'
  BY <1>4 DEF IInv, ForgottenForGood, KnownInvalidStops
<1>7. SignedLast'
  <2>1. S # {} => last.answered = Idps
    BY DEF Block, Latest
  <2>2. last.signed # {} => last.answered = Idps
    BY <1>1 DEF IInv, SignedLast
  <2>3. new.signed # {} => last.answered = Idps /\ new.answered = Idps
    BY <2>1, <2>2, <1>1 DEF Detail
  <2>4. SUFFICES ASSUME NEW h \in DOMAIN chain', chain'[h].signed # {}
                 PROVE  /\ chain'[h].answered = Idps
                        /\ h > 1 /\ chain'[h - 1].answered = Idps
    BY DEF SignedLast
  <2>5. CASE h \in DOMAIN chain
    <3>1. chain'[h] = chain[h]
      BY <2>5, <1>1, <1>2, <1>3, Grown
    <3>2. chain[h].answered = Idps /\ h > 1 /\ chain[h - 1].answered = Idps
      BY <3>1, <2>4, <2>5 DEF IInv, SignedLast
    <3>3. h - 1 \in DOMAIN chain
      BY <3>2, <2>5, <1>1
    <3> QED
      BY <3>1, <3>2, <3>3, <1>1, <1>2, <1>3, Grown
  <2>6. CASE h = Len(chain) + 1
    <3>1. chain'[h] = new /\ h > 1 /\ chain'[h - 1] = last
      BY <2>6, <1>1, <1>2, <1>3, Grown
    <3> QED
      BY <3>1, <2>3, <2>4
  <2> QED
    BY <2>5, <2>6, <1>1, <1>2, <1>3, Grown
<1>8. TasksPlaced'
  BY <1>1, <1>2, <1>3, <1>4, PlacedGrows DEF IInv, TasksPlaced
<1>9. ReportedRightly'
  <2>1. SUFFICES ASSUME NEW t \in reported
                 PROVE  /\ Placed(t)'
                        /\ t.kind = "response" => ~Ended(chain'[t.height])
                        /\ t.kind = "update" => ~IdpAnswer(chain'[t.height])
    BY <1>4 DEF ReportedRightly, Ended, IdpAnswer
  <2>2. Placed(t) /\ Placed(t)'
    BY <1>1, <1>2, <1>3, PlacedGrows DEF IInv, ReportedRightly
  <2>3. t.kind \in {"response", "update"} => chain'[t.height] = chain[t.height]
    BY <2>2, <1>1, <1>2, <1>3, Grown DEF Placed, AnsweredIn
  <2> QED
    BY <2>2, <2>3 DEF IInv, ReportedRightly
<1> QED
  BY <1>5, <1>6, <1>7, <1>8, <1>9 DEF IInv

\* A task that is appended to the queue is about a block on the chain.
LEMMA AppendStep ==
    ASSUME IInv, NEW t \in Task, Placed(t), tasks' = Append(tasks, t),
           UNCHANGED <<request, chain, cached, accessors, checked, dataRequests,
                       acked, closing, reported, stored, failures>>,
           seen' \in 0 .. Len(chain), delivered' \subseteq Idps \cup Ases
    PROVE  IInv'
<1>1. tasks \in Seq(Task)
  BY DEF IInv, TypeOK
<1>2. tasks' \in Seq(Task)
  BY <1>1
<1>3. \A k \in DOMAIN tasks' : tasks'[k] = t \/ (k \in DOMAIN tasks /\ tasks'[k] = tasks[k])
  BY <1>1
<1>4. TypeOK'
  BY <1>2 DEF IInv, TypeOK
<1>5. TasksPlaced'
  BY <1>3 DEF IInv, TasksPlaced, Placed, AnsweredIn
<1>6. ReportedRightly'
  BY NoReport DEF IInv
<1>7. ForgottenForGood' /\ KnownInvalidStops' /\ SignedLast'
  BY DEF IInv, ForgottenForGood, KnownInvalidStops, SignedLast
<1> QED
  BY <1>4, <1>5, <1>6, <1>7 DEF IInv

LEMMA DeliverStep == IInv /\ Deliver => IInv'
<1> SUFFICES ASSUME IInv, Deliver PROVE IInv'
  OBVIOUS
<1>1. UNCHANGED <<request, chain, seen, cached, accessors, checked, dataRequests,
                  acked, closing, reported, stored, failures>>
  BY DEF Deliver, cache, sent
<1>2. chain \in Seq(Detail) /\ Latest \in Detail /\ seen \in 0 .. Len(chain)
  BY DEF IInv, TypeOK, Latest
<1>3. CASE \E i \in Latest.answered \ delivered, h \in DOMAIN chain :
              /\ AnsweredIn(i, h)
              /\ delivered' = delivered \cup {i}
              /\ tasks' = Append(tasks, ResponseTask(i, h))
  <2>1. PICK i \in Latest.answered \ delivered, h \in DOMAIN chain :
              /\ AnsweredIn(i, h)
              /\ delivered' = delivered \cup {i}
              /\ tasks' = Append(tasks, ResponseTask(i, h))
    BY <1>3
  <2>2. i \in Idps /\ h \in Heights
    BY <1>2 DEF Detail, Heights
  <2>3. ResponseTask(i, h) \in Task /\ Placed(ResponseTask(i, h))
    BY <2>1, <2>2 DEF ResponseTask, Task, Placed
  <2>4. delivered' \subseteq Idps \cup Ases
    BY <2>1, <2>2 DEF IInv, TypeOK
  <2> QED
    BY <1>1, <1>2, <2>1, <2>3, <2>4, AppendStep
<1>4. CASE \E a \in Latest.signed \ delivered :
              /\ delivered' = delivered \cup {a}
              /\ tasks' = Append(tasks, DataTask(a))
  <2>1. PICK a \in Latest.signed \ delivered :
              /\ delivered' = delivered \cup {a}
              /\ tasks' = Append(tasks, DataTask(a))
    BY <1>4
  <2>2. a \in Ases
    BY <1>2 DEF Detail
  <2>3. DataTask(a) \in Task /\ Placed(DataTask(a))
    BY <2>2 DEF DataTask, Task, Placed
  <2>4. delivered' \subseteq Idps \cup Ases
    BY <2>1, <2>2 DEF IInv, TypeOK
  <2> QED
    BY <1>1, <1>2, <2>1, <2>3, <2>4, AppendStep
<1> QED
  BY <1>3, <1>4 DEF Deliver

LEMMA SeeBlockStep == IInv /\ SeeBlock => IInv'
<1> SUFFICES ASSUME IInv, SeeBlock PROVE IInv'
  OBVIOUS
<1>1. UNCHANGED <<request, chain, delivered, cached, accessors, checked, dataRequests,
                  acked, closing, reported, stored, failures>>
  BY DEF SeeBlock, cache, sent
<1>2. chain \in Seq(Detail) /\ seen \in 0 .. Len(chain) /\ delivered \subseteq Idps \cup Ases
  BY DEF IInv, TypeOK
<1>3. seen' = seen + 1 /\ seen' \in 0 .. Len(chain) /\ seen + 1 \in DOMAIN chain
  BY <1>2 DEF SeeBlock
<1>4. UpdateTask(seen + 1) \in Task /\ Placed(UpdateTask(seen + 1))
  BY <1>2, <1>3 DEF UpdateTask, Task, Placed, Heights
<1>5. CASE tasks' = Append(tasks, UpdateTask(seen + 1))
  BY <1>1, <1>2, <1>3, <1>4, <1>5, AppendStep
<1>6. CASE tasks' = tasks
  <2>1. ReportedRightly'
    BY <1>1, NoReport DEF IInv
  <2> QED
    BY <1>1, <1>3, <1>6, <2>1
       DEF IInv, TypeOK, ForgottenForGood, KnownInvalidStops, SignedLast, TasksPlaced, Placed,
           AnsweredIn
<1> QED
  BY <1>5, <1>6 DEF SeeBlock

\* A task that leaves the chain and the request alone keeps what is known of
\* the chain.
LEMMA SameChain ==
    ASSUME IInv, chain' = chain
    PROVE  SignedLast'
  BY DEF IInv, SignedLast

LEMMA AppendType ==
    ASSUME NEW S, NEW s \in Seq(S), NEW e \in S
    PROVE  Append(s, e) \in Seq(S)
  OBVIOUS

\* The part of processMessage() that may ask for data and close the request,
\* once the list is known.
LEMMA GoOn ==
    ASSUME IInv, NEW d, request' = request, checked' \subseteq Idps,
           Head(tasks) \in Task, Head(tasks).kind = "response",
           AskAs(d, checked'), AutoClose(d, checked')
    PROVE  /\ KnownInvalidStops'
           /\ dataRequests' \in Seq([height : Heights, checked : SUBSET Idps])
           /\ closing' \subseteq SUBSET Idps
<1> DEFINE req == [height |-> Head(tasks).height, checked |-> checked']
<1>1. /\ dataRequests \in Seq([height : Heights, checked : SUBSET Idps])
      /\ closing \subseteq SUBSET Idps
  BY DEF IInv, TypeOK
<1>2. Head(tasks).height \in Heights
  BY DEF Task
<1>3. req \in [height : Heights, checked : SUBSET Idps]
  BY <1>2
<1>4. dataRequests' = dataRequests
      \/ (dataRequests' = Append(dataRequests, req) /\ ListValid(checked'))
  BY DEF AskAs, MayAskAs
<1>5. closing' = closing \/ (closing' = closing \cup {checked'} /\ ListValid(checked'))
  BY DEF AutoClose, MayClose
<1>6. ASSUME request.mode = 3
      PROVE  \A k \in DOMAIN dataRequests' : dataRequests'[k].checked \subseteq request.genuine
  <2>1. \A k \in DOMAIN dataRequests : dataRequests[k].checked \subseteq request.genuine
    BY <1>6 DEF IInv, KnownInvalidStops
  <2>2. CASE dataRequests' = dataRequests
    BY <2>1, <2>2
  <2>3. CASE dataRequests' = Append(dataRequests, req) /\ ListValid(checked')
    <3>1. checked' \subseteq request.genuine
      BY <2>3, <1>6 DEF ListValid
    <3>2. \A k \in DOMAIN dataRequests' : dataRequests'[k] = req
              \/ (k \in DOMAIN dataRequests /\ dataRequests'[k] = dataRequests[k])
      BY <2>3, <1>1, <1>3
    <3> QED
      BY <2>1, <3>1, <3>2
  <2> QED
    BY <2>2, <2>3, <1>4
<1>7. ASSUME request.mode = 3
      PROVE  \A list \in closing' : list \subseteq request.genuine
  BY <1>5, <1>7 DEF IInv, KnownInvalidStops, ListValid
<1>8. Append(dataRequests, req) \in Seq([height : Heights, checked : SUBSET Idps])
  BY <1>1, <1>3, AppendType
<1>9. dataRequests' \in Seq([height : Heights, checked : SUBSET Idps])
  BY <1>1, <1>4, <1>8
<1> QED
  BY <1>1, <1>5, <1>6, <1>7, <1>9 DEF KnownInvalidStops

LEMMA ResponseStep == IInv /\ ProcessResponse => IInv'
<1> SUFFICES ASSUME IInv, ProcessResponse PROVE IInv'
  OBVIOUS
<1> DEFINE t == Head(tasks)
           d == DetailAt(t.height)
           list == checked \cup {t.from}
<1>1. UNCHANGED <<request, chain, seen, delivered, cached, acked, stored, failures>>
  BY DEF ProcessResponse
<1>2. /\ Head(tasks) \in Task /\ Head(tasks).kind = "response" /\ Placed(Head(tasks))
      /\ tasks' \in Seq(Task) /\ TasksPlaced'
  BY <1>1, HeadTail DEF IInv, ProcessResponse
<1>3. t.from \in Idps
  BY <1>2 DEF Task
<1>4. SignedLast'
  BY <1>1, SameChain
<1>5. CASE UNCHANGED <<accessors, checked, dataRequests, closing, reported>>
  <2>1. ReportedRightly'
    BY <1>1, <1>5, NoReport DEF IInv
  <2> QED
    BY <1>1, <1>2, <1>4, <1>5, <2>1 DEF IInv, TypeOK, ForgottenForGood, KnownInvalidStops
<1>6. CASE cached /\ StoreAccessor /\ Ended(d)
           /\ UNCHANGED <<checked, dataRequests, closing, reported>>
  <2>1. ReportedRightly'
    BY <1>1, <1>6, NoReport DEF IInv
  <2>2. accessors' \subseteq Idps
    BY <1>3, <1>6 DEF IInv, TypeOK, StoreAccessor
  <2> QED
    BY <1>1, <1>2, <1>4, <1>6, <2>1, <2>2
       DEF IInv, TypeOK, ForgottenForGood, KnownInvalidStops
<1>7. CASE cached /\ StoreAccessor /\ ~Ended(d) /\ checked' = list /\ Report
           /\ AskAs(d, list) /\ AutoClose(d, list)
  <2>1. ReportedRightly' /\ reported' \subseteq Task
    BY <1>1, <1>2, <1>7, ReportStep DEF IInv, Report, DetailAt
  <2>2. accessors' \subseteq Idps /\ checked' \subseteq Idps
    BY <1>3, <1>7 DEF IInv, TypeOK, StoreAccessor
  <2>3. /\ KnownInvalidStops'
        /\ dataRequests' \in Seq([height : Heights, checked : SUBSET Idps])
        /\ closing' \subseteq SUBSET Idps
    BY <1>1, <1>2, <1>7, <2>2, GoOn
  <2> QED
    BY <1>1, <1>2, <1>4, <1>7, <2>1, <2>2, <2>3 DEF IInv, TypeOK, ForgottenForGood
<1> QED
  BY <1>5, <1>6, <1>7 DEF ProcessResponse

LEMMA FailResponseStep == IInv /\ FailResponse => IInv'
<1> SUFFICES ASSUME IInv, FailResponse PROVE IInv'
  OBVIOUS
<1>1. UNCHANGED <<request, chain, seen, delivered, cached, stored, dataRequests, acked,
                  closing, reported>>
  BY DEF FailResponse, sent
<1>2. /\ Head(tasks) \in Task /\ Head(tasks).kind = "response"
      /\ tasks' \in Seq(Task) /\ TasksPlaced'
  BY <1>1, HeadTail DEF IInv, FailResponse
<1>3. Head(tasks).from \in Idps
  BY <1>2 DEF Task
<1>4. accessors' \subseteq Idps /\ checked' \subseteq Idps
  BY <1>3 DEF IInv, TypeOK, FailResponse, StoreAccessor
<1>5. failures' \in 0 .. MaxFailures
  BY ConstantsAssumption DEF IInv, TypeOK, FailResponse
<1>6. cached
  BY DEF FailResponse
<1>7. SignedLast' /\ ReportedRightly'
  BY <1>1, SameChain, NoReport DEF IInv
<1> QED
  BY <1>1, <1>2, <1>4, <1>5, <1>6, <1>7 DEF IInv, TypeOK, ForgottenForGood, KnownInvalidStops

LEMMA UpdateStep == IInv /\ ProcessUpdate => IInv'
<1> SUFFICES ASSUME IInv, ProcessUpdate PROVE IInv'
  OBVIOUS
<1> DEFINE t == Head(tasks)
           d == DetailAt(t.height)
<1>1. UNCHANGED <<request, chain, seen, delivered, dataRequests, acked, stored, failures>>
  BY DEF ProcessUpdate
<1>2. /\ t \in Task /\ t.kind = "update" /\ Placed(t)
      /\ tasks' \in Seq(Task) /\ TasksPlaced'
  BY <1>1, HeadTail DEF IInv, ProcessUpdate
<1>3. SignedLast'
  BY <1>1, SameChain
<1>4. /\ accessors' \subseteq Idps /\ checked' \subseteq Idps /\ cached' \in BOOLEAN
      /\ ForgottenForGood'
  BY DEF IInv, TypeOK, ForgottenForGood, ProcessUpdate, cache
<1>5. CASE IdpAnswer(d) /\ UNCHANGED <<reported, closing>>
  <2>1. ReportedRightly'
    BY <1>1, <1>5, NoReport DEF IInv
  <2> QED
    BY <1>1, <1>2, <1>3, <1>4, <1>5, <2>1 DEF IInv, TypeOK, KnownInvalidStops
<1>6. CASE ~IdpAnswer(d) /\ Report /\ AutoClose(d, checked)
  <2>1. ReportedRightly' /\ reported' \subseteq Task
    BY <1>1, <1>2, <1>6, ReportStep DEF IInv, Report, DetailAt
  <2>2. closing' = closing
        \/ (closing' = closing \cup {checked} /\ ListValid(checked))
    BY <1>6 DEF AutoClose, MayClose, ProcessUpdate, cache
  <2>3. closing' \subseteq SUBSET Idps /\ KnownInvalidStops'
    BY <1>1, <2>2 DEF IInv, TypeOK, KnownInvalidStops, ListValid
  <2> QED
    BY <1>1, <1>2, <1>3, <1>4, <2>1, <2>3 DEF IInv, TypeOK
<1> QED
  BY <1>5, <1>6 DEF ProcessUpdate

\* The other actions touch neither the chain nor the list of checked answers.
LEMMA OtherSteps == IInv /\ (ProcessData \/ StoreData \/ FailUpdate) => IInv'
<1>1. ASSUME IInv, ProcessData PROVE IInv'
  <2>1. UNCHANGED <<request, chain, seen, delivered, cached, accessors, checked, dataRequests,
                    closing, reported, stored, failures>>
    BY <1>1 DEF ProcessData, cache
  <2>2. /\ Head(tasks) \in Task /\ Head(tasks).kind = "data"
        /\ tasks' \in Seq(Task) /\ TasksPlaced'
    BY <1>1, <2>1, HeadTail DEF IInv, ProcessData
  <2>3. acked' \subseteq Ases
    BY <1>1, <2>2 DEF IInv, TypeOK, ProcessData, Task
  <2>4. SignedLast' /\ ReportedRightly'
    BY <1>1, <2>1, SameChain, NoReport DEF IInv
  <2> QED
    BY <1>1, <2>1, <2>2, <2>3, <2>4 DEF IInv, TypeOK, ForgottenForGood, KnownInvalidStops
<1>2. ASSUME IInv, StoreData PROVE IInv'
  <2>1. UNCHANGED <<request, chain, seen, delivered, tasks, cached, accessors, checked,
                    dataRequests, acked, closing, reported, failures>>
    BY <1>2 DEF StoreData, cache, sent
  <2>2. Latest \in Detail
    BY <1>2 DEF IInv, TypeOK, Latest
  <2>3. stored' \subseteq Ases
    BY <1>2, <2>2 DEF IInv, TypeOK, StoreData, Detail
  <2>4. SignedLast' /\ ReportedRightly'
    BY <1>2, <2>1, SameChain, NoReport DEF IInv
  <2> QED
    BY <1>2, <2>1, <2>3, <2>4
       DEF IInv, TypeOK, ForgottenForGood, KnownInvalidStops, TasksPlaced, Placed, AnsweredIn
<1>3. ASSUME IInv, FailUpdate PROVE IInv'
  <2>1. UNCHANGED <<request, chain, seen, delivered, cached, accessors, checked, dataRequests,
                    acked, closing, reported, stored>>
    BY <1>3 DEF FailUpdate, cache, sent
  <2>2. tasks' \in Seq(Task) /\ TasksPlaced'
    BY <1>3, <2>1, HeadTail DEF IInv, FailUpdate
  <2>3. failures' \in 0 .. MaxFailures
    BY <1>3, ConstantsAssumption DEF IInv, TypeOK, FailUpdate
  <2>4. SignedLast' /\ ReportedRightly'
    BY <1>3, <2>1, SameChain, NoReport DEF IInv
  <2> QED
    BY <1>3, <2>1, <2>2, <2>3, <2>4 DEF IInv, TypeOK, ForgottenForGood, KnownInvalidStops
<1> QED
  BY <1>1, <1>2, <1>3

\* Nothing changes in a stuttering step.
LEMMA StutterStep == IInv /\ UNCHANGED vars => IInv'
  BY NoReport
     DEF IInv, vars, cache, sent, TypeOK, ForgottenForGood, KnownInvalidStops, SignedLast,
         TasksPlaced, Placed, AnsweredIn

\* The inductive invariant of a request holds in every reachable state.
THEOREM Invariant == Spec => []IInv
<1>1. ASSUME IInv, [Next]_vars PROVE IInv'
  <2>1. CASE NewBlock
    BY <1>1, <2>1, BlockStep DEF NewBlock
  <2> QED
    BY <1>1, <2>1, DeliverStep, SeeBlockStep, ResponseStep, FailResponseStep, UpdateStep,
       OtherSteps, StutterStep DEF Next
<1> QED
  BY <1>1, InitIInv, PTL DEF Spec

\* Every variable keeps its type, whatever the order of messages and blocks.
THEOREM TypeCorrect == Spec => []TypeOK
  BY Invariant, PTL DEF IInv

\* Once processRequestUpdate() has cleaned up, no later message leaves an
\* accessor or a checked answer behind.
THEOREM NothingLeftBehind == Spec => []ForgottenForGood
  BY Invariant, PTL DEF IInv

\* The RP never asks for data, and never closes the request by itself, on a
\* list that holds an answer it found invalid.
THEOREM InvalidAnswersStop == Spec => []KnownInvalidStops
  BY Invariant, PTL DEF IInv

\* If an update and an answer of one height were both reported, the update
\* would not be an answer, so a signature would be on the chain; but the first
\* signature comes in a block after the last answer.
LEMMA InvReportedOnce == IInv => ReportedOnce
<1> SUFFICES ASSUME IInv, NEW h \in DOMAIN chain, UpdateTask(h) \in reported,
                    NEW i \in Idps, ResponseTask(i, h) \in reported
             PROVE  FALSE
  BY DEF ReportedOnce
<1>1. ~IdpAnswer(chain[h])
  BY DEF IInv, ReportedRightly, UpdateTask
<1>2. AnsweredIn(i, h) /\ ~Ended(chain[h])
  BY DEF IInv, ReportedRightly, Placed, ResponseTask
<1>3. chain[h].signed # {} /\ chain[h].answered = Idps
  BY <1>1, <1>2 DEF IdpAnswer, AnsweredIn
<1>4. h > 1 /\ chain[h - 1].answered = Idps
  BY <1>3 DEF IInv, SignedLast
<1> QED
  BY <1>2, <1>4 DEF AnsweredIn

\* No change of the request is reported to the client twice, once by
\* processMessage() and once by processRequestUpdate().
THEOREM NoDoubleReport == Spec => []ReportedOnce
  BY Invariant, InvReportedOnce, PTL

\* The three together: what messages and blocks do with a request is sound, in
\* whatever order they come.
THEOREM RequestSound == Spec => []RequestIsSound
  BY NothingLeftBehind, InvalidAnswersStop, NoDoubleReport, PTL DEF RequestIsSound

-----------------------------------------------------------------------------
(* How often data is asked for.  A task of an answer asks once, each IdP's   *)
(* message is a task once, and the answers that complete the request are all *)
(* in one block: so the data requests are no more than the tasks of that     *)
(* block's answers that have left the queue.                                 *)

\* Answers are never taken back.
AnswersKept ==
    \A g, h \in DOMAIN chain : g <= h => chain[g].answered \subseteq chain[h].answered

IsAnswerOf(k, i) == tasks[k].kind = "response" /\ tasks[k].from = i

Queued(i) == \E k \in DOMAIN tasks : IsAnswerOf(k, i)

\* The message of an IdP is in the queue at most once, and only when delivered.
QueuedOnce ==
    \A i \in Idps :
        /\ Queued(i) => i \in delivered
        /\ \A j, k \in DOMAIN tasks : IsAnswerOf(j, i) /\ IsAnswerOf(k, i) => j = k

\* The IdPs that answered at a height and whose task is done.
Worked(h) == {i \in Idps : i \in delivered /\ AnsweredIn(i, h) /\ ~Queued(i)}

\* The last answers came at height h.
LastAnswersAt(h) ==
    /\ h \in DOMAIN chain
    /\ chain[h].answered = Idps
    /\ \E i \in Idps : AnsweredIn(i, h)

AskedByAnswers ==
    \A k \in DOMAIN dataRequests :
        /\ LastAnswersAt(dataRequests[k].height)
        /\ Len(dataRequests) <= Cardinality(Worked(dataRequests[k].height))

AskedInv == AnswersKept /\ QueuedOnce /\ AskedByAnswers

\* There is one height at which the last answers came.
LEMMA OneLastHeight ==
    ASSUME chain \in Seq(Detail), AnswersKept,
           NEW g, NEW h, LastAnswersAt(g), LastAnswersAt(h)
    PROVE  g = h
<1>1. ASSUME NEW a, NEW b, LastAnswersAt(a), LastAnswersAt(b), a < b PROVE FALSE
  <2>1. PICK i \in Idps : AnsweredIn(i, b)
    BY <1>1 DEF LastAnswersAt
  <2>2. a \in DOMAIN chain /\ b \in DOMAIN chain /\ a \in Nat /\ b \in Nat
    BY <1>1 DEF LastAnswersAt
  <2>3. a >= 1 /\ b > 1 /\ b - 1 \in DOMAIN chain /\ a <= b - 1
    BY <1>1, <2>2
  <2>4. Idps \subseteq chain[b - 1].answered
    BY <1>1, <2>2, <2>3 DEF LastAnswersAt, AnswersKept
  <2> QED
    BY <2>1, <2>3, <2>4 DEF AnsweredIn
<1>2. g \in Int /\ h \in Int
  BY DEF LastAnswersAt
<1> QED
  BY <1>1, <1>2

LEMMA WorkedFinite == \A h : IsFiniteSet(Worked(h)) /\ Cardinality(Worked(h)) \in Nat
<1> TAKE h
<1>1. Worked(h) \in SUBSET Idps
  BY DEF Worked
<1> QED
  BY <1>1, ConstantsAssumption, FS_Subset, FS_CardinalityType

\* With the same data requests, it is enough that no task returns to the queue.
LEMMA SameRequests ==
    ASSUME AskedByAnswers, dataRequests' = dataRequests,
           \A h \in DOMAIN chain : LastAnswersAt(h) =>
               LastAnswersAt(h)' /\ Worked(h) \subseteq Worked(h)'
    PROVE  AskedByAnswers'
<1> SUFFICES ASSUME NEW k \in DOMAIN dataRequests
             PROVE  /\ LastAnswersAt(dataRequests[k].height)'
                    /\ Len(dataRequests) <= Cardinality(Worked(dataRequests[k].height)')
  BY DEF AskedByAnswers
<1> DEFINE h == dataRequests[k].height
<1>1. LastAnswersAt(h) /\ Len(dataRequests) <= Cardinality(Worked(h)) /\ h \in DOMAIN chain
  BY DEF AskedByAnswers, LastAnswersAt
<1>2. LastAnswersAt(h)' /\ Worked(h) \subseteq Worked(h)'
  BY <1>1
<1>3. Worked(h)' \in SUBSET Idps
  BY DEF Worked
<1> HIDE DEF h
<1>4. IsFiniteSet(Worked(h)')
  BY <1>3, ConstantsAssumption, FS_Subset
<1>5. Cardinality(Worked(h)) <= Cardinality(Worked(h)')
  BY <1>2, <1>4, FS_Subset
<1>6. Cardinality(Worked(h)) \in Nat /\ Cardinality(Worked(h)') \in Nat
  BY <1>4, WorkedFinite, FS_CardinalityType
<1>7. Len(dataRequests) <= Cardinality(Worked(h)')
  BY <1>1, <1>5, <1>6 DEF AskedByAnswers
<1> QED
  BY <1>2, <1>7 DEF h

\* When the chain stays, heights keep their meaning.
LEMMA SameHeights ==
    ASSUME chain' = chain
    PROVE  /\ \A h : LastAnswersAt(h)' <=> LastAnswersAt(h)
           /\ \A i, h : AnsweredIn(i, h)' <=> AnsweredIn(i, h)
           /\ AnswersKept => AnswersKept'
  BY DEF LastAnswersAt, AnsweredIn, AnswersKept

\* A task leaves the queue: what is left was there, one place further on.
LEMMA QueueShrinks ==
    ASSUME TypeOK, QueuedOnce, tasks # <<>>, tasks' = Tail(tasks), delivered' = delivered
    PROVE  /\ QueuedOnce'
           /\ \A i \in Idps : Queued(i)' => Queued(i)
           /\ \A i \in Idps : IsAnswerOf(1, i) => Queued(i) /\ ~Queued(i)'
<1>1. tasks \in Seq(Task) /\ 1 \in DOMAIN tasks
  BY DEF TypeOK
<1>2. \A k \in DOMAIN tasks' : /\ tasks'[k] = tasks[k + 1] /\ k + 1 \in DOMAIN tasks
                               /\ k \in Nat /\ k >= 1
  BY <1>1
<1>3. \A i \in Idps : \A k \in DOMAIN tasks' : IsAnswerOf(k, i)' <=> IsAnswerOf(k + 1, i)
  BY <1>2 DEF IsAnswerOf
<1>4. \A i \in Idps : Queued(i)' => Queued(i)
  BY <1>2, <1>3 DEF Queued
<1>5. ASSUME NEW i \in Idps, NEW j \in DOMAIN tasks', NEW k \in DOMAIN tasks',
             IsAnswerOf(j, i)', IsAnswerOf(k, i)'
      PROVE  j = k
  <2>1. j + 1 = k + 1
    BY <1>2, <1>3, <1>5 DEF QueuedOnce
  <2> QED
    BY <1>2, <2>1
<1>6. ASSUME NEW i \in Idps, IsAnswerOf(1, i), Queued(i)' PROVE FALSE
  <2>1. PICK k \in DOMAIN tasks' : IsAnswerOf(k, i)'
    BY <1>6 DEF Queued
  <2>2. k + 1 = 1
    BY <1>1, <1>2, <1>3, <1>6, <2>1 DEF QueuedOnce
  <2> QED
    BY <1>2, <2>1, <2>2
<1> QED
  BY <1>1, <1>4, <1>5, <1>6 DEF QueuedOnce, Queued

\* A task that is done and asks for nothing.
LEMMA QuietTask ==
    ASSUME TypeOK, AskedInv, tasks # <<>>, tasks' = Tail(tasks),
           UNCHANGED <<chain, delivered, dataRequests>>
    PROVE  AskedInv'
<1>1. QueuedOnce' /\ \A i \in Idps : Queued(i)' => Queued(i)
  BY QueueShrinks DEF AskedInv
<1>2. \A h : Worked(h) \subseteq Worked(h)'
  BY <1>1, SameHeights DEF Worked
<1> QED
  BY <1>1, <1>2, SameHeights, SameRequests DEF AskedInv

\* A step that leaves the queue alone, but for a task other than of an answer,
\* or of an IdP whose message was not delivered before.
LEMMA QueueGrows ==
    ASSUME TypeOK, AskedInv, NEW t \in Task, tasks' = Append(tasks, t),
           delivered \subseteq delivered', UNCHANGED <<chain, dataRequests>>,
           t.kind = "response" => t.from \notin delivered /\ t.from \in delivered'
    PROVE  AskedInv'
<1>1. tasks \in Seq(Task)
  BY DEF TypeOK
<1>2. \A k \in DOMAIN tasks' : \/ k \in DOMAIN tasks /\ tasks'[k] = tasks[k]
                               \/ k = Len(tasks) + 1 /\ tasks'[k] = t
  BY <1>1
<1>3. \A i \in Idps, k \in DOMAIN tasks' : IsAnswerOf(k, i)' =>
          \/ k \in DOMAIN tasks /\ IsAnswerOf(k, i)
          \/ k = Len(tasks) + 1 /\ t.kind = "response" /\ t.from = i
  BY <1>2 DEF IsAnswerOf
<1>4. \A i \in Idps : Queued(i)' => Queued(i) \/ (t.kind = "response" /\ t.from = i)
  BY <1>3 DEF Queued
<1>5. \A i \in Idps : Queued(i)' => i \in delivered'
  BY <1>4 DEF AskedInv, QueuedOnce
<1>6. ASSUME NEW i \in Idps, NEW j \in DOMAIN tasks', NEW k \in DOMAIN tasks',
             IsAnswerOf(j, i)', IsAnswerOf(k, i)'
      PROVE  j = k
  <2>1. CASE t.kind = "response" /\ t.from = i
    <3>1. ~Queued(i)
      BY <2>1 DEF AskedInv, QueuedOnce
    <3> QED
      BY <1>3, <1>6, <3>1 DEF Queued
  <2>2. CASE ~(t.kind = "response" /\ t.from = i)
    BY <1>3, <1>6, <2>2 DEF AskedInv, QueuedOnce
  <2> QED
    BY <2>1, <2>2
<1>7. \A h : Worked(h) \subseteq Worked(h)'
  BY <1>4, SameHeights DEF Worked
<1> QED
  BY <1>5, <1>6, <1>7, SameHeights, SameRequests DEF AskedInv, QueuedOnce

\* The tasks of a block's answers that are done, and the one at the head of the
\* queue with them.
LEMMA WorkedGrows ==
    ASSUME TypeOK, QueuedOnce, tasks # <<>>, tasks' = Tail(tasks),
           UNCHANGED <<chain, delivered>>,
           NEW i \in Idps, NEW h, IsAnswerOf(1, i), AnsweredIn(i, h)
    PROVE  Cardinality(Worked(h)') >= Cardinality(Worked(h)) + 1
<1>1. /\ \A j \in Idps : Queued(j)' => Queued(j)
      /\ Queued(i) /\ ~Queued(i)' /\ i \in delivered
  BY QueueShrinks DEF QueuedOnce
<1>2. i \notin Worked(h) /\ Worked(h) \cup {i} \subseteq Worked(h)'
  BY <1>1, SameHeights DEF Worked
<1>3. Cardinality(Worked(h) \cup {i}) = Cardinality(Worked(h)) + 1
  BY <1>2, WorkedFinite, FS_AddElement
<1>4. Worked(h)' \in SUBSET Idps
  BY DEF Worked
<1>5. IsFiniteSet(Worked(h)') /\ Cardinality(Worked(h)') \in Nat
  BY <1>4, ConstantsAssumption, FS_Subset, FS_CardinalityType
<1>6. Cardinality(Worked(h) \cup {i}) <= Cardinality(Worked(h)')
  BY <1>2, <1>5, FS_Subset
<1> QED
  BY <1>3, <1>5, <1>6, WorkedFinite

\* The task of an answer that asks for data.
LEMMA AskingTask ==
    ASSUME IInv, AskedInv, Takes("response"), UNCHANGED <<chain, delivered>>,
           NEW list, MayAskAs(chain[Head(tasks).height], list),
           dataRequests' = Append(dataRequests,
                                  [height |-> Head(tasks).height, checked |-> checked']),
           checked' \subseteq Idps
    PROVE  AskedInv'
<1>a. PICK h, i, req : /\ h = Head(tasks).height /\ i = Head(tasks).from
                       /\ req = [height |-> h, checked |-> checked']
  OBVIOUS
<1>1. /\ tasks # <<>> /\ tasks' = Tail(tasks)
      /\ Head(tasks) \in Task /\ Head(tasks).kind = "response" /\ Placed(Head(tasks))
  BY HeadTail DEF IInv, Takes
<1>2. i \in Idps /\ h \in Heights /\ AnsweredIn(i, h) /\ h \in DOMAIN chain
  BY <1>a, <1>1 DEF Task, Placed, AnsweredIn
<1>3. IsAnswerOf(1, i)
  BY <1>a, <1>1 DEF IsAnswerOf, IInv, TypeOK
<1>4. chain \in Seq(Detail) /\ dataRequests \in Seq([height : Heights, checked : SUBSET Idps])
  BY DEF IInv, TypeOK
<1>5. LastAnswersAt(h) /\ LastAnswersAt(h)'
  BY <1>a, <1>2, SameHeights DEF MayAskAs, LastAnswersAt
<1>6. QueuedOnce' /\ AnswersKept'
  BY <1>1, QueueShrinks, SameHeights DEF AskedInv, IInv
<1>7. Cardinality(Worked(h)') >= Cardinality(Worked(h)) + 1
  BY <1>1, <1>2, <1>3, WorkedGrows DEF AskedInv, IInv
<1>8. Cardinality(Worked(h)) \in Nat
  BY WorkedFinite
<1>9. Worked(h)' \in SUBSET Idps
  BY DEF Worked
<1>10. Cardinality(Worked(h)') \in Nat
  BY <1>9, ConstantsAssumption, FS_Subset, FS_CardinalityType
<1>11. \A k \in DOMAIN dataRequests : dataRequests[k].height = h
  BY <1>4, <1>5, OneLastHeight DEF AskedInv, AskedByAnswers
<1>12. Len(dataRequests) <= Cardinality(Worked(h))
  <2>1. CASE Len(dataRequests) = 0
    BY <1>8, <2>1
  <2>2. CASE Len(dataRequests) # 0
    <3>1. 1 \in DOMAIN dataRequests
      BY <1>4, <2>2
    <3> QED
      BY <1>11, <3>1 DEF AskedInv, AskedByAnswers
  <2> QED
    BY <2>1, <2>2
<1>13. req \in [height : Heights, checked : SUBSET Idps] /\ req.height = h
  BY <1>a, <1>2
<1>14. /\ Len(dataRequests') = Len(dataRequests) + 1 /\ Len(dataRequests) \in Nat
       /\ \A k \in DOMAIN dataRequests' :
              dataRequests'[k] = req \/ (k \in DOMAIN dataRequests /\ dataRequests'[k] = dataRequests[k])
  BY <1>a, <1>4, <1>13
<1>15. \A k \in DOMAIN dataRequests' : dataRequests'[k].height = h
  BY <1>11, <1>13, <1>14
<1>16. Len(dataRequests') <= Cardinality(Worked(h)')
  BY <1>7, <1>8, <1>10, <1>12, <1>14
<1>17. AskedByAnswers'
  BY <1>5, <1>15, <1>16 DEF AskedByAnswers
<1> QED
  BY <1>6, <1>17 DEF AskedInv

\* The chain grows: what is known of the heights it had stays known.
LEMMA AskedBlockStep ==
    ASSUME IInv, AskedInv, NewBlock
    PROVE  AskedInv'
<1>1. PICK R \in SUBSET Idps, S \in SUBSET Ases, D \in SUBSET Ases,
           end \in {"open", "close", "timeout"} : Block(R, S, D, end)
  BY DEF NewBlock
<1>2. PICK new : new = [answered |-> Latest.answered \cup R, signed |-> Latest.signed \cup S,
                        received |-> Latest.received \cup D,
                        closed |-> end = "close", timedOut |-> end = "timeout"]
  OBVIOUS
<1>3. chain \in Seq(Detail) /\ Len(chain) \in DOMAIN chain /\ Latest \in Detail
  BY DEF IInv, TypeOK, Latest
<1>4. new \in Detail /\ Latest.answered \subseteq new.answered
  BY <1>2, <1>3 DEF Detail
<1>5. chain' = Append(chain, new) /\ UNCHANGED <<delivered, tasks, dataRequests>>
  BY <1>1, <1>2 DEF Block, sent
<1>6. /\ DOMAIN chain' = DOMAIN chain \cup {Len(chain) + 1}
      /\ \A h \in DOMAIN chain : chain'[h] = chain[h]
      /\ chain'[Len(chain) + 1] = new
  BY <1>3, <1>4, <1>5, Grown
<1>7. AnswersKept'
  <2> SUFFICES ASSUME NEW g \in DOMAIN chain', NEW h \in DOMAIN chain', g <= h
               PROVE  chain'[g].answered \subseteq chain'[h].answered
    BY DEF AnswersKept
  <2>1. CASE h \in DOMAIN chain
    BY <1>3, <1>6, <2>1 DEF AskedInv, AnswersKept
  <2>2. CASE h = Len(chain) + 1 /\ g \in DOMAIN chain
    <3>1. g <= Len(chain)
      BY <1>3, <2>2
    <3>2. chain[g].answered \subseteq Latest.answered
      BY <1>3, <2>2, <3>1 DEF AskedInv, AnswersKept, Latest
    <3> QED
      BY <1>4, <1>6, <2>2, <3>2
  <2>3. CASE h = Len(chain) + 1 /\ g = Len(chain) + 1
    BY <2>3
  <2> QED
    BY <1>6, <2>1, <2>2, <2>3
<1>8. ASSUME NEW h \in DOMAIN chain, NEW i \in Idps
      PROVE  AnsweredIn(i, h)' <=> AnsweredIn(i, h)
  <2>1. h > 1 => h - 1 \in DOMAIN chain
    BY <1>3
  <2> QED
    BY <1>6, <2>1 DEF AnsweredIn
<1>9. \A h \in DOMAIN chain : (LastAnswersAt(h) => LastAnswersAt(h)') /\ Worked(h) \subseteq Worked(h)'
  BY <1>5, <1>6, <1>8 DEF LastAnswersAt, Worked, Queued, IsAnswerOf
<1>10. AskedByAnswers'
  BY <1>5, <1>9, SameRequests DEF AskedInv
<1>11. QueuedOnce'
  BY <1>5 DEF AskedInv, QueuedOnce, Queued, IsAnswerOf
<1> QED
  BY <1>7, <1>10, <1>11 DEF AskedInv

\* A step that leaves the chain, the queue and the data requests alone.
LEMMA AskedSame ==
    ASSUME AskedInv, UNCHANGED <<chain, delivered, tasks, dataRequests>>
    PROVE  AskedInv'
<1>1. \A i : Queued(i)' <=> Queued(i)
  BY DEF Queued, IsAnswerOf
<1>2. QueuedOnce'
  BY <1>1 DEF AskedInv, QueuedOnce, IsAnswerOf
<1>3. \A h : Worked(h) \subseteq Worked(h)'
  BY <1>1, SameHeights DEF Worked
<1> QED
  BY <1>2, <1>3, SameHeights, SameRequests DEF AskedInv

\* The steps that put a task into the queue.
LEMMA AskedQueueSteps ==
    ASSUME IInv, AskedInv, Deliver \/ SeeBlock
    PROVE  AskedInv'
<1>1. TypeOK /\ UNCHANGED <<chain, dataRequests>> /\ delivered \subseteq delivered'
  BY DEF IInv, Deliver, SeeBlock, sent
<1>a. chain \in Seq(Detail) /\ Latest \in Detail /\ seen \in Nat
  BY <1>1 DEF TypeOK, Latest
<1>2. ASSUME NEW i \in Latest.answered \ delivered, NEW h \in DOMAIN chain,
             delivered' = delivered \cup {i}, tasks' = Append(tasks, ResponseTask(i, h))
      PROVE  AskedInv'
  <2>1. i \in Idps /\ h \in Heights
    BY <1>a, <1>2 DEF Detail, Heights
  <2>2. /\ ResponseTask(i, h) \in Task /\ ResponseTask(i, h).from = i
    BY <2>1 DEF ResponseTask, Task
  <2> QED
    BY <1>1, <1>2, <2>2, QueueGrows
<1>3. ASSUME NEW a \in Latest.signed, tasks' = Append(tasks, DataTask(a))
      PROVE  AskedInv'
  <2>1. a \in Ases
    BY <1>a, <1>3 DEF Detail
  <2>2. DataTask(a) \in Task /\ DataTask(a).kind = "data"
    BY <2>1 DEF DataTask, Task
  <2> QED
    BY <1>1, <1>3, <2>2, QueueGrows
<1>4. ASSUME tasks' = Append(tasks, UpdateTask(seen + 1)) PROVE AskedInv'
  <2>1. UpdateTask(seen + 1) \in Task /\ UpdateTask(seen + 1).kind = "update"
    BY <1>a DEF UpdateTask, Task, Heights
  <2> QED
    BY <1>1, <1>4, <2>1, QueueGrows
<1>5. ASSUME tasks' = tasks, delivered' = delivered PROVE AskedInv'
  BY <1>1, <1>5, AskedSame
<1> QED
  BY <1>2, <1>3, <1>4, <1>5 DEF Deliver, SeeBlock

\* The tasks: only processMessage() of an answer asks for data.
LEMMA AskedTaskSteps ==
    ASSUME IInv, IInv', AskedInv,
           ProcessResponse \/ FailResponse \/ ProcessData \/ ProcessUpdate \/ FailUpdate
    PROVE  AskedInv'
<1>1. /\ tasks # <<>> /\ tasks' = Tail(tasks) /\ UNCHANGED <<chain, delivered>>
  BY DEF ProcessResponse, FailResponse, ProcessData, ProcessUpdate, FailUpdate, Takes
<1>2. CASE dataRequests' = dataRequests
  BY <1>1, <1>2, QuietTask DEF IInv
<1>3. CASE dataRequests' # dataRequests
  <2>1. ProcessResponse
    BY <1>3 DEF FailResponse, ProcessData, ProcessUpdate, FailUpdate, sent
  <2>2. AskAs(chain[Head(tasks).height], checked \cup {Head(tasks).from})
    BY <1>3, <2>1 DEF ProcessResponse, DetailAt
  <2>3. checked' \subseteq Idps
    BY DEF IInv, TypeOK
  <2>4. /\ MayAskAs(chain[Head(tasks).height], checked \cup {Head(tasks).from})
        /\ dataRequests' = Append(dataRequests,
                                  [height |-> Head(tasks).height, checked |-> checked'])
    BY <1>3, <2>2 DEF AskAs
  <2> QED
    BY <1>1, <2>1, <2>3, <2>4, AskingTask DEF ProcessResponse
<1> QED
  BY <1>2, <1>3

LEMMA AskedStep ==
    ASSUME IInv, IInv', AskedInv, [Next]_vars
    PROVE  AskedInv'
<1>1. CASE UNCHANGED <<chain, delivered, tasks, dataRequests>>
  BY <1>1, AskedSame
<1>2. CASE StoreData
  BY <1>1, <1>2 DEF StoreData, sent
<1>3. CASE UNCHANGED vars
  BY <1>1, <1>3 DEF vars, sent
<1> QED
  BY <1>2, <1>3, AskedBlockStep, AskedQueueSteps, AskedTaskSteps DEF Next

LEMMA InitAskedInv == Init => AskedInv
<1> SUFFICES ASSUME Init PROVE AskedInv
  OBVIOUS
<1>1. tasks = <<>> /\ dataRequests = <<>> /\ DOMAIN tasks = {} /\ DOMAIN dataRequests = {}
  BY DEF Init
<1>2. DOMAIN chain = {1}
  BY DEF Init
<1> QED
  BY <1>1, <1>2 DEF AskedInv, AnswersKept, QueuedOnce, Queued, AskedByAnswers

\* The done tasks of a block are among its answers.
LEMMA InvDataRequestsBounded == IInv /\ AskedInv => DataRequestsBounded
<1> SUFFICES ASSUME IInv, AskedInv, dataRequests # <<>>
             PROVE  \E h \in DOMAIN chain :
                        /\ chain[h].answered = Idps
                        /\ \A k \in DOMAIN dataRequests : dataRequests[k].height = h
                        /\ Len(dataRequests) <= Cardinality({i \in Idps : AnsweredIn(i, h)})
  BY DEF DataRequestsBounded
<1>1. chain \in Seq(Detail) /\ dataRequests \in Seq([height : Heights, checked : SUBSET Idps])
  BY DEF IInv, TypeOK
<1>2. 1 \in DOMAIN dataRequests
  BY <1>1
<1>3. PICK h : h = dataRequests[1].height
  OBVIOUS
<1>4. LastAnswersAt(h) /\ Len(dataRequests) <= Cardinality(Worked(h))
  BY <1>2, <1>3 DEF AskedInv, AskedByAnswers
<1>5. \A k \in DOMAIN dataRequests : dataRequests[k].height = h
  BY <1>1, <1>4, OneLastHeight DEF AskedInv, AskedByAnswers
<1>6. PICK A : A = {i \in Idps : AnsweredIn(i, h)}
  OBVIOUS
<1>7. A \in SUBSET Idps /\ Worked(h) \subseteq A
  BY <1>6 DEF Worked
<1>8. IsFiniteSet(A) /\ Cardinality(A) \in Nat
  BY <1>7, ConstantsAssumption, FS_Subset, FS_CardinalityType
<1>9. Cardinality(Worked(h)) <= Cardinality(A) /\ Cardinality(Worked(h)) \in Nat
  BY <1>7, <1>8, FS_Subset, WorkedFinite
<1>10. Len(dataRequests) <= Cardinality(A)
  BY <1>1, <1>4, <1>8, <1>9
<1> QED
  BY <1>4, <1>5, <1>6, <1>10 DEF LastAnswersAt

\* Whatever the order of messages, data is asked for at one height only, and at
\* most once for each IdP whose answer completed the request there.
THEOREM DataAskedBounded == Spec => []DataRequestsBounded
<1>1. IInv /\ IInv' /\ AskedInv /\ [Next]_vars => AskedInv'
  BY AskedStep
<1>2. Spec => []AskedInv
  BY <1>1, InitAskedInv, Invariant, PTL DEF Spec
<1> QED
  BY <1>2, Invariant, InvDataRequestsBounded, PTL

-----------------------------------------------------------------------------
(* Creation and end of requests: the module RequestLifecycle.              *)

-----------------------------------------------------------------------------
(* The inductive invariant.                                                *)

\* The functions from createRequest() to the announcement of the request: a call
\* is at one of them at most, also after a restart.
Stages == {"check", "start", "tx", "handler", "timer", "send"}

OneStage(c) == \A s1, s2 \in jobs[c] \cap Stages : s1 = s2

\* A call that was not made has left no trace; the request is on the chain from
\* the result of its transaction on.
InOrder(c) ==
    /\ c \notin called =>
           /\ jobs[c] = {} /\ c \notin data /\ scheduled[c] = None /\ resuming[c] = None
           /\ \A t \in timers : t.call # c
    /\ c \notin called \/ jobs[c] \cap {"check", "start", "tx"} # {} =>
           onChain[c] = "none" /\ "created" \notin told[c]
    /\ jobs[c] \cap {"handler", "timer", "send"} # {} => onChain[c] # "none"

EndsMatch(c) == /\ "closed" \in jobs[c] => onChain[c] = "closed"
                /\ "timedOut" \in jobs[c] => onChain[c] = "timedOut"

\* What is left of a delay and what has passed of the request's time are the
\* whole time at least.
Covers(c, ticks) == age[c] > 0 /\ ticks + age[c] > Timeout

Due(c) ==
    /\ scheduled[c] # None => Covers(c, scheduled[c])
    /\ resuming[c] # None => Covers(c, resuming[c])
    /\ \A t \in timers : t.call = c => Covers(c, t.wait + t.rest)
    /\ "timeout" \in jobs[c] => age[c] > Timeout \/ onChain[c] \in {"closed", "timedOut"}
    /\ onChain[c] = "timedOut" => age[c] > Timeout

\* The client was told that the request is there, and of no failure since.
Announced(c) == "created" \in told[c] /\ "failed" \notin told[c]

Tended(c) ==
    onChain[c] = "open" =>
          /\ "timer" \in jobs[c] \/ "send" \in jobs[c] \/ Announced(c) => scheduled[c] # None
          /\ "send" \in jobs[c] \/ Announced(c) =>
                 \/ \E t \in timers : t.call = c
                 \/ resuming[c] # None
                 \/ jobs[c] \cap {"timeout", "handler", "timer"} # {}

\* Until the process stops, somebody is to take the stored data away.
Stored(c) ==
    c \in data /\ crashes = 0 =>
        onChain[c] = "open" \/ jobs[c] \cap {"start", "tx", "block"} # {}

Well(c) == OneStage(c) /\ InOrder(c) /\ EndsMatch(c) /\ Due(c) /\ Tended(c) /\ Stored(c)

LifeIInv == /\ LifeTypeOK
            /\ \A c \in Calls : Well(c)
            /\ mapping # None => mapping \in data

-----------------------------------------------------------------------------
(* Timers.                                                                 *)

\* A delay is not shortened when it is cut into pieces.
LEMMA DelayIsWhole ==
    ASSUME NEW c \in Calls, NEW ticks \in 0 .. Timeout
    PROVE  /\ Delay(c, ticks) \in Timer
           /\ Delay(c, ticks).call = c
           /\ Delay(c, ticks).wait + Delay(c, ticks).rest = ticks
BY LifeAssumption DEF Delay, Timer

\* Releasing a timer changes nothing of its delay, and the timers of the other calls
\* are not touched.
LEMMA ReleaseKeeps ==
    ASSUME timers \subseteq Timer, NEW c \in Calls
    PROVE  /\ Release(c) \subseteq Timer
           /\ \A t \in Release(c) :
                  \E s \in timers : s.call = t.call /\ s.wait = t.wait /\ s.rest = t.rest
           /\ \A t \in timers : \E s \in Release(c) : s.call = t.call
           /\ \A t : t.call # c => (t \in Release(c) <=> t \in timers)
<1>1. ASSUME NEW t \in timers
      PROVE  [t EXCEPT !.held = FALSE] \in Timer /\ [t EXCEPT !.held = FALSE].call = t.call
             /\ [t EXCEPT !.held = FALSE].wait = t.wait /\ [t EXCEPT !.held = FALSE].rest = t.rest
  BY <1>1 DEF Timer
<1> QED
  BY <1>1 DEF Release

\* runTimeoutScheduler() leads to the transaction at once or to a timer for the whole
\* delay; the timers that were there go on.
LEMMA RunSchedulerKeeps ==
    ASSUME LifeTypeOK, NEW c \in Calls, NEW ticks \in 0 .. Timeout,
           NEW steps \in SUBSET Steps,
           RunScheduler(c, ticks, steps)
    PROVE  /\ timers' \subseteq Timer /\ jobs' \in [Calls -> SUBSET Steps]
           /\ \A x \in Calls \ {c} : jobs'[x] = jobs[x]
           /\ steps \subseteq jobs'[c] /\ jobs'[c] \subseteq steps \cup {"timeout"}
           /\ "timeout" \in jobs'[c] => "timeout" \in steps \/ ticks = 0
           /\ "timeout" \in jobs'[c] \/ \E t \in timers' : t.call = c
           /\ \A t \in timers' :
                  \/ t.call = c /\ ticks # 0 /\ t.wait + t.rest = ticks
                  \/ \E s \in timers : s.call = t.call /\ s.wait = t.wait /\ s.rest = t.rest
           /\ \A t : t.call # c => (t \in timers' <=> t \in timers)
<1>1. timers \subseteq Timer /\ jobs \in [Calls -> SUBSET Steps]
  BY DEF LifeTypeOK
<1>2. /\ jobs'[c] = steps \cup (IF ticks = 0 THEN {"timeout"} ELSE {})
      /\ \A x \in Calls \ {c} : jobs'[x] = jobs[x]
      /\ jobs' \in [Calls -> SUBSET Steps]
  BY <1>1 DEF RunScheduler, Steps
<1>3. CASE ticks = 0
  BY <1>1, <1>2, <1>3 DEF RunScheduler
<1>4. CASE ticks # 0
  <2>1. timers' = Release(c) \cup {Delay(c, ticks)}
    BY <1>4 DEF RunScheduler
  <2>2. /\ Delay(c, ticks) \in Timer
        /\ Delay(c, ticks).call = c
        /\ Delay(c, ticks).wait + Delay(c, ticks).rest = ticks
    BY DelayIsWhole
  <2> HIDE DEF Release
  <2> QED BY <1>1, <1>2, <1>4, <2>1, <2>2, ReleaseKeeps
<1> QED
  BY <1>3, <1>4

\* What counts down ends at 0.
LEMMA LessIs ==
    /\ \A n \in Nat : Less(n) \in Nat /\ Less(n) <= n /\ Less(n) + 1 >= n
    /\ \A n \in Nat \cup {None} : Less(n) = None <=> n = None
BY LifeAssumption DEF Less

-----------------------------------------------------------------------------
(* Types.                                                                  *)

\* Every action keeps the types.
LEMMA TypeStep ==
    LifeTypeOK /\ (\A c \in Calls : Well(c)) /\ [LifeNext]_lifeVars => LifeTypeOK'
<1> SUFFICES ASSUME LifeTypeOK, \A c \in Calls : InOrder(c), [LifeNext]_lifeVars
             PROVE  LifeTypeOK'
  BY DEF Well
<1> USE DEF Steps, Results
<1>1. ASSUME NEW k \in Calls, NEW allowed \in BOOLEAN, CreateRequest(k, allowed)
      PROVE  LifeTypeOK'
  BY <1>1 DEF LifeTypeOK, CreateRequest, Begins, redis, memory, calls
<1>2. ASSUME NEW k \in Calls, NEW found, NEW offering, NEW suited,
             Validate(k, found, offering, suited)
      PROVE  LifeTypeOK'
  BY <1>2 DEF LifeTypeOK, Validate, Goes, Forget, redis, memory,
     calls
<1>3. ASSUME NEW k \in Calls, StartTx(k) PROVE LifeTypeOK'
  BY <1>3 DEF LifeTypeOK, StartTx, Goes, redis, memory, calls
<1>4. ASSUME NEW k \in Calls, TxResult(k) PROVE LifeTypeOK'
  BY <1>4 DEF LifeTypeOK, TxResult, Goes, FailTx, Forget, Tell,
     redis, memory, calls
<1>5. ASSUME NEW k \in Calls, Schedule(k) PROVE LifeTypeOK'
  BY <1>5, LifeAssumption DEF LifeTypeOK, Schedule, Goes, redis, memory, calls
<1>6. ASSUME NEW k \in Calls, RunTimer(k) PROVE LifeTypeOK'
  <2>1. PICK ticks \in 0 .. Timeout : RunScheduler(k, ticks, (jobs[k] \ {"timer"}) \cup {"send"})
    BY <1>6, LifeAssumption DEF LifeTypeOK, RunTimer
  <2>2. timers' \subseteq Timer /\ jobs' \in [Calls -> SUBSET Steps]
    BY <2>1, RunSchedulerKeeps DEF LifeTypeOK
  <2> QED BY <1>6, <2>2 DEF LifeTypeOK, RunTimer, redis, memory, calls
<1>7. ASSUME NEW k \in Calls, Announce(k) PROVE LifeTypeOK'
  BY <1>7 DEF LifeTypeOK, Announce, Goes, Tell, redis, memory,
     calls
<1>8. ASSUME NEW k \in Calls, AnnounceFails(k) PROVE LifeTypeOK'
  <2>1. sendFailures' \in 0 .. MaxSendFailures
    BY <1>8, LifeAssumption DEF LifeTypeOK, AnnounceFails
  <2> QED BY <1>8, <2>1 DEF LifeTypeOK, AnnounceFails, Goes, Tell, Forget,
             RemoveScheduler, redis,
             memory, calls
<1>9. ASSUME NEW k \in Calls, CloseRequest(k) PROVE LifeTypeOK'
  <2>1. k \in called
    BY <1>9 DEF InOrder, CloseRequest
  <2> QED BY <1>9, <2>1 DEF LifeTypeOK, CloseRequest, Begins, redis,
             memory, calls
<1>10. ASSUME NEW k \in Calls, CloseResult(k) PROVE LifeTypeOK'
  BY <1>10 DEF LifeTypeOK, CloseResult, Goes, Tell, redis, memory,
     calls
<1>11. ASSUME NEW k \in Calls, AfterClose(k) PROVE LifeTypeOK'
  BY <1>11 DEF LifeTypeOK, AfterClose, Goes, Tell, RemoveScheduler,
     redis, memory, calls
<1>12. ASSUME NEW k \in Calls, TimeoutResult(k) PROVE LifeTypeOK'
  BY <1>12 DEF LifeTypeOK, TimeoutResult, Goes, redis, memory, calls
<1>13. ASSUME NEW k \in Calls, AfterTimeout(k) PROVE LifeTypeOK'
  BY <1>13 DEF LifeTypeOK, AfterTimeout, Goes, redis, memory, calls
<1>14. ASSUME NEW k \in Calls, SeeEnd(k) PROVE LifeTypeOK'
  BY <1>14 DEF LifeTypeOK, SeeEnd, Goes, Forget, redis, memory,
     calls
<1>15. ASSUME NEW k \in Calls, ResumeScheduler(k) PROVE LifeTypeOK'
  <2>1. PICK ticks \in 0 .. Timeout : RunScheduler(k, ticks, jobs[k])
    BY <1>15, LifeAssumption DEF LifeTypeOK, ResumeScheduler
  <2>2. timers' \subseteq Timer /\ jobs' \in [Calls -> SUBSET Steps]
    BY <2>1, RunSchedulerKeeps DEF LifeTypeOK
  <2> QED BY <1>15, <2>2 DEF LifeTypeOK, ResumeScheduler, redis, memory,
             calls
<1>16. CASE Tick
  <2>1. \A m \in 0 .. Timeout \cup {None} : Less(m) \in 0 .. Timeout \cup {None}
    BY LifeAssumption DEF Less
  <2>2. ASSUME NEW t \in timers PROVE [t EXCEPT !.wait = Less(t.wait)] \in Timer
    BY LifeAssumption DEF LifeTypeOK, Timer, Less
  <2>3. timers' \subseteq Timer
    BY <1>16, <2>2 DEF Tick
  <2>4. age' \in [Calls -> 0 .. Timeout + 1]
    BY <1>16, LifeAssumption DEF Tick, LifeTypeOK
  <2>5. /\ scheduled' \in [Calls -> 0 .. Timeout \cup {None}]
        /\ resuming' \in [Calls -> 0 .. Timeout \cup {None}]
    BY <1>16, <2>1 DEF Tick, LifeTypeOK
  <2> QED BY <1>16, <2>3, <2>4, <2>5 DEF LifeTypeOK, Tick, redis, memory,
             calls
<1>17. CASE TimerFires
  <2>1. PICK t \in timers :
           /\ t.wait = 0
           /\ IF t.rest > 0
              THEN /\ timers' = (timers \ {t}) \cup {[Delay(t.call, t.rest) EXCEPT !.held = t.held]}
                   /\ UNCHANGED jobs
              ELSE timers' = timers \ {t} /\ Begins(t.call, "timeout")
    BY <1>17 DEF TimerFires
  <2>2. t.call \in Calls /\ t.rest \in 0 .. Timeout /\ t.held \in BOOLEAN
    BY DEF LifeTypeOK, Timer
  <2>3. [Delay(t.call, t.rest) EXCEPT !.held = t.held] \in Timer
    BY <2>2, DelayIsWhole DEF Timer
  <2>4. timers' \subseteq Timer /\ jobs' \in [Calls -> SUBSET Steps]
    BY <2>1, <2>2, <2>3 DEF LifeTypeOK, Begins
  <2> QED BY <1>17, <2>4 DEF LifeTypeOK, TimerFires, redis, memory, calls
<1>18. ASSUME NEW again \in {{}, {"block"}}, Crash(again) PROVE LifeTypeOK'
  BY <1>18, LifeAssumption DEF LifeTypeOK, Crash, Restart, redis, memory, calls
<1>19. CASE UNCHANGED lifeVars
  BY <1>19 DEF LifeTypeOK, lifeVars, redis, memory, calls
<1> QED
  BY <1>1, <1>2, <1>3, <1>4, <1>5, <1>6, <1>7, <1>8, <1>9, <1>10, <1>11, <1>12, <1>13, <1>14,
     <1>15, <1>16, <1>17, <1>18, <1>19 DEF LifeNext, Step

-----------------------------------------------------------------------------
(* What a step leaves alone.                                               *)

\* Nothing happens to the call c.
Alone(c) ==
    /\ jobs'[c] = jobs[c] /\ onChain'[c] = onChain[c] /\ told'[c] = told[c] /\ age'[c] = age[c]
    /\ scheduled'[c] = scheduled[c] /\ resuming'[c] = resuming[c]
    /\ c \in data' <=> c \in data
    /\ c \in called' <=> c \in called
    /\ \A t : t.call = c => (t \in timers' <=> t \in timers)
    /\ crashes' = crashes

LEMMA AloneIsWell ==
    ASSUME NEW c \in Calls, Well(c), Alone(c) PROVE Well(c)'
<1>1. OneStage(c)' /\ EndsMatch(c)' /\ Stored(c)'
  BY DEF Well, OneStage, EndsMatch, Stored, Alone
<1>2. InOrder(c)'
  BY DEF Well, InOrder, Alone
<1>3. Due(c)'
  BY DEF Well, Due, Covers, Alone
<1>4. Tended(c)'
  BY DEF Well, Tended, Announced, Alone
<1> QED BY <1>1, <1>2, <1>3, <1>4 DEF Well

\* The actions about the call k.
Acts(k) ==
    \/ \E allowed \in BOOLEAN : CreateRequest(k, allowed)
    \/ \E found, offering, suited : Validate(k, found, offering, suited)
    \/ Step(k) \/ AnnounceFails(k) \/ CloseRequest(k)

\* They leave the other calls alone.
LEMMA OthersAlone ==
    ASSUME LifeTypeOK, NEW k \in Calls, Acts(k), NEW c \in Calls, c # k
    PROVE  Alone(c)
<1>1. ASSUME NEW allowed \in BOOLEAN, CreateRequest(k, allowed) PROVE Alone(c)
  BY <1>1 DEF LifeTypeOK, Alone, CreateRequest, Begins, redis, memory,
     calls
<1>2. ASSUME NEW found, NEW offering, NEW suited, Validate(k, found, offering, suited)
      PROVE  Alone(c)
  BY <1>2 DEF LifeTypeOK, Alone, Validate, Goes, Forget, redis,
     memory, calls
<1>3. ASSUME StartTx(k) PROVE Alone(c)
  BY <1>3 DEF LifeTypeOK, Alone, StartTx, Goes, redis, memory, calls
<1>4. ASSUME TxResult(k) PROVE Alone(c)
  BY <1>4 DEF LifeTypeOK, Alone, TxResult, Goes, FailTx, Forget, Tell,
     redis, memory, calls
<1>5. ASSUME Schedule(k) PROVE Alone(c)
  BY <1>5 DEF LifeTypeOK, Alone, Schedule, Goes, redis, memory, calls
<1>6. ASSUME RunTimer(k) PROVE Alone(c)
  <2>1. PICK ticks \in 0 .. Timeout : RunScheduler(k, ticks, (jobs[k] \ {"timer"}) \cup {"send"})
    BY <1>6, LifeAssumption DEF LifeTypeOK, RunTimer
  <2>2. (jobs[k] \ {"timer"}) \cup {"send"} \in SUBSET Steps
    BY DEF LifeTypeOK, Steps
  <2>3. jobs'[c] = jobs[c] /\ \A t : t.call = c => (t \in timers' <=> t \in timers)
    BY <2>1, <2>2, RunSchedulerKeeps
  <2> QED BY <1>6, <2>3 DEF Alone, LifeTypeOK, RunTimer, redis, memory, calls
<1>7. ASSUME Announce(k) PROVE Alone(c)
  BY <1>7 DEF LifeTypeOK, Alone, Announce, Goes, Tell, redis, memory,
     calls
<1>8. ASSUME AnnounceFails(k) PROVE Alone(c)
  BY <1>8 DEF LifeTypeOK, Alone, AnnounceFails, Goes, Tell, Forget,
     RemoveScheduler, redis, memory,
     calls
<1>9. ASSUME CloseRequest(k) PROVE Alone(c)
  BY <1>9 DEF LifeTypeOK, Alone, CloseRequest, Begins, redis, memory,
     calls
<1>10. ASSUME CloseResult(k) PROVE Alone(c)
  BY <1>10 DEF LifeTypeOK, Alone, CloseResult, Goes, Tell, redis,
     memory, calls
<1>11. ASSUME AfterClose(k) PROVE Alone(c)
  BY <1>11 DEF LifeTypeOK, Alone, AfterClose, Goes, Tell, RemoveScheduler,
     redis, memory, calls
<1>12. ASSUME TimeoutResult(k) PROVE Alone(c)
  BY <1>12 DEF LifeTypeOK, Alone, TimeoutResult, Goes, redis, memory,
     calls
<1>13. ASSUME AfterTimeout(k) PROVE Alone(c)
  BY <1>13 DEF LifeTypeOK, Alone, AfterTimeout, Goes, redis, memory,
     calls
<1>14. ASSUME SeeEnd(k) PROVE Alone(c)
  BY <1>14 DEF LifeTypeOK, Alone, SeeEnd, Goes, Forget, redis, memory,
     calls
<1>15. ASSUME ResumeScheduler(k) PROVE Alone(c)
  <2>1. PICK ticks \in 0 .. Timeout : RunScheduler(k, ticks, jobs[k])
    BY <1>15, LifeAssumption DEF LifeTypeOK, ResumeScheduler
  <2>2. jobs[k] \in SUBSET Steps
    BY DEF LifeTypeOK, Steps
  <2>3. jobs'[c] = jobs[c] /\ \A t : t.call = c => (t \in timers' <=> t \in timers)
    BY <2>1, <2>2, RunSchedulerKeeps
  <2> QED BY <1>15, <2>3 DEF Alone, LifeTypeOK, ResumeScheduler, redis, memory,
             calls
<1> QED
  BY <1>1, <1>2, <1>3, <1>4, <1>5, <1>6, <1>7, <1>8, <1>9, <1>10, <1>11, <1>12, <1>13, <1>14,
     <1>15 DEF Acts, Step

-----------------------------------------------------------------------------
(* Every step keeps the call it is about well.                             *)

LEMMA ActsWell ==
    ASSUME LifeTypeOK, NEW k \in Calls, Well(k), Acts(k) PROVE Well(k)'
<1>1. OneStage(k) /\ InOrder(k) /\ EndsMatch(k) /\ Due(k) /\ Tended(k) /\ Stored(k)
  BY DEF Well
<1> USE DEF Stages
<1>2. ASSUME NEW allowed \in BOOLEAN, CreateRequest(k, allowed) PROVE Well(k)'
  <2>1. OneStage(k)' /\ EndsMatch(k)'
    BY <1>1, <1>2 DEF OneStage, InOrder, EndsMatch, LifeTypeOK, CreateRequest,
       Begins, redis,
       memory, calls
  <2>2. InOrder(k)'
    BY <1>1, <1>2 DEF OneStage, InOrder, LifeTypeOK, CreateRequest, Begins,
       redis, memory, calls
  <2>3. Due(k)'
    BY <1>1, <1>2, LifeAssumption DEF InOrder, Due, Covers, LifeTypeOK, CreateRequest, Begins,
       redis, memory, calls
  <2>4. Tended(k)'
    BY <1>1, <1>2, LifeAssumption DEF OneStage, InOrder, EndsMatch, Tended, Announced,
       LifeTypeOK, CreateRequest, Begins, redis, memory, calls
  <2>5. Stored(k)'
    BY <1>1, <1>2 DEF InOrder, Stored, LifeTypeOK, CreateRequest, Begins, redis,
       memory, calls
  <2> QED BY <2>1, <2>2, <2>3, <2>4, <2>5 DEF Well
<1>3. ASSUME NEW found, NEW offering, NEW suited, Validate(k, found, offering, suited)
      PROVE  Well(k)'
  <2>1. OneStage(k)' /\ EndsMatch(k)'
    BY <1>1, <1>3 DEF OneStage, InOrder, EndsMatch, LifeTypeOK, Validate, Goes,
       Forget, redis,
       memory, calls
  <2>2. InOrder(k)'
    BY <1>1, <1>3 DEF OneStage, InOrder, LifeTypeOK, Validate, Goes, Forget,
       redis, memory, calls
  <2>3. Due(k)'
    BY <1>1, <1>3, LifeAssumption DEF InOrder, Due, Covers, LifeTypeOK, Validate, Goes, Forget,
       redis, memory, calls
  <2>4. Tended(k)'
    BY <1>1, <1>3, LifeAssumption DEF OneStage, InOrder, EndsMatch, Tended, Announced,
       LifeTypeOK, Validate, Goes, Forget, redis, memory, calls
  <2>5. Stored(k)'
    BY <1>1, <1>3 DEF InOrder, Stored, LifeTypeOK, Validate, Goes, Forget,
       redis, memory, calls
  <2> QED BY <2>1, <2>2, <2>3, <2>4, <2>5 DEF Well
<1>4. ASSUME StartTx(k) PROVE Well(k)'
  <2>1. OneStage(k)' /\ EndsMatch(k)'
    BY <1>1, <1>4 DEF OneStage, InOrder, EndsMatch, LifeTypeOK, StartTx, Goes,
       redis, memory, calls
  <2>2. InOrder(k)'
    BY <1>1, <1>4 DEF OneStage, InOrder, LifeTypeOK, StartTx, Goes, redis,
       memory, calls
  <2>3. Due(k)'
    BY <1>1, <1>4, LifeAssumption DEF InOrder, Due, Covers, LifeTypeOK, StartTx, Goes, redis,
       memory, calls
  <2>4. Tended(k)'
    BY <1>1, <1>4, LifeAssumption DEF OneStage, InOrder, EndsMatch, Tended, Announced,
       LifeTypeOK, StartTx, Goes, redis, memory, calls
  <2>5. Stored(k)'
    BY <1>1, <1>4 DEF InOrder, Stored, LifeTypeOK, StartTx, Goes, redis,
       memory, calls
  <2> QED BY <2>1, <2>2, <2>3, <2>4, <2>5 DEF Well
<1>5. ASSUME TxResult(k) PROVE Well(k)'
  <2>1. OneStage(k)' /\ EndsMatch(k)'
    BY <1>1, <1>5 DEF OneStage, InOrder, EndsMatch, LifeTypeOK, TxResult, Goes,
       FailTx, Forget,
       Tell, redis, memory, calls
  <2>2. InOrder(k)'
    BY <1>1, <1>5 DEF OneStage, InOrder, LifeTypeOK, TxResult, Goes, FailTx,
       Forget, Tell, redis,
       memory, calls
  <2>3. Due(k)'
    BY <1>1, <1>5, LifeAssumption DEF InOrder, Due, Covers, LifeTypeOK, TxResult, Goes, FailTx,
       Forget, Tell, redis, memory, calls
  <2>4. Tended(k)'
    BY <1>1, <1>5, LifeAssumption DEF OneStage, InOrder, EndsMatch, Tended, Announced,
       LifeTypeOK, TxResult, Goes, FailTx, Forget, Tell, redis, memory, calls
  <2>5. Stored(k)'
    BY <1>1, <1>5 DEF InOrder, Stored, LifeTypeOK, TxResult, Goes, FailTx,
       Forget, Tell, redis,
       memory, calls
  <2> QED BY <2>1, <2>2, <2>3, <2>4, <2>5 DEF Well
<1>6. ASSUME Schedule(k) PROVE Well(k)'
  <2>1. OneStage(k)' /\ EndsMatch(k)'
    BY <1>1, <1>6 DEF OneStage, InOrder, EndsMatch, LifeTypeOK, Schedule, Goes,
       redis, memory, calls
  <2>2. InOrder(k)'
    BY <1>1, <1>6 DEF OneStage, InOrder, LifeTypeOK, Schedule, Goes, redis,
       memory, calls
  <2>3. Due(k)'
    BY <1>1, <1>6, LifeAssumption DEF InOrder, Due, Covers, LifeTypeOK, Schedule, Goes, redis,
       memory, calls
  <2>4. Tended(k)'
    BY <1>1, <1>6, LifeAssumption DEF OneStage, InOrder, EndsMatch, Tended, Announced,
       LifeTypeOK, Schedule, Goes, redis, memory, calls
  <2>5. Stored(k)'
    BY <1>1, <1>6 DEF InOrder, Stored, LifeTypeOK, Schedule, Goes, redis,
       memory, calls
  <2> QED BY <2>1, <2>2, <2>3, <2>4, <2>5 DEF Well
<1>7. ASSUME RunTimer(k) PROVE Well(k)'
  <2>1. PICK ticks : /\ ticks = IF scheduled[k] = None THEN 0 ELSE scheduled[k]
                     /\ RunScheduler(k, ticks, (jobs[k] \ {"timer"}) \cup {"send"})
    BY <1>7 DEF RunTimer
  <2>2. ticks \in 0 .. Timeout /\ ((jobs[k] \ {"timer"}) \cup {"send"}) \in SUBSET Steps
    <3>1. scheduled[k] \in 0 .. Timeout \cup {None} /\ resuming[k] \in 0 .. Timeout \cup {None}
      BY DEF LifeTypeOK
    <3>2. ticks \in 0 .. Timeout
      BY <1>7, <2>1, <3>1, LifeAssumption DEF RunTimer
    <3>3. ((jobs[k] \ {"timer"}) \cup {"send"}) \in SUBSET Steps
      BY DEF LifeTypeOK, Steps
    <3> QED BY <3>2, <3>3
  <2> DEFINE steps == (jobs[k] \ {"timer"}) \cup {"send"}
  <2>3. /\ steps \subseteq jobs'[k] /\ jobs'[k] \subseteq steps \cup {"timeout"}
        /\ "timeout" \in jobs'[k] => "timeout" \in steps \/ ticks = 0
        /\ "timeout" \in jobs'[k] \/ \E t \in timers' : t.call = k
        /\ \A t \in timers' :
               \/ t.call = k /\ ticks # 0 /\ t.wait + t.rest = ticks
               \/ \E s \in timers : s.call = t.call /\ s.wait = t.wait /\ s.rest = t.rest
    BY <2>1, <2>2, RunSchedulerKeeps
  <2>4. /\ UNCHANGED <<called, data, scheduled, onChain, age, told, crashes>>
        /\ resuming'[k] \in {resuming[k], None}
    BY <1>7 DEF RunTimer, LifeTypeOK, redis, memory, calls
  <2>5. OneStage(k)' /\ EndsMatch(k)' /\ Stored(k)'
    BY <1>1, <1>7, <2>3, <2>4 DEF OneStage, EndsMatch, Stored, RunTimer
  <2>6. InOrder(k)'
    BY <1>1, <1>7, <2>3, <2>4 DEF InOrder, OneStage, RunTimer
  <2>7. /\ ticks # 0 => Covers(k, ticks)
        /\ ticks = 0 => age[k] > Timeout \/ onChain[k] \in {"closed", "timedOut"}
    BY <1>1, <1>7, <2>1, <2>2 DEF Due, Covers, Tended, InOrder, RunTimer, LifeTypeOK
  <2>8. Due(k)'
    <3>1. timers \subseteq Timer /\ age[k] \in Nat
      BY LifeAssumption DEF LifeTypeOK
    <3>2. ASSUME NEW t \in timers', t.call = k PROVE Covers(k, t.wait + t.rest)
      BY <1>1, <2>3, <2>7, <3>1, <3>2 DEF Due
    <3>3. "timeout" \in jobs'[k] => age[k] > Timeout \/ onChain[k] \in {"closed", "timedOut"}
      BY <1>1, <2>3, <2>7 DEF Due
    <3> QED BY <1>1, <2>4, <3>2, <3>3 DEF Due, Covers
  <2>9. Tended(k)'
    BY <1>1, <1>7, <2>3, <2>4 DEF Tended, Announced, RunTimer
  <2> QED BY <2>5, <2>6, <2>8, <2>9 DEF Well
<1>8. ASSUME Announce(k) PROVE Well(k)'
  <2>1. OneStage(k)' /\ EndsMatch(k)'
    BY <1>1, <1>8 DEF OneStage, InOrder, EndsMatch, LifeTypeOK, Announce, Goes,
       Tell, redis, memory,
       calls
  <2>2. InOrder(k)'
    BY <1>1, <1>8 DEF OneStage, InOrder, LifeTypeOK, Announce, Goes, Tell,
       redis, memory, calls
  <2>3. Due(k)'
    BY <1>1, <1>8, LifeAssumption DEF InOrder, Due, Covers, LifeTypeOK, Announce, Goes, Tell,
       redis, memory, calls
  <2>4. Tended(k)'
    BY <1>1, <1>8, LifeAssumption DEF OneStage, InOrder, EndsMatch, Tended, Announced,
       LifeTypeOK, Announce, Goes, Tell, redis, memory, calls
  <2>5. Stored(k)'
    BY <1>1, <1>8 DEF InOrder, Stored, LifeTypeOK, Announce, Goes, Tell,
       redis, memory, calls
  <2> QED BY <2>1, <2>2, <2>3, <2>4, <2>5 DEF Well
<1>9. ASSUME AnnounceFails(k) PROVE Well(k)'
  <2>1. OneStage(k)' /\ EndsMatch(k)'
    BY <1>1, <1>9 DEF OneStage, InOrder, EndsMatch, LifeTypeOK, AnnounceFails, Goes,
       Tell, Forget,
       RemoveScheduler, redis, memory, calls
  <2>2. InOrder(k)'
    BY <1>1, <1>9 DEF OneStage, InOrder, LifeTypeOK, AnnounceFails, Goes, Tell,
       Forget,
       RemoveScheduler, redis, memory, calls
  <2>3. Due(k)'
    BY <1>1, <1>9, LifeAssumption DEF InOrder, Due, Covers, LifeTypeOK, AnnounceFails, Goes,
       Tell, Forget, RemoveScheduler, redis, memory, calls
  <2>4. Tended(k)'
    BY <1>1, <1>9, LifeAssumption DEF OneStage, InOrder, EndsMatch, Tended, Announced,
       LifeTypeOK, AnnounceFails, Goes, Tell, Forget, RemoveScheduler, redis, memory, calls
  <2>5. Stored(k)'
    BY <1>1, <1>9 DEF InOrder, Stored, LifeTypeOK, AnnounceFails, Goes, Tell,
       Forget,
       RemoveScheduler, redis, memory, calls
  <2> QED BY <2>1, <2>2, <2>3, <2>4, <2>5 DEF Well
<1>10. ASSUME CloseRequest(k) PROVE Well(k)'
  <2>1. OneStage(k)' /\ EndsMatch(k)'
    BY <1>1, <1>10 DEF OneStage, InOrder, EndsMatch, LifeTypeOK, CloseRequest,
       Begins, redis,
       memory, calls
  <2>2. InOrder(k)'
    BY <1>1, <1>10 DEF OneStage, InOrder, LifeTypeOK, CloseRequest, Begins,
       redis, memory, calls
  <2>3. Due(k)'
    BY <1>1, <1>10, LifeAssumption DEF InOrder, Due, Covers, LifeTypeOK, CloseRequest, Begins,
       redis, memory, calls
  <2>4. Tended(k)'
    BY <1>1, <1>10, LifeAssumption DEF OneStage, InOrder, EndsMatch, Tended, Announced,
       LifeTypeOK, CloseRequest, Begins, redis, memory, calls
  <2>5. Stored(k)'
    BY <1>1, <1>10 DEF InOrder, Stored, LifeTypeOK, CloseRequest, Begins, redis,
       memory, calls
  <2> QED BY <2>1, <2>2, <2>3, <2>4, <2>5 DEF Well
<1>11. ASSUME CloseResult(k) PROVE Well(k)'
  <2>1. OneStage(k)' /\ EndsMatch(k)'
    BY <1>1, <1>11 DEF OneStage, InOrder, EndsMatch, LifeTypeOK, CloseResult, Goes,
       Tell, redis,
       memory, calls
  <2>2. InOrder(k)'
    BY <1>1, <1>11 DEF OneStage, InOrder, LifeTypeOK, CloseResult, Goes, Tell,
       redis, memory, calls
  <2>3. Due(k)'
    BY <1>1, <1>11, LifeAssumption DEF InOrder, Due, Covers, LifeTypeOK, CloseResult, Goes,
       Tell, redis, memory, calls
  <2>4. Tended(k)'
    BY <1>1, <1>11, LifeAssumption DEF OneStage, InOrder, EndsMatch, Tended, Announced,
       LifeTypeOK, CloseResult, Goes, Tell, redis, memory, calls
  <2>5. Stored(k)'
    BY <1>1, <1>11 DEF InOrder, Stored, LifeTypeOK, CloseResult, Goes, Tell,
       redis, memory, calls
  <2> QED BY <2>1, <2>2, <2>3, <2>4, <2>5 DEF Well
<1>12. ASSUME AfterClose(k) PROVE Well(k)'
  <2>1. OneStage(k)' /\ EndsMatch(k)'
    BY <1>1, <1>12 DEF OneStage, InOrder, EndsMatch, LifeTypeOK, AfterClose, Goes,
       Tell,
       RemoveScheduler, redis, memory, calls
  <2>2. InOrder(k)'
    BY <1>1, <1>12 DEF OneStage, InOrder, LifeTypeOK, AfterClose, Goes, Tell,
       RemoveScheduler,
       redis, memory, calls
  <2>3. Due(k)'
    BY <1>1, <1>12, LifeAssumption DEF InOrder, Due, Covers, LifeTypeOK, AfterClose, Goes, Tell,
       RemoveScheduler, redis, memory, calls
  <2>4. Tended(k)'
    BY <1>1, <1>12, LifeAssumption DEF OneStage, InOrder, EndsMatch, Tended, Announced,
       LifeTypeOK, AfterClose, Goes, Tell, RemoveScheduler, redis, memory, calls
  <2>5. Stored(k)'
    BY <1>1, <1>12 DEF InOrder, Stored, LifeTypeOK, AfterClose, Goes, Tell,
       RemoveScheduler, redis,
       memory, calls
  <2> QED BY <2>1, <2>2, <2>3, <2>4, <2>5 DEF Well
<1>13. ASSUME TimeoutResult(k) PROVE Well(k)'
  <2>1. OneStage(k)' /\ EndsMatch(k)'
    BY <1>1, <1>13 DEF OneStage, InOrder, EndsMatch, LifeTypeOK, TimeoutResult, Goes,
       redis, memory,
       calls
  <2>2. InOrder(k)'
    BY <1>1, <1>13 DEF OneStage, InOrder, LifeTypeOK, TimeoutResult, Goes,
       redis, memory, calls
  <2>3. Due(k)'
    BY <1>1, <1>13, LifeAssumption DEF InOrder, Due, Covers, LifeTypeOK, TimeoutResult, Goes,
       redis, memory, calls
  <2>4. Tended(k)'
    BY <1>1, <1>13, LifeAssumption DEF OneStage, InOrder, EndsMatch, Tended, Announced,
       LifeTypeOK, TimeoutResult, Goes, redis, memory, calls
  <2>5. Stored(k)'
    BY <1>1, <1>13 DEF InOrder, Stored, LifeTypeOK, TimeoutResult, Goes, redis,
       memory, calls
  <2> QED BY <2>1, <2>2, <2>3, <2>4, <2>5 DEF Well
<1>14. ASSUME AfterTimeout(k) PROVE Well(k)'
  <2>1. OneStage(k)' /\ EndsMatch(k)'
    BY <1>1, <1>14 DEF OneStage, InOrder, EndsMatch, LifeTypeOK, AfterTimeout, Goes,
       redis, memory,
       calls
  <2>2. InOrder(k)'
    BY <1>1, <1>14 DEF OneStage, InOrder, LifeTypeOK, AfterTimeout, Goes, redis,
       memory, calls
  <2>3. Due(k)'
    BY <1>1, <1>14, LifeAssumption DEF InOrder, Due, Covers, LifeTypeOK, AfterTimeout, Goes,
       redis, memory, calls
  <2>4. Tended(k)'
    BY <1>1, <1>14, LifeAssumption DEF OneStage, InOrder, EndsMatch, Tended, Announced,
       LifeTypeOK, AfterTimeout, Goes, redis, memory, calls
  <2>5. Stored(k)'
    BY <1>1, <1>14 DEF InOrder, Stored, LifeTypeOK, AfterTimeout, Goes, redis,
       memory, calls
  <2> QED BY <2>1, <2>2, <2>3, <2>4, <2>5 DEF Well
<1>15. ASSUME SeeEnd(k) PROVE Well(k)'
  <2>1. OneStage(k)' /\ EndsMatch(k)'
    BY <1>1, <1>15 DEF OneStage, InOrder, EndsMatch, LifeTypeOK, SeeEnd, Goes,
       Forget, redis,
       memory, calls
  <2>2. InOrder(k)'
    BY <1>1, <1>15 DEF OneStage, InOrder, LifeTypeOK, SeeEnd, Goes, Forget,
       redis, memory, calls
  <2>3. Due(k)'
    BY <1>1, <1>15, LifeAssumption DEF InOrder, Due, Covers, LifeTypeOK, SeeEnd, Goes, Forget,
       redis, memory, calls
  <2>4. Tended(k)'
    BY <1>1, <1>15, LifeAssumption DEF OneStage, InOrder, EndsMatch, Tended, Announced,
       LifeTypeOK, SeeEnd, Goes, Forget, redis, memory, calls
  <2>5. Stored(k)'
    BY <1>1, <1>15 DEF InOrder, Stored, LifeTypeOK, SeeEnd, Goes, Forget,
       redis, memory, calls
  <2> QED BY <2>1, <2>2, <2>3, <2>4, <2>5 DEF Well
<1>16. ASSUME ResumeScheduler(k) PROVE Well(k)'
  <2>1. PICK ticks : ticks = resuming[k] /\ RunScheduler(k, ticks, jobs[k])
    BY <1>16 DEF ResumeScheduler
  <2>2. ticks \in 0 .. Timeout /\ (jobs[k]) \in SUBSET Steps
    <3>1. scheduled[k] \in 0 .. Timeout \cup {None} /\ resuming[k] \in 0 .. Timeout \cup {None}
      BY DEF LifeTypeOK
    <3>2. ticks \in 0 .. Timeout
      BY <1>16, <2>1, <3>1, LifeAssumption DEF ResumeScheduler
    <3>3. (jobs[k]) \in SUBSET Steps
      BY DEF LifeTypeOK, Steps
    <3> QED BY <3>2, <3>3
  <2> DEFINE steps == jobs[k]
  <2>3. /\ steps \subseteq jobs'[k] /\ jobs'[k] \subseteq steps \cup {"timeout"}
        /\ "timeout" \in jobs'[k] => "timeout" \in steps \/ ticks = 0
        /\ "timeout" \in jobs'[k] \/ \E t \in timers' : t.call = k
        /\ \A t \in timers' :
               \/ t.call = k /\ ticks # 0 /\ t.wait + t.rest = ticks
               \/ \E s \in timers : s.call = t.call /\ s.wait = t.wait /\ s.rest = t.rest
    BY <2>1, <2>2, RunSchedulerKeeps
  <2>4. /\ UNCHANGED <<called, data, scheduled, onChain, age, told, crashes>>
        /\ resuming'[k] \in {resuming[k], None}
    BY <1>16 DEF ResumeScheduler, LifeTypeOK, redis, memory, calls
  <2>5. OneStage(k)' /\ EndsMatch(k)' /\ Stored(k)'
    BY <1>1, <1>16, <2>3, <2>4 DEF OneStage, EndsMatch, Stored, ResumeScheduler
  <2>6. InOrder(k)'
    BY <1>1, <1>16, <2>3, <2>4 DEF InOrder, OneStage, ResumeScheduler
  <2>7. /\ ticks # 0 => Covers(k, ticks)
        /\ ticks = 0 => age[k] > Timeout \/ onChain[k] \in {"closed", "timedOut"}
    BY <1>1, <1>16, <2>1, <2>2 DEF Due, Covers, Tended, InOrder, ResumeScheduler, LifeTypeOK
  <2>8. Due(k)'
    <3>1. timers \subseteq Timer /\ age[k] \in Nat
      BY LifeAssumption DEF LifeTypeOK
    <3>2. ASSUME NEW t \in timers', t.call = k PROVE Covers(k, t.wait + t.rest)
      BY <1>1, <2>3, <2>7, <3>1, <3>2 DEF Due
    <3>3. "timeout" \in jobs'[k] => age[k] > Timeout \/ onChain[k] \in {"closed", "timedOut"}
      BY <1>1, <2>3, <2>7 DEF Due
    <3> QED BY <1>1, <2>4, <3>2, <3>3 DEF Due, Covers
  <2>9. Tended(k)'
    BY <1>1, <1>16, <2>3, <2>4 DEF Tended, Announced, ResumeScheduler
  <2> QED BY <2>5, <2>6, <2>8, <2>9 DEF Well
<1> QED
  BY <1>2, <1>3, <1>4, <1>5, <1>6, <1>7, <1>8, <1>9, <1>10, <1>11, <1>12, <1>13, <1>14, <1>15,
     <1>16 DEF Acts, Step

\* A tick takes no more from a delay than it gives to the age.
LEMMA TickWell ==
    ASSUME LifeTypeOK, Tick, NEW c \in Calls, Well(c)
    PROVE  Well(c)'
<1>1. OneStage(c) /\ InOrder(c) /\ EndsMatch(c) /\ Due(c) /\ Tended(c) /\ Stored(c)
  BY DEF Well
<1>2. /\ UNCHANGED <<called, data, jobs, onChain, told, crashes>>
      /\ scheduled'[c] = Less(scheduled[c]) /\ resuming'[c] = Less(resuming[c])
      /\ age'[c] = IF age[c] = 0 \/ age[c] > Timeout THEN age[c] ELSE age[c] + 1
  BY DEF Tick, calls
<1>3. /\ scheduled[c] \in Nat \cup {None} /\ resuming[c] \in Nat \cup {None}
      /\ age[c] \in Nat /\ Timeout \in Nat
  BY LifeAssumption DEF LifeTypeOK
<1>4. ASSUME NEW t \in timers
      PROVE  /\ [t EXCEPT !.wait = Less(t.wait)].call = t.call
             /\ [t EXCEPT !.wait = Less(t.wait)].wait = Less(t.wait)
             /\ [t EXCEPT !.wait = Less(t.wait)].rest = t.rest
             /\ t.wait \in Nat /\ t.rest \in Nat
  BY LifeAssumption DEF LifeTypeOK, Timer
<1>5. /\ scheduled'[c] = None <=> scheduled[c] = None
      /\ resuming'[c] = None <=> resuming[c] = None
  BY <1>2, <1>3, LessIs
<1>6. /\ \A t \in timers' : \E s \in timers : /\ t.call = s.call /\ t.rest = s.rest
                                              /\ t.wait = Less(s.wait)
      /\ \A s \in timers : \E t \in timers' : t.call = s.call
  <2>1. timers' = {[t EXCEPT !.wait = Less(t.wait)] : t \in timers}
    BY DEF Tick
  <2>2. ASSUME NEW t \in timers'
        PROVE  \E s \in timers : t.call = s.call /\ t.rest = s.rest /\ t.wait = Less(s.wait)
    BY <1>4, <2>1
  <2>3. ASSUME NEW s \in timers PROVE \E t \in timers' : t.call = s.call
    BY <1>4, <2>1
  <2> QED BY <2>2, <2>3
<1> DEFINE StillCovers(ticks) == age'[c] > 0 /\ ticks + age'[c] > Timeout
<1>7. ASSUME NEW n \in Nat, NEW m \in Nat, Covers(c, n + m) PROVE StillCovers(Less(n) + m)
  <2>1. Less(n) \in Nat /\ Less(n) + 1 >= n
    BY LessIs
  <2> QED BY <1>2, <1>3, <1>7, <2>1 DEF Covers
<1>8. OneStage(c)' /\ EndsMatch(c)' /\ Stored(c)'
  BY <1>1, <1>2 DEF OneStage, EndsMatch, Stored
<1>9. InOrder(c)'
  BY <1>1, <1>2, <1>5, <1>6 DEF InOrder
<1>10. Due(c)'
  <2>1. ASSUME NEW n \in Nat, Covers(c, n) PROVE StillCovers(Less(n))
    <3>1. n + 0 = n /\ Less(n) + 0 = Less(n)
      BY LessIs
    <3> QED BY <1>7, <2>1, <3>1
  <2>2. scheduled'[c] # None => StillCovers(scheduled'[c])
    BY <1>1, <1>2, <1>3, <1>5, <2>1 DEF Due
  <2>3. resuming'[c] # None => StillCovers(resuming'[c])
    BY <1>1, <1>2, <1>3, <1>5, <2>1 DEF Due
  <2>4. ASSUME NEW t \in timers', t.call = c PROVE StillCovers(t.wait + t.rest)
    <3>1. PICK s \in timers : t.call = s.call /\ t.rest = s.rest /\ t.wait = Less(s.wait)
      BY <1>6
    <3>2. Covers(c, s.wait + s.rest) /\ s.wait \in Nat /\ s.rest \in Nat
      BY <1>1, <1>4, <2>4, <3>1 DEF Due
    <3> QED BY <1>7, <3>1, <3>2
  <2>5. age'[c] \in Nat /\ age'[c] >= age[c]
    BY <1>2, <1>3
  <2>6. /\ "timeout" \in jobs'[c] => age'[c] > Timeout \/ onChain'[c] \in {"closed", "timedOut"}
        /\ onChain'[c] = "timedOut" => age'[c] > Timeout
    BY <1>1, <1>2, <1>3, <2>5 DEF Due
  <2> QED BY <2>2, <2>3, <2>4, <2>6 DEF Due, Covers
<1>11. Tended(c)'
  BY <1>1, <1>2, <1>5, <1>6 DEF Tended, Announced
<1> QED
  BY <1>8, <1>9, <1>10, <1>11 DEF Well

\* A timer that ends goes on with the rest of the delay or comes to the transaction,
\* when the time has passed.
LEMMA TimerWell ==
    ASSUME LifeTypeOK, TimerFires, NEW c \in Calls, Well(c)
    PROVE  Well(c)'
<1>1. OneStage(c) /\ InOrder(c) /\ EndsMatch(c) /\ Due(c) /\ Tended(c) /\ Stored(c)
  BY DEF Well
<1>2. PICK t \in timers :
         /\ t.wait = 0
         /\ IF t.rest > 0
            THEN /\ timers' = (timers \ {t}) \cup {[Delay(t.call, t.rest) EXCEPT !.held = t.held]}
                 /\ UNCHANGED jobs
            ELSE timers' = timers \ {t} /\ Begins(t.call, "timeout")
  BY DEF TimerFires
<1>3. UNCHANGED <<called, data, scheduled, resuming, onChain, age, told, crashes>>
  BY DEF TimerFires, calls, redis
<1>4. t.call \in Calls /\ t.rest \in 0 .. Timeout /\ age[c] \in Nat
  BY LifeAssumption DEF LifeTypeOK, Timer
<1>5. CASE t.rest > 0
  <2>1. PICK s : s = [Delay(t.call, t.rest) EXCEPT !.held = t.held]
    OBVIOUS
  <2>2. s.call = t.call /\ s.wait + s.rest = t.wait + t.rest
    BY <1>2, <1>4, <2>1, DelayIsWhole DEF Timer
  <2>3. timers' = (timers \ {t}) \cup {s} /\ jobs' = jobs
    BY <1>2, <1>5, <2>1
  <2>4. OneStage(c)' /\ EndsMatch(c)' /\ Stored(c)'
    BY <1>1, <1>3, <2>3 DEF OneStage, EndsMatch, Stored
  <2>5. InOrder(c)'
    BY <1>1, <1>3, <2>2, <2>3 DEF InOrder
  <2>6. Due(c)'
    BY <1>1, <1>3, <2>2, <2>3 DEF Due, Covers
  <2>7. Tended(c)'
    BY <1>1, <1>3, <2>2, <2>3 DEF Tended, Announced
  <2> QED BY <2>4, <2>5, <2>6, <2>7 DEF Well
<1>6. CASE ~(t.rest > 0)
  <2>1. /\ timers' = timers \ {t} /\ t.wait + t.rest = 0
        /\ jobs'[c] = IF t.call = c THEN jobs[c] \cup {"timeout"} ELSE jobs[c]
    <3>1. t.rest = 0 /\ t.wait = 0
      BY <1>2, <1>4, <1>6
    <3>2. jobs'[c] = IF t.call = c THEN jobs[c] \cup {"timeout"} ELSE jobs[c]
      BY <1>2, <1>4, <1>6 DEF Begins, LifeTypeOK
    <3> QED BY <1>2, <1>6, <3>1, <3>2
  <2>2. t.call = c => c \in called /\ age[c] > Timeout
    BY <1>1, <1>4, <2>1 DEF InOrder, Due, Covers
  <2>3. OneStage(c)' /\ EndsMatch(c)' /\ Stored(c)'
    BY <1>1, <1>3, <2>1 DEF OneStage, EndsMatch, Stored, Stages
  <2>4. InOrder(c)'
    BY <1>1, <1>3, <2>1, <2>2 DEF InOrder
  <2>5. Due(c)'
    BY <1>1, <1>3, <2>1, <2>2 DEF Due, Covers
  <2>6. Tended(c)'
    BY <1>1, <1>3, <2>1 DEF Tended, Announced
  <2> QED BY <2>3, <2>4, <2>5, <2>6 DEF Well
<1> QED
  BY <1>5, <1>6

\* After a restart the schedulers are resumed from Redis, and what was kept there is
\* taken up again.
LEMMA CrashWell ==
    ASSUME LifeTypeOK, NEW again \in {{}, {"block"}}, Crash(again), NEW c \in Calls, Well(c)
    PROVE  Well(c)'
<1>1. OneStage(c) /\ InOrder(c) /\ EndsMatch(c) /\ Due(c) /\ Tended(c) /\ Stored(c)
  BY DEF Well
<1>2. /\ UNCHANGED <<called, data, scheduled, onChain, age, told>>
      /\ timers' = {} /\ resuming'[c] = scheduled[c]
      /\ jobs'[c] = Restart(jobs[c]) \cup (jobs[c] \cap again)
  BY DEF Crash, calls, redis
<1>3. crashes' # 0
  BY DEF Crash, LifeTypeOK
<1>4. OneStage(c)' /\ EndsMatch(c)' /\ Stored(c)'
  BY <1>1, <1>2, <1>3 DEF OneStage, EndsMatch, Stored, Stages, Restart
<1>5. InOrder(c)'
  BY <1>1, <1>2 DEF InOrder, Restart
<1>6. Due(c)'
  BY <1>1, <1>2 DEF Due, Covers, Restart
<1>7. Tended(c)'
  BY <1>1, <1>2 DEF Tended, Announced, Restart
<1> QED
  BY <1>4, <1>5, <1>6, <1>7 DEF Well

-----------------------------------------------------------------------------
(* Theorems.                                                               *)

\* The reference ID leads to a stored request.
LEMMA MappingStep ==
    LifeTypeOK /\ (mapping # None => mapping \in data) /\ [LifeNext]_lifeVars
       => (mapping # None => mapping \in data)'
<1> SUFFICES ASSUME LifeTypeOK, mapping # None => mapping \in data, [LifeNext]_lifeVars
             PROVE  (mapping # None => mapping \in data)'
  OBVIOUS
<1>1. CASE UNCHANGED <<mapping, data>>
  BY <1>1
<1>2. ASSUME NEW k \in Calls, Acts(k) PROVE (mapping # None => mapping \in data)'
  <2>1. CASE \E allowed \in BOOLEAN : CreateRequest(k, allowed)
    BY <2>1 DEF CreateRequest
  <2>2. CASE \E found, offering, suited : Validate(k, found, offering, suited)
    BY <2>2 DEF Validate, Forget
  <2>3. CASE TxResult(k) \/ AnnounceFails(k) \/ SeeEnd(k)
    BY <2>3 DEF TxResult, FailTx, AnnounceFails, SeeEnd, Forget
  <2>4. CASE \/ StartTx(k) \/ Schedule(k) \/ RunTimer(k) \/ Announce(k) \/ CloseRequest(k)
             \/ CloseResult(k) \/ AfterClose(k) \/ TimeoutResult(k) \/ AfterTimeout(k)
             \/ ResumeScheduler(k)
    BY <1>1, <2>4 DEF StartTx, Schedule, RunTimer, Announce,
       CloseRequest, CloseResult,
       AfterClose,
                 TimeoutResult, AfterTimeout, ResumeScheduler, redis
  <2> QED BY <1>2, <2>1, <2>2, <2>3, <2>4 DEF Acts, Step
<1>3. CASE Tick \/ TimerFires \/ (\E again : Crash(again)) \/ UNCHANGED lifeVars
  BY <1>1, <1>3 DEF Tick, TimerFires, Crash, lifeVars, redis
<1> QED
  BY <1>2, <1>3 DEF LifeNext, Acts

\* The invariant is inductive.
THEOREM LifeInvariant ==
    LifeSpec => []LifeIInv
<1>1. LifeInit => LifeIInv
  <2> SUFFICES ASSUME LifeInit PROVE LifeIInv
    OBVIOUS
  <2>1. LifeTypeOK
    BY LifeAssumption DEF LifeInit, LifeTypeOK
  <2>2. ASSUME NEW c \in Calls PROVE Well(c)
    BY DEF LifeInit, Well, OneStage, InOrder, EndsMatch, Due, Tended, Announced, Stored
  <2> QED BY <2>1, <2>2 DEF LifeIInv, LifeInit
<1>2. LifeIInv /\ [LifeNext]_lifeVars => LifeIInv'
  <2> SUFFICES ASSUME LifeIInv, [LifeNext]_lifeVars PROVE LifeIInv'
    OBVIOUS
  <2>1. LifeTypeOK /\ \A c \in Calls : Well(c)
    BY DEF LifeIInv
  <2>2. LifeTypeOK'
    BY <2>1, TypeStep
  <2>3. ASSUME NEW c \in Calls PROVE Well(c)'
    <3>1. ASSUME NEW k \in Calls, Acts(k) PROVE Well(c)'
      BY <2>1, <3>1, ActsWell, OthersAlone, AloneIsWell
    <3>2. CASE UNCHANGED lifeVars
      BY <2>1, <3>2, AloneIsWell DEF Alone, lifeVars, calls, redis, memory
    <3> QED BY <2>1, <3>1, <3>2, TickWell, TimerWell, CrashWell DEF LifeNext, Acts
  <2> QED BY <2>1, <2>2, <2>3, MappingStep DEF LifeIInv
<1>3. LifeSpec => LifeInit /\ [][LifeNext]_lifeVars
  BY DEF LifeSpec
<1> QED
  BY <1>1, <1>2, <1>3, PTL

\* The types.
THEOREM LifeTypeCorrect ==
    LifeSpec => []LifeTypeOK
BY LifeInvariant, PTL DEF LifeIInv

\* An announced and open request has its time in Redis and somebody who acts on it.
THEOREM TimeoutIsTended ==
    LifeSpec => []TimeoutTended
<1>1. LifeIInv => TimeoutTended
  BY DEF LifeIInv, Well, Tended, Announced, TimeoutTended
<1> QED
  BY <1>1, LifeInvariant, PTL

\* No request is timed out before its time.
THEOREM InTime ==
    LifeSpec => []NeverEarly
<1>1. LifeIInv => NeverEarly
  BY DEF LifeIInv, Well, Due, NeverEarly
<1> QED
  BY <1>1, LifeInvariant, PTL

\* What is stored is of a request that is being made, open or to be seen to its end.
THEOREM StorageIsCurrent ==
    LifeSpec => []StoredIsCurrent
<1>1. LifeIInv => StoredIsCurrent
  BY DEF LifeIInv, LifeTypeOK, Well, Stored, StoredIsCurrent
<1> QED
  BY <1>1, LifeInvariant, PTL

=============================================================================
