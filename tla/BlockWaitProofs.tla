--------------------------- MODULE BlockWaitProofs --------------------------
(***************************************************************************)
(* Safety of BlockWait for any messages and any chain.  The handler of a   *)
(* message and the processing of its block race for it; the strengthening  *)
(* says what each of them may still do when the other has come how far.    *)
(***************************************************************************)
EXTENDS BlockWait, TLAPS

-----------------------------------------------------------------------------
(* The inductive invariant.                                                *)

\* The ranges under way are disjoint and lie below the latest block, so that no
\* later range has their blocks; and the app hash that is compared with tells of
\* no block that is still to come.
Ranges ==
    /\ \A s \in scans : s.from <= s.to /\ s.to < latest
    /\ \A s, u \in scans : s = u \/ s.to < u.from \/ u.to < s.from
    /\ \A h \in appHash : h = 0 \/ h < latest
    /\ ~FreshStart => 0 < latest /\ 0 < saved

\* The processing of range s has message m, or may come to have it.
Sees(s, m) ==
    /\ HeightOf[m] \in s.from .. s.to
    /\ s.phase \in {"fetching", "querying"} \/ m \in s.ids

\* Somebody has taken the message.
Taken(m) == processed[m] > 0 \/ \E t \in tasks : t.message = m

\* The handler: it holds the lock while it saves and takes back the message, and
\* takes it up only when its block is final.
HandlerInv(m) ==
    /\ stage[m] \in {"saving", "saved", "removing"} => m \in lock
    /\ m \in stored => stage[m] \in {"saved", "removing", "over"} /\ m \notin raw
    /\ stage[m] \in {"removing", "adding"} => HeightOf[m] < latest

\* The scans: one that got past the lock has a message that its handler has done
\* with, or is about to take up, having removed it.
ScanInv(m) ==
    \A s \in scans : m \in s.ids =>
        /\ HeightOf[m] \in s.from .. s.to
        /\ s.phase \in {"checking", "getting", "adding"}
        /\ stage[m] \in {"saved", "removing", "adding", "over"}
        /\ s.phase = "getting" => stage[m] \in {"adding", "over"}
        /\ s.phase = "adding" => stage[m] = "over"

\* A message that was taken is out of reach of the handler and of all scans.
TakenInv(m) ==
    Taken(m) =>
        /\ stage[m] = "over" /\ HeightOf[m] < latest
        /\ \/ m \notin stored /\ \A s \in scans : m \in s.ids => s.phase # "adding"
           \/ \A s \in scans : ~Sees(s, m)

TaskInv(m) ==
    /\ \A t, u \in tasks : t.message = m /\ u.message = m => t = u
    /\ \A t \in tasks : t.message = m =>
           /\ processed[m] = IF t.phase = "queued" THEN 0 ELSE 1
           /\ t.by = 0 => m \notin stored
    /\ processed[m] <= 1

MessageInv == \A m \in Messages : HandlerInv(m) /\ ScanInv(m) /\ TakenInv(m) /\ TaskInv(m)

IInv == TypeOK /\ Ranges /\ MessageInv /\ (~FreshStart => NoneForgotten)

-----------------------------------------------------------------------------
(* The initial states, and the records that the steps change.              *)

LEMMA InitIInv == Init => IInv
<1> SUFFICES ASSUME Init PROVE IInv
  OBVIOUS
<1>1. TypeOK
  BY ConstantsAssumption DEF Init, TypeOK, Heights, NoHash, Stages
<1>2. Ranges
  BY ConstantsAssumption DEF Init, Ranges, NoHash
<1>3. MessageInv
  BY DEF Init, MessageInv, HandlerInv, ScanInv, TakenInv, TaskInv, Taken
<1>4. NoneForgotten
  BY DEF Init, NoneForgotten
<1> QED
  BY <1>1, <1>2, <1>3, <1>4 DEF IInv

\* A scan that moves on keeps its range.
LEMMA MovedScan ==
    ASSUME TypeOK, NEW s \in scans, NEW phase \in {"querying", "checking", "getting", "adding"},
           NEW ids \in SUBSET Messages, Moves(s, phase, ids)
    PROVE  \E n \in Scan : /\ scans' = (scans \ {s}) \cup {n}
                           /\ n.from = s.from /\ n.to = s.to /\ n.phase = phase /\ n.ids = ids
<1> DEFINE n == [s EXCEPT !.phase = phase, !.ids = ids]
<1>1. s \in Scan
  BY DEF TypeOK
<1>2. n \in Scan /\ n.from = s.from /\ n.to = s.to /\ n.phase = phase /\ n.ids = ids
  BY <1>1 DEF Scan
<1> QED
  BY <1>2 DEF Moves

\* What is known of the parts of a scan, a task and a message.
LEMMA Parts ==
    ASSUME TypeOK
    PROVE  /\ \A s \in scans : /\ s.from \in Nat \ {0} /\ s.to \in Nat /\ s.ids \subseteq Messages
                               /\ s.from \in Heights /\ s.to \in Heights
           /\ \A t \in tasks : t.message \in Messages /\ t.by \in 0 .. MaxHeight
           /\ \A m \in Messages : HeightOf[m] \in Nat \ {0}
           /\ chain \in Nat /\ latest \in Nat /\ saved \in Nat /\ failures \in Nat /\ crashes \in Nat
BY ConstantsAssumption DEF TypeOK, Scan, Task, Heights

\* The ranges stay disjoint and low when a scan moves on or ends.
LEMMA RangesKept ==
    ASSUME TypeOK, Ranges, UNCHANGED <<latest, saved, appHash>>,
           NEW s \in scans, NEW n, n.from = s.from, n.to = s.to,
           scans' \subseteq (scans \ {s}) \cup {n}
    PROVE  Ranges'
<1>1. \A u \in scans' : /\ u.from <= u.to /\ u.to < latest
  BY DEF Ranges
<1>2. \A u, v \in scans' : u = v \/ u.to < v.from \/ v.to < u.from
  BY DEF Ranges
<1> QED
  BY <1>1, <1>2 DEF Ranges

-----------------------------------------------------------------------------
(* The chain and the blocks.                                               *)

LEMMA BlockStep ==
    ASSUME IInv, NEW h \in Heights, ProcessNewBlock(h)
    PROVE  IInv'
<1> USE Parts, ConstantsAssumption DEF IInv
<1>1. /\ h <= chain /\ latest < h /\ latest' = h /\ h \in Nat
      /\ UNCHANGED <<chain, messages, failures, crashes>>
      /\ UNCHANGED <<stage, raw, stored, lock, tasks, processed>>
  BY DEF ProcessNewBlock, messages, Heights
<1> DEFINE n == NewScan(h)
<1>2. \/ /\ latest # 0 /\ appHash # AppHash(h) /\ scans' = scans \cup {n}
         /\ UNCHANGED <<saved, appHash>>
      \/ /\ latest = 0 \/ appHash = AppHash(h)
         /\ appHash' = AppHash(h) /\ saved' = Larger(saved, h) /\ scans' = scans
  BY DEF ProcessNewBlock
<1>3. n.from = latest /\ n.to = h - 1 /\ n.ids = {} /\ n.phase = "fetching"
  BY DEF NewScan
<1>4. AppHash(h) \subseteq 0 .. MaxHeight /\ \A x \in AppHash(h) : x < h
  BY <1>1 DEF AppHash, Heights
<1>5. Larger(saved, h) \in 0 .. chain /\ 0 < Larger(saved, h)
  BY <1>1 DEF Larger, TypeOK
<1>6. latest # 0 => n \in Scan
  <2> SUFFICES ASSUME latest # 0 PROVE n \in Scan
    OBVIOUS
  <2>1. latest \in Heights /\ h - 1 \in Heights
    BY <1>1 DEF TypeOK, Heights
  <2> QED
    BY <2>1 DEF NewScan, Scan
<1>7. TypeOK'
  <2> HIDE DEF n
  <2>1. TypeOK /\ scans \subseteq Scan /\ appHash \subseteq 0 .. MaxHeight
    BY DEF TypeOK
  <2>2. scans' \subseteq Scan /\ appHash' \subseteq 0 .. MaxHeight
    BY <2>1, <1>2, <1>4, <1>6
  <2>3. saved' \in 0 .. chain' /\ latest' \in 0 .. chain'
    BY <2>1, <1>1, <1>2, <1>5 DEF TypeOK
  <2> QED
    BY <2>1, <2>2, <2>3, <1>1 DEF TypeOK
<1>8. Ranges'
  <2> HIDE DEF n
  <2>1. \A s \in scans' : s.from <= s.to /\ s.to < latest'
    BY <1>1, <1>2, <1>3 DEF Ranges
  <2>2. \A s, u \in scans' : s = u \/ s.to < u.from \/ u.to < s.from
    BY <1>1, <1>2, <1>3 DEF Ranges
  <2>3. \A x \in appHash' : x = 0 \/ x < latest'
    <3>1. appHash \subseteq 0 .. MaxHeight /\ latest \in Nat
      BY DEF TypeOK
    <3>2. \A x \in appHash : x = 0 \/ x < h
      BY <3>1, <1>1 DEF Ranges
    <3>3. appHash' = appHash \/ appHash' = AppHash(h)
      BY <1>2
    <3> QED
      BY <3>2, <3>3, <1>1, <1>4
  <2>4. ~FreshStart => 0 < latest' /\ 0 < saved'
    BY <1>1, <1>2, <1>5 DEF Ranges
  <2> QED
    BY <2>1, <2>2, <2>3, <2>4 DEF Ranges
<1>9. MessageInv'
  <2> SUFFICES ASSUME NEW m \in Messages
               PROVE  (HandlerInv(m) /\ ScanInv(m) /\ TakenInv(m) /\ TaskInv(m))'
    BY DEF MessageInv
  <2> HIDE DEF n
  <2>1. HandlerInv(m) /\ ScanInv(m) /\ TakenInv(m) /\ TaskInv(m)
    BY DEF MessageInv
  <2>2. HandlerInv(m)' /\ TaskInv(m)'
    BY <2>1, <1>1 DEF HandlerInv, TaskInv
  <2>3. ScanInv(m)'
    BY <2>1, <1>1, <1>2, <1>3 DEF ScanInv
  <2>4. TakenInv(m)'
    BY <2>1, <1>1, <1>2, <1>3 DEF TakenInv, Taken, Sees
  <2> QED
    BY <2>2, <2>3, <2>4
<1>10. ASSUME ~FreshStart PROVE NoneForgotten'
  <2> SUFFICES ASSUME NEW m \in stored \ lock, HeightOf[m] < h, failures = 0, crashes = 0
               PROVE  \/ \E t \in tasks : t.message = m
                      \/ \E s \in scans' : Sees(s, m)
    BY <1>1 DEF NoneForgotten, Sees
  <2>0. m \in Messages
    BY DEF TypeOK
  <2> HIDE DEF n
  <2>1. CASE HeightOf[m] < latest
    <3>1. \/ \E t \in tasks : t.message = m
          \/ \E s \in scans : Sees(s, m)
      BY <1>10, <2>1 DEF NoneForgotten, Sees
    <3> QED
      BY <3>1, <1>2
  <2>2. CASE latest <= HeightOf[m]
    <3>1. HeightOf[m] \in AppHash(h) /\ HeightOf[m] \notin appHash
      BY <2>0, <2>2, <1>1 DEF AppHash, Ranges
    <3>2. scans' = scans \cup {n}
      BY <3>1, <1>2, <1>10 DEF Ranges
    <3>3. Sees(n, m)
      BY <2>0, <2>2, <1>1, <1>3 DEF Sees
    <3> QED
      BY <3>2, <3>3
  <2> QED
    BY <2>0, <2>1, <2>2
<1> QED
  BY <1>7, <1>8, <1>9, <1>10

LEMMA ChainStep == ASSUME IInv, ChainGrows PROVE IInv'
<1>1. /\ chain' = chain + 1 /\ chain < MaxHeight
      /\ UNCHANGED <<latest, saved, appHash, scans>>
      /\ UNCHANGED <<stage, raw, stored, lock, tasks, processed, failures, crashes>>
  BY DEF ChainGrows, blocks, messages
<1>2. TypeOK'
  BY <1>1, ConstantsAssumption DEF IInv, TypeOK, Heights
<1>3. Ranges'
  BY <1>1 DEF IInv, Ranges
<1>4. MessageInv'
  BY <1>1 DEF IInv, MessageInv, HandlerInv, ScanInv, TakenInv, TaskInv, Taken, Sees
<1>5. NoneForgotten => NoneForgotten'
  BY <1>1 DEF NoneForgotten
<1> QED
  BY <1>2, <1>3, <1>4, <1>5 DEF IInv

LEMMA StutterStep == ASSUME IInv, UNCHANGED vars PROVE IInv'
<1>1. /\ UNCHANGED <<chain, latest, saved, appHash, scans>>
      /\ UNCHANGED <<stage, raw, stored, lock, tasks, processed, failures, crashes>>
  BY DEF vars, blocks, messages
<1>2. TypeOK'
  BY <1>1 DEF IInv, TypeOK
<1>3. Ranges'
  BY <1>1 DEF IInv, Ranges
<1>4. MessageInv'
  BY <1>1 DEF IInv, MessageInv, HandlerInv, ScanInv, TakenInv, TaskInv, Taken, Sees
<1>5. NoneForgotten => NoneForgotten'
  BY <1>1 DEF NoneForgotten
<1> QED
  BY <1>2, <1>3, <1>4, <1>5 DEF IInv

-----------------------------------------------------------------------------
(* The steps of a scan.                                                    *)

\* A scan moves on: it sees no message that it did not see, and drops none that
\* waits unlocked.
LEMMA ScanMoves ==
    ASSUME IInv, NEW s \in scans, NEW phase \in {"querying", "checking", "getting", "adding"},
           NEW ids \in SUBSET Messages, Moves(s, phase, ids),
           UNCHANGED <<chain, latest, saved, appHash, messages, failures, crashes>>,
           \A m \in ids :
               /\ HeightOf[m] \in s.from .. s.to /\ phase # "querying"
               /\ stage[m] \in {"saved", "removing", "adding", "over"}
               /\ phase = "getting" => stage[m] \in {"adding", "over"}
               /\ phase = "adding" => stage[m] = "over" /\ m \in stored /\ m \in s.ids,
           \A m \in Messages : phase = "querying" \/ m \in ids =>
               s.phase \in {"fetching", "querying"} \/ m \in s.ids,
           \A m \in stored \ lock : Sees(s, m) => phase = "querying" \/ m \in ids
    PROVE  IInv'
<1> TypeOK /\ Ranges /\ MessageInv
  BY DEF IInv
<1>1. PICK n \in Scan : /\ scans' = (scans \ {s}) \cup {n}
                        /\ n.from = s.from /\ n.to = s.to /\ n.phase = phase /\ n.ids = ids
  BY MovedScan
<1>2. UNCHANGED <<stage, raw, stored, lock, tasks, processed>>
  BY DEF messages
<1>3. TypeOK'
  BY <1>1, <1>2 DEF TypeOK
<1>4. Ranges'
  BY <1>1, RangesKept
<1>5. ASSUME NEW m \in Messages
      PROVE  (HandlerInv(m) /\ ScanInv(m) /\ TakenInv(m) /\ TaskInv(m))'
  <2>1. HandlerInv(m) /\ ScanInv(m) /\ TakenInv(m) /\ TaskInv(m)
    BY DEF MessageInv
  <2>2. HandlerInv(m)' /\ TaskInv(m)'
    BY <2>1, <1>2 DEF HandlerInv, TaskInv
  <2>3. ScanInv(m)'
    BY <2>1, <1>1, <1>2 DEF ScanInv
  <2>4. Sees(n, m) => Sees(s, m)
    BY <1>1 DEF Sees
  <2>5. TakenInv(m)'
    <3> SUFFICES ASSUME Taken(m)
                 PROVE  \/ m \notin stored /\ \A u \in scans' : m \in u.ids => u.phase # "adding"
                        \/ \A u \in scans' : ~Sees(u, m)
      BY <2>1, <1>2 DEF TakenInv, Taken, Sees
    <3>1. CASE m \notin stored /\ \A u \in scans : m \in u.ids => u.phase # "adding"
      BY <3>1, <1>1
    <3>2. CASE \A u \in scans : ~Sees(u, m)
      BY <3>2, <2>4, <1>1
    <3> QED
      BY <3>1, <3>2, <2>1 DEF TakenInv
  <2> QED
    BY <2>2, <2>3, <2>5
<1>6. ASSUME NoneForgotten PROVE NoneForgotten'
  <2> SUFFICES ASSUME NEW m \in stored \ lock, HeightOf[m] < latest, failures = 0, crashes = 0,
                      ~\E t \in tasks : t.message = m
               PROVE  \E u \in scans' : Sees(u, m)
    BY <1>2 DEF NoneForgotten, Sees
  <2>1. PICK u \in scans : Sees(u, m)
    BY <1>6 DEF NoneForgotten, Sees
  <2>2. CASE u = s
    BY <2>1, <2>2, <1>1 DEF Sees
  <2>3. CASE u # s
    BY <2>1, <2>3, <1>1
  <2> QED
    BY <2>2, <2>3
<1> QED
  BY <1>3, <1>4, <1>5, <1>6 DEF IInv, MessageInv

\* A scan ends, the block processed or not; it sees no waiting message any more,
\* or a call has failed.
LEMMA ScanEnds ==
    ASSUME IInv, NEW s \in scans, scans' = scans \ {s},
           \/ UNCHANGED <<saved, appHash>>
           \/ saved' = Larger(saved, s.to + 1) /\ appHash' = AppHash(s.to + 1),
           UNCHANGED <<chain, latest, messages, crashes>>,
           failures' \in 0 .. MaxFailures,
           failures' # 0 \/ (failures' = failures /\ \A m \in Messages : ~Sees(s, m))
    PROVE  IInv'
<1> TypeOK /\ Ranges /\ MessageInv
  BY DEF IInv
<1>1. UNCHANGED <<stage, raw, stored, lock, tasks, processed>>
  BY DEF messages
<1>2. s.to \in Nat /\ s.to < latest /\ latest \in Nat /\ chain \in Nat /\ saved \in Nat
  BY Parts DEF Ranges
<1>3. /\ AppHash(s.to + 1) \subseteq 0 .. MaxHeight
      /\ \A h \in AppHash(s.to + 1) : h < latest
  BY <1>2, ConstantsAssumption DEF AppHash, Heights
<1>4. saved' \in 0 .. chain /\ (0 < saved => 0 < saved')
  BY <1>2 DEF Larger, TypeOK
<1>5. TypeOK'
  BY <1>1, <1>3, <1>4 DEF TypeOK
<1>6. Ranges'
  BY <1>3, <1>4 DEF Ranges
<1>7. MessageInv'
  BY <1>1 DEF MessageInv, HandlerInv, ScanInv, TakenInv, TaskInv, Taken, Sees
<1>8. ASSUME NoneForgotten PROVE NoneForgotten'
  <2> SUFFICES ASSUME NEW m \in stored \ lock, HeightOf[m] < latest, failures' = 0, crashes = 0,
                      ~\E t \in tasks : t.message = m
               PROVE  \E u \in scans' : Sees(u, m)
    BY <1>1 DEF NoneForgotten, Sees
  <2>1. m \in Messages /\ failures = 0
    BY DEF TypeOK
  <2>2. PICK u \in scans : Sees(u, m)
    BY <1>8, <2>1 DEF NoneForgotten, Sees
  <2> QED
    BY <2>1, <2>2
<1> QED
  BY <1>5, <1>6, <1>7, <1>8 DEF IInv

\* A scan queues a message: nobody took it before, and no scan sees it after.
LEMMA ScanAdds == ASSUME IInv, NEW s \in scans, ScanAddsTask(s) PROVE IInv'
<1> TypeOK /\ Ranges /\ MessageInv
  BY DEF IInv
<1>1. PICK q \in s.ids :
          /\ Moves(s, "adding", s.ids \ {q})
          /\ tasks' = tasks \cup {[message |-> q, by |-> s.from, phase |-> "queued"]}
  BY DEF ScanAddsTask
<1>2. /\ s.phase = "adding" /\ s.ids \subseteq Messages /\ q \in Messages
      /\ UNCHANGED <<chain, latest, saved, appHash, stage, raw, stored, lock, processed>>
      /\ UNCHANGED <<failures, crashes>>
  BY Parts DEF ScanAddsTask
<1>3. PICK n \in Scan : /\ scans' = (scans \ {s}) \cup {n}
                        /\ n.from = s.from /\ n.to = s.to /\ n.phase = "adding"
                        /\ n.ids = s.ids \ {q}
  BY <1>1, <1>2, MovedScan
<1> DEFINE t == [message |-> q, by |-> s.from, phase |-> "queued"]
<1>4. t \in Task /\ t.message = q /\ t.by # 0 /\ t.phase = "queued" /\ tasks' = tasks \cup {t}
  BY <1>1, <1>2, Parts DEF Task, Heights
<1> HIDE DEF t
<1>5. HeightOf[q] \in s.from .. s.to /\ HeightOf[q] < latest /\ stage[q] = "over"
  <2>1. HeightOf[q] \in s.from .. s.to /\ stage[q] = "over"
    BY <1>2 DEF MessageInv, ScanInv
  <2> QED
    BY <2>1, <1>2, Parts DEF Ranges
<1>6. ~Taken(q)
  <2>1. Sees(s, q)
    BY <1>5 DEF Sees
  <2> QED
    BY <2>1, <1>2 DEF MessageInv, TakenInv
<1>7. \A u \in scans' : ~Sees(u, q)
  <2> SUFFICES ASSUME NEW u \in scans', Sees(u, q) PROVE FALSE
    OBVIOUS
  <2>1. CASE u = n
    BY <2>1, <1>3 DEF Sees
  <2>2. CASE u \in scans /\ u # s
    BY <2>2, <1>2, <1>5, Parts DEF Ranges, Sees
  <2> QED
    BY <2>1, <2>2, <1>3
<1>8. TypeOK'
  BY <1>2, <1>3, <1>4 DEF TypeOK
<1>9. Ranges'
  BY <1>2, <1>3, RangesKept
<1>10. ASSUME NEW m \in Messages
       PROVE  (HandlerInv(m) /\ ScanInv(m) /\ TakenInv(m) /\ TaskInv(m))'
  <2>1. HandlerInv(m) /\ ScanInv(m) /\ TakenInv(m) /\ TaskInv(m)
    BY DEF MessageInv
  <2>2. HandlerInv(m)'
    BY <2>1, <1>2 DEF HandlerInv
  <2>3. ScanInv(m)'
    BY <2>1, <1>2, <1>3 DEF ScanInv
  <2>4. CASE m = q
    <3>1. TakenInv(m)'
      BY <2>4, <1>2, <1>5, <1>7 DEF TakenInv, Sees
    <3>2. processed[m] = 0
      BY <1>6, <2>4 DEF Taken, TypeOK
    <3>3. TaskInv(m)'
      BY <3>2, <2>4, <1>2, <1>4, <1>6 DEF TaskInv, Taken
    <3> QED
      BY <2>2, <2>3, <3>1, <3>3
  <2>5. CASE m # q
    <3>1. Taken(m)' <=> Taken(m)
      BY <2>5, <1>2, <1>4 DEF Taken
    <3>2. Sees(n, m) => Sees(s, m)
      BY <1>2, <1>3 DEF Sees
    <3>3. TakenInv(m)'
      <4> SUFFICES ASSUME Taken(m)
                   PROVE  \/ m \notin stored /\ \A u \in scans' : m \in u.ids => u.phase # "adding"
                          \/ \A u \in scans' : ~Sees(u, m)
        BY <2>1, <3>1, <1>2 DEF TakenInv, Sees
      <4>1. CASE m \notin stored /\ \A u \in scans : m \in u.ids => u.phase # "adding"
        BY <4>1, <1>2, <1>3
      <4>2. CASE \A u \in scans : ~Sees(u, m)
        BY <4>2, <3>2, <1>3
      <4> QED
        BY <4>1, <4>2, <2>1 DEF TakenInv
    <3>4. TaskInv(m)'
      BY <2>1, <2>5, <1>2, <1>4 DEF TaskInv
    <3> QED
      BY <2>2, <2>3, <3>3, <3>4
  <2> QED
    BY <2>4, <2>5
<1>11. ASSUME NoneForgotten PROVE NoneForgotten'
  <2> SUFFICES ASSUME NEW m \in stored \ lock, HeightOf[m] < latest, failures = 0, crashes = 0,
                      ~\E u \in tasks' : u.message = m
               PROVE  \E u \in scans' : Sees(u, m)
    BY <1>2 DEF NoneForgotten, Sees
  <2>1. m # q /\ ~\E u \in tasks : u.message = m
    BY <1>4
  <2>2. PICK u \in scans : Sees(u, m)
    BY <2>1, <1>11 DEF NoneForgotten, Sees
  <2>3. CASE u = s
    BY <2>1, <2>2, <2>3, <1>2, <1>3 DEF Sees
  <2>4. CASE u # s
    BY <2>2, <2>4, <1>3
  <2> QED
    BY <2>3, <2>4
<1> QED
  BY <1>8, <1>9, <1>10, <1>11 DEF IInv, MessageInv

LEMMA ScanSteps ==
    ASSUME IInv, NEW s \in scans, ScanStep(s) \/ FetchFails(s) \/ ScanFails(s)
    PROVE  IInv'
<1> TypeOK /\ Ranges /\ MessageInv
  BY DEF IInv
<1>0. s.ids \subseteq Messages /\ stored \subseteq Messages /\ failures \in 0 .. MaxFailures
  BY Parts DEF TypeOK
<1>1. \A m \in s.ids :
          /\ HeightOf[m] \in s.from .. s.to
          /\ s.phase \in {"checking", "getting", "adding"}
          /\ stage[m] \in {"saved", "removing", "adding", "over"}
          /\ s.phase = "getting" => stage[m] \in {"adding", "over"}
          /\ s.phase = "adding" => stage[m] = "over"
  BY <1>0 DEF MessageInv, ScanInv
<1>2. \A m \in Messages :
          /\ stage[m] \in {"saving", "saved", "removing"} => m \in lock
          /\ m \in stored => stage[m] \in {"saved", "removing", "over"}
  BY DEF MessageInv, HandlerInv
<1>3. CASE BlocksFetched(s)
  <2>1. Moves(s, "querying", {}) /\ s.phase = "fetching"
    BY <1>3 DEF BlocksFetched
  <2>2. UNCHANGED <<chain, latest, saved, appHash, messages, failures, crashes>>
    BY <1>3 DEF BlocksFetched
  <2> QED
    BY <2>1, <2>2, ScanMoves
<1>4. CASE IdsRead(s)
  <2> DEFINE ids == {m \in stored : HeightOf[m] \in s.from .. s.to}
  <2>1. Moves(s, "checking", ids) /\ s.phase = "querying" /\ ids \in SUBSET Messages
    BY <1>4, <1>0 DEF IdsRead
  <2>2. UNCHANGED <<chain, latest, saved, appHash, messages, failures, crashes>>
    BY <1>4 DEF IdsRead
  <2>3. \A m \in stored \ lock : Sees(s, m) => m \in ids
    BY DEF Sees
  <2>4. \A m \in ids : /\ HeightOf[m] \in s.from .. s.to
                       /\ stage[m] \in {"saved", "removing", "adding", "over"}
    BY <1>0, <1>2
  <2> HIDE DEF ids
  <2> QED
    BY <2>1, <2>2, <2>3, <2>4, ScanMoves
<1>5. CASE SkipLocked(s)
  <2> DEFINE ids == s.ids \ lock
  <2>1. Moves(s, "getting", ids) /\ s.phase = "checking" /\ ids \in SUBSET Messages
    BY <1>5, <1>0 DEF SkipLocked
  <2>2. UNCHANGED <<chain, latest, saved, appHash, messages, failures, crashes>>
    BY <1>5 DEF SkipLocked
  <2>3. \A m \in stored \ lock : Sees(s, m) => m \in ids
    BY <2>1 DEF Sees
  <2>4. \A m \in ids : /\ HeightOf[m] \in s.from .. s.to /\ m \in s.ids
                       /\ stage[m] \in {"adding", "over"}
    BY <1>0, <1>1, <1>2
  <2> HIDE DEF ids
  <2> QED
    BY <2>1, <2>2, <2>3, <2>4, ScanMoves
<1>6. CASE MessagesRead(s)
  <2> DEFINE ids == s.ids \cap stored
  <2>1. Moves(s, "adding", ids) /\ s.phase = "getting" /\ ids \in SUBSET Messages
    BY <1>6, <1>0 DEF MessagesRead
  <2>2. UNCHANGED <<chain, latest, saved, appHash, messages, failures, crashes>>
    BY <1>6 DEF MessagesRead
  <2>3. \A m \in stored \ lock : Sees(s, m) => m \in ids
    BY <2>1 DEF Sees
  <2>4. \A m \in ids : /\ HeightOf[m] \in s.from .. s.to /\ m \in s.ids /\ m \in stored
                       /\ stage[m] = "over"
    BY <2>1, <1>0, <1>1, <1>2
  <2> HIDE DEF ids
  <2> QED
    BY <2>1, <2>2, <2>3, <2>4, ScanMoves
<1>7. CASE ScanAddsTask(s)
  BY <1>7, ScanAdds
<1>8. CASE ScanDone(s)
  <2>1. s.phase = "adding" /\ s.ids = {} /\ BlockProcessed(s)
    BY <1>8 DEF ScanDone
  <2>2. UNCHANGED <<chain, latest, messages, failures, crashes>>
    BY <1>8 DEF ScanDone
  <2>3. \A m \in Messages : ~Sees(s, m)
    BY <2>1 DEF Sees
  <2> QED
    BY <1>0, <2>1, <2>2, <2>3, ScanEnds DEF BlockProcessed
<1>9. CASE FetchFails(s)
  <2>1. failures' = failures + 1 /\ failures < MaxFailures /\ scans' = scans \ {s}
    BY <1>9 DEF FetchFails
  <2>2. UNCHANGED <<chain, latest, saved, appHash, messages, crashes>>
    BY <1>9 DEF FetchFails
  <2>3. failures' \in 0 .. MaxFailures /\ failures' # 0
    BY <1>0, <2>1, ConstantsAssumption
  <2> QED
    BY <2>1, <2>2, <2>3, ScanEnds
<1>10. CASE ScanFails(s)
  <2>1. failures' = failures + 1 /\ failures < MaxFailures /\ BlockProcessed(s)
    BY <1>10 DEF ScanFails
  <2>2. UNCHANGED <<chain, latest, messages, crashes>>
    BY <1>10 DEF ScanFails
  <2>3. failures' \in 0 .. MaxFailures /\ failures' # 0
    BY <1>0, <2>1, ConstantsAssumption
  <2> QED
    BY <2>1, <2>2, <2>3, ScanEnds DEF BlockProcessed
<1> QED
  BY <1>3, <1>4, <1>5, <1>6, <1>7, <1>8, <1>9, <1>10 DEF ScanStep

-----------------------------------------------------------------------------
(* The steps of a handler and of a task: one message is concerned.         *)

MessageParts(m) == HandlerInv(m) /\ ScanInv(m) /\ TakenInv(m) /\ TaskInv(m)

\* What holds of a message still holds when the step is about another one.
LEMMA Untouched ==
    ASSUME NEW m \in Messages, MessageParts(m), UNCHANGED <<latest, scans>>,
           stage'[m] = stage[m], processed'[m] = processed[m],
           m \in raw' <=> m \in raw, m \in stored' <=> m \in stored, m \in lock' <=> m \in lock,
           {t \in tasks' : t.message = m} = {t \in tasks : t.message = m}
    PROVE  MessageParts(m)'
<1>1. HandlerInv(m)' /\ ScanInv(m)'
  BY DEF MessageParts, HandlerInv, ScanInv
<1>2. \A t : t \in tasks' /\ t.message = m <=> t \in tasks /\ t.message = m
  OBVIOUS
<1>3. TaskInv(m)'
  BY <1>2 DEF MessageParts, TaskInv
<1>4. Taken(m)' <=> Taken(m)
  BY <1>2 DEF Taken
<1>5. TakenInv(m)'
  BY <1>4 DEF MessageParts, TakenInv, Sees
<1> QED
  BY <1>1, <1>3, <1>5 DEF MessageParts

\* A step about one message keeps the invariant if it keeps what holds of that
\* message, and leaves it to somebody when it leaves it waiting.
LEMMA OneMessage ==
    ASSUME IInv, NEW q \in Messages, TypeOK', MessageParts(q)',
           UNCHANGED <<blocks, failures, crashes>>,
           \A m \in Messages \ {q} :
               /\ stage'[m] = stage[m] /\ processed'[m] = processed[m]
               /\ m \in raw' <=> m \in raw
               /\ m \in stored' <=> m \in stored
               /\ m \in lock' <=> m \in lock
               /\ {t \in tasks' : t.message = m} = {t \in tasks : t.message = m},
           HeightOf[q] < latest /\ q \in stored' \ lock' =>
               \/ \E t \in tasks' : t.message = q
               \/ q \in stored \ lock /\ ~\E t \in tasks : t.message = q
    PROVE  IInv'
<1>1. UNCHANGED <<latest, saved, appHash, scans>>
  BY DEF blocks
<1>2. Ranges'
  BY <1>1 DEF IInv, Ranges
<1>3. ASSUME NEW m \in Messages \ {q} PROVE MessageParts(m)'
  <2>1. MessageParts(m)
    BY DEF IInv, MessageInv, MessageParts
  <2> QED
    BY <2>1, <1>1, Untouched
<1>4. MessageInv'
  BY <1>3 DEF MessageInv, MessageParts
<1>5. ASSUME NoneForgotten PROVE NoneForgotten'
  <2> SUFFICES ASSUME NEW m \in stored' \ lock', HeightOf[m] < latest, failures = 0, crashes = 0,
                      ~\E t \in tasks' : t.message = m
               PROVE  \E u \in scans : Sees(u, m)
    BY <1>1 DEF NoneForgotten, Sees
  <2>1. m \in Messages
    BY DEF TypeOK
  <2>2. m \in stored \ lock /\ ~\E t \in tasks : t.message = m
    <3>1. CASE m = q
      BY <3>1
    <3>2. CASE m # q
      <4>1. {t \in tasks' : t.message = m} = {t \in tasks : t.message = m}
        BY <2>1, <3>2
      <4>2. ~\E t \in tasks : t.message = m
        BY <4>1
      <4> QED
        BY <2>1, <3>2, <4>2
    <3> QED
      BY <3>1, <3>2
  <2> QED
    BY <2>2, <1>5 DEF NoneForgotten, Sees
<1> QED
  BY <1>2, <1>4, <1>5 DEF IInv

LEMMA HandlerSteps ==
    ASSUME IInv, NEW q \in Messages, Receive(q) \/ HandlerStep(q)
    PROVE  IInv'
<1> TypeOK /\ Ranges /\ HandlerInv(q) /\ ScanInv(q) /\ TakenInv(q) /\ TaskInv(q)
  BY DEF IInv, MessageInv
<1>0. stage \in [Messages -> Stages] /\ latest \in Nat /\ HeightOf[q] \in Nat
  BY Parts DEF TypeOK
<1>1. CASE Receive(q)
  <2>1. /\ stage[q] = "unsent" /\ stage' = [stage EXCEPT ![q] = "received"]
        /\ raw' = raw \cup {q}
        /\ UNCHANGED <<chain, blocks, stored, lock, tasks, processed, failures, crashes>>
    BY <1>1 DEF Receive
  <2>2. TypeOK'
    BY <2>1 DEF TypeOK, Stages, blocks
  <2>3. MessageParts(q)'
    BY <2>1, <1>0 DEF MessageParts, HandlerInv, ScanInv, TakenInv, TaskInv, Taken, Sees, blocks
  <2> QED
    BY <2>1, <2>2, <2>3, OneMessage, <1>0
<1>2. CASE HandleMessage(q)
  <2>1. /\ stage[q] = "received"
        /\ \/ stage' = [stage EXCEPT ![q] = "saving"] /\ lock' = lock \cup {q}
           \/ /\ stage' = [stage EXCEPT ![q] = "adding"] /\ lock' = lock
              /\ HeightOf[q] < latest
        /\ UNCHANGED <<chain, blocks, raw, stored, tasks, processed, failures, crashes>>
    BY <1>0, <1>2 DEF HandleMessage, TooEarly
  <2>2. TypeOK'
    BY <2>1 DEF TypeOK, Stages, blocks
  <2>3. MessageParts(q)'
    BY <2>1, <1>0 DEF MessageParts, HandlerInv, ScanInv, TakenInv, TaskInv, Taken, Sees, blocks
  <2> QED
    BY <2>1, <2>2, <2>3, OneMessage, <1>0
<1>3. CASE RawRemoved(q)
  <2>1. /\ raw' = raw \ {q}
        /\ UNCHANGED <<chain, blocks, stage, stored, lock, tasks, processed, failures, crashes>>
    BY <1>3 DEF RawRemoved
  <2>2. TypeOK'
    BY <2>1 DEF TypeOK, blocks
  <2>3. MessageParts(q)'
    BY <2>1, <1>0 DEF MessageParts, HandlerInv, ScanInv, TakenInv, TaskInv, Taken, Sees, blocks
  <2> QED
    BY <2>1, <2>2, <2>3, OneMessage, <1>0
<1>4. CASE MessageSaved(q)
  <2>1. /\ stage[q] = "saving" /\ q \notin raw /\ stage' = [stage EXCEPT ![q] = "saved"]
        /\ stored' = stored \cup {q}
        /\ UNCHANGED <<chain, blocks, raw, lock, tasks, processed, failures, crashes>>
    BY <1>4 DEF MessageSaved
  <2>2. TypeOK'
    BY <2>1 DEF TypeOK, Stages, blocks
  <2>3. ~Taken(q) /\ q \in lock
    BY <2>1 DEF TakenInv, HandlerInv
  <2>4. MessageParts(q)'
    BY <2>1, <2>3, <1>0 DEF MessageParts, HandlerInv, ScanInv, TakenInv, TaskInv, Taken, Sees, blocks
  <2> QED
    BY <2>1, <2>2, <2>3, <2>4, OneMessage, <1>0
<1>5. CASE CheckAgain(q)
  <2>1. /\ stage[q] = "saved"
        /\ \/ /\ stage' = [stage EXCEPT ![q] = "over"] /\ lock' = lock \ {q}
              /\ ~(HeightOf[q] < latest)
           \/ /\ stage' = [stage EXCEPT ![q] = "removing"] /\ lock' = lock
              /\ HeightOf[q] < latest
        /\ UNCHANGED <<chain, blocks, raw, stored, tasks, processed, failures, crashes>>
    BY <1>0, <1>5 DEF CheckAgain, TooEarly
  <2>2. TypeOK'
    BY <2>1 DEF TypeOK, Stages, blocks
  <2>3. MessageParts(q)'
    BY <2>1, <1>0 DEF MessageParts, HandlerInv, ScanInv, TakenInv, TaskInv, Taken, Sees, blocks
  <2>4. q \in lock
    BY <2>1 DEF HandlerInv
  <2> QED
    BY <2>1, <2>2, <2>3, <2>4, OneMessage, <1>0
<1>6. CASE MessageRemoved(q)
  <2>1. /\ stage[q] = "removing" /\ stage' = [stage EXCEPT ![q] = "adding"]
        /\ stored' = stored \ {q}
        /\ UNCHANGED <<chain, blocks, raw, lock, tasks, processed, failures, crashes>>
    BY <1>6 DEF MessageRemoved
  <2>2. TypeOK'
    BY <2>1 DEF TypeOK, Stages, blocks
  <2>3. MessageParts(q)'
    BY <2>1, <1>0 DEF MessageParts, HandlerInv, ScanInv, TakenInv, TaskInv, Taken, Sees, blocks
  <2> QED
    BY <2>1, <2>2, <2>3, OneMessage, <1>0
<1>7. CASE HandlerAddsTask(q)
  <2> DEFINE t == [message |-> q, by |-> 0, phase |-> "queued"]
  <2>1. /\ stage[q] = "adding" /\ q \notin raw /\ stage' = [stage EXCEPT ![q] = "over"]
        /\ tasks' = tasks \cup {t}
        /\ UNCHANGED <<chain, blocks, raw, stored, lock, processed, failures, crashes>>
    BY <1>7 DEF HandlerAddsTask
  <2>2. t \in Task /\ t.message = q /\ t.by = 0 /\ t.phase = "queued"
    BY ConstantsAssumption DEF Task
  <2> HIDE DEF t
  <2>3. TypeOK'
    BY <2>1, <2>2 DEF TypeOK, Stages, blocks
  <2>4. ~Taken(q) /\ q \notin stored /\ HeightOf[q] < latest
    BY <2>1 DEF TakenInv, HandlerInv
  <2>5. processed[q] = 0 /\ ~\E u \in tasks : u.message = q
    BY <2>4 DEF Taken, TypeOK
  <2>6. HandlerInv(q)' /\ ScanInv(q)' /\ TakenInv(q)'
    BY <2>1, <2>4, <1>0 DEF HandlerInv, ScanInv, TakenInv, blocks
  <2>7. TaskInv(q)'
    BY <2>1, <2>2, <2>4, <2>5 DEF TaskInv
  <2>8. \A m \in Messages \ {q} :
            {u \in tasks' : u.message = m} = {u \in tasks : u.message = m}
    BY <2>1, <2>2
  <2> QED
    BY <2>1, <2>3, <2>4, <2>6, <2>7, <2>8, OneMessage, <1>0 DEF MessageParts
<1> QED
  BY <1>1, <1>2, <1>3, <1>4, <1>5, <1>6, <1>7 DEF HandlerStep

\* What is known of a task and its message.
LEMMA OfTask ==
    ASSUME IInv, NEW t \in tasks
    PROVE  /\ t \in Task /\ t.message \in Messages
           /\ \A u \in tasks : u.message = t.message => u = t
           /\ stage[t.message] = "over" /\ HeightOf[t.message] < latest
           /\ processed[t.message] = IF t.phase = "queued" THEN 0 ELSE 1
           /\ t.by = 0 => t.message \notin stored
<1>1. t \in Task /\ t.message \in Messages
  BY DEF IInv, TypeOK, Task
<1>2. Taken(t.message)
  BY DEF Taken
<1> QED
  BY <1>1, <1>2 DEF IInv, MessageInv, TakenInv, TaskInv

LEMMA TaskSteps ==
    ASSUME IInv, NEW t \in tasks, TaskStep(t)
    PROVE  IInv'
<1> DEFINE q == t.message
<1>0. /\ t \in Task /\ q \in Messages
      /\ \A u \in tasks : u.message = q => u = t
      /\ stage[q] = "over" /\ HeightOf[q] < latest
      /\ processed[q] = IF t.phase = "queued" THEN 0 ELSE 1
      /\ t.by = 0 => q \notin stored
      /\ processed \in [Messages -> Nat]
  BY OfTask DEF IInv, TypeOK
<1>1. HandlerInv(q) /\ ScanInv(q) /\ TakenInv(q) /\ TaskInv(q) /\ Taken(q)
  BY <1>0 DEF IInv, MessageInv, Taken
<1>2. CASE StartTask(t)
  <2> DEFINE n == [t EXCEPT !.phase = "running"]
  <2>1. /\ t.phase = "queued" /\ tasks' = (tasks \ {t}) \cup {n}
        /\ processed' = [processed EXCEPT ![q] = @ + 1]
        /\ UNCHANGED <<chain, blocks, stage, raw, stored, lock, failures, crashes>>
    BY <1>2 DEF StartTask
  <2>2. n \in Task /\ n.message = q /\ n.by = t.by /\ n.phase = "running"
    BY <1>0 DEF Task
  <2> HIDE DEF n
  <2>3. processed'[q] = 1 /\ processed' \in [Messages -> Nat]
    <3> HIDE DEF q
    <3>1. processed[q] = 0 /\ q \in Messages /\ processed \in [Messages -> Nat]
      BY <2>1, <1>0
    <3>2. processed' = [processed EXCEPT ![q] = processed[q] + 1]
      BY <2>1
    <3>3. processed' = [processed EXCEPT ![q] = 1]
      BY <3>1, <3>2
    <3> QED
      BY <3>1, <3>3
  <2>4. TypeOK'
    BY <2>1, <2>2, <2>3 DEF IInv, TypeOK, blocks
  <2>5. HandlerInv(q)' /\ ScanInv(q)'
    BY <2>1, <1>1 DEF HandlerInv, ScanInv, blocks
  <2>6. TakenInv(q)'
    BY <2>1, <1>1 DEF TakenInv, Sees, blocks
  <2>7. TaskInv(q)'
    BY <2>1, <2>2, <2>3, <1>0 DEF TaskInv
  <2>8. \A m \in Messages \ {q} :
            {u \in tasks' : u.message = m} = {u \in tasks : u.message = m}
    BY <2>1, <2>2
  <2> HIDE DEF q
  <2> QED
    BY <2>1, <2>2, <2>3, <2>4, <2>5, <2>6, <2>7, <2>8, <1>0, OneMessage DEF MessageParts
<1>3. CASE FinishTask(t)
  <2>1. /\ t.phase = "running" /\ lock' = lock \ {q}
        /\ UNCHANGED <<chain, blocks, stage, raw, stored, processed, failures, crashes>>
    BY <1>3 DEF FinishTask
  <2>2. processed[q] = 1
    BY <2>1, <1>0
  <2>3. HandlerInv(q)' /\ ScanInv(q)'
    BY <2>1, <1>0, <1>1 DEF HandlerInv, ScanInv, blocks
  <2>4. TakenInv(q)'
    BY <2>1, <1>1 DEF TakenInv, Sees, blocks
  <2>5. CASE t.by = 0
    <3>1. tasks' = tasks \ {t}
      BY <2>5, <1>3 DEF FinishTask
    <3>2. TypeOK'
      BY <2>1, <3>1 DEF IInv, TypeOK, blocks
    <3>3. TaskInv(q)'
      BY <2>1, <2>2, <3>1, <1>0 DEF TaskInv
    <3>4. \A m \in Messages \ {q} :
              {u \in tasks' : u.message = m} = {u \in tasks : u.message = m}
      BY <3>1
    <3> HIDE DEF q
    <3> QED
      BY <2>1, <2>3, <2>4, <2>5, <3>2, <3>3, <3>4, <1>0, OneMessage DEF MessageParts
  <2>6. CASE t.by # 0
    <3> DEFINE n == [t EXCEPT !.phase = "cleaning"]
    <3>1. tasks' = (tasks \ {t}) \cup {n}
      BY <2>6, <1>3 DEF FinishTask
    <3>2. n \in Task /\ n.message = q /\ n.by = t.by /\ n.phase = "cleaning"
      BY <1>0 DEF Task
    <3> HIDE DEF n
    <3>3. TypeOK'
      BY <2>1, <3>1, <3>2 DEF IInv, TypeOK, blocks
    <3>4. TaskInv(q)'
      BY <2>1, <2>2, <2>6, <3>1, <3>2, <1>0 DEF TaskInv
    <3>5. \A m \in Messages \ {q} :
              {u \in tasks' : u.message = m} = {u \in tasks : u.message = m}
      BY <3>1, <3>2
    <3> HIDE DEF q
    <3> QED
      BY <2>1, <2>3, <2>4, <3>1, <3>2, <3>3, <3>4, <3>5, <1>0, OneMessage DEF MessageParts
  <2> QED
    BY <2>5, <2>6
<1>4. CASE CleanUpMessage(t)
  <2>1. /\ t.phase = "cleaning" /\ tasks' = tasks \ {t} /\ stored' = stored \ {q}
        /\ UNCHANGED <<chain, blocks, stage, raw, lock, processed, failures, crashes>>
    BY <1>4 DEF CleanUpMessage
  <2>2. processed[q] = 1
    BY <2>1, <1>0
  <2>3. HandlerInv(q)' /\ ScanInv(q)'
    BY <2>1, <1>0, <1>1 DEF HandlerInv, ScanInv, blocks
  <2>4. TakenInv(q)'
    BY <2>1, <1>1 DEF TakenInv, Sees, blocks
  <2>5. TypeOK'
    BY <2>1 DEF IInv, TypeOK, blocks
  <2>6. TaskInv(q)'
    BY <2>1, <2>2, <1>0 DEF TaskInv
  <2>7. \A m \in Messages \ {q} :
            {u \in tasks' : u.message = m} = {u \in tasks : u.message = m}
    BY <2>1
  <2> HIDE DEF q
  <2> QED
    BY <2>1, <2>3, <2>4, <2>5, <2>6, <2>7, <1>0, OneMessage DEF MessageParts
<1> QED
  BY <1>2, <1>3, <1>4 DEF TaskStep

LEMMA CrashStep == ASSUME IInv, CrashAndRestart PROVE IInv'
<1>1. /\ crashes < MaxCrashes /\ crashes' = crashes + 1
      /\ latest' = saved /\ appHash' = {0}
      /\ scans' = {} /\ lock' = {} /\ tasks' = {}
      /\ stage' = [m \in Messages |-> IF m \in raw THEN "received"
                                      ELSE IF stage[m] = "unsent" THEN "unsent" ELSE "over"]
      /\ processed' = [m \in Messages |-> 0]
      /\ UNCHANGED <<chain, saved, raw, stored, failures>>
  BY DEF CrashAndRestart, NoHash
<1>2. TypeOK'
  BY <1>1, ConstantsAssumption DEF IInv, TypeOK, Stages, Heights
<1>3. Ranges'
  BY <1>1 DEF IInv, Ranges
<1>4. MessageInv'
  BY <1>1 DEF IInv, MessageInv, HandlerInv, ScanInv, TakenInv, TaskInv, Taken
<1>5. crashes' # 0
  BY <1>1, Parts DEF IInv
<1>6. NoneForgotten'
  BY <1>5 DEF NoneForgotten
<1> QED
  BY <1>2, <1>3, <1>4, <1>6 DEF IInv

-----------------------------------------------------------------------------
(* The theorems.                                                           *)

\* Every step of a node keeps what is claimed of scans, handlers and tasks.
THEOREM Invariant == Spec => []IInv
<1>1. ASSUME IInv, [Next]_vars PROVE IInv'
  BY <1>1, ChainStep, BlockStep, ScanSteps, HandlerSteps, TaskSteps, CrashStep, StutterStep
     DEF Next
<1> QED
  BY <1>1, InitIInv, PTL DEF Spec

\* Every variable keeps to the values its counterpart in request_process_manager.js
\* and tendermint/index.js can have.
THEOREM TypeCorrect == Spec => []TypeOK
<1>1. IInv => TypeOK
  BY DEF IInv
<1> QED
  BY <1>1, Invariant, PTL

\* handleMessageFromMqWithBlockWait() and processMessageInBlocks() never both have
\* a message processed, whatever calls fail, until the process starts again.
THEOREM TakenOnce == Spec => []AtMostOnce
<1>1. IInv => AtMostOnce
  BY DEF IInv, MessageInv, TaskInv, AtMostOnce
<1> QED
  BY <1>1, Invariant, PTL

\* On a node that starts with a known height, and as long as nothing fails, every
\* message left in Redis for a block that has passed is still going to be seen.
THEOREM WaitingIsSeen == ~FreshStart => (Spec => []NoneForgotten)
<1> SUFFICES ASSUME ~FreshStart PROVE Spec => []NoneForgotten
  OBVIOUS
<1>1. IInv => NoneForgotten
  BY DEF IInv
<1> QED
  BY <1>1, Invariant, PTL

\* Neither side starts to process a message before the node knows a later block
\* than the one the message names, so its data can be read from the chain.
THEOREM NotBeforeItsBlock == Spec => NeverEarly
<1> DEFINE P == \A m \in Messages : processed'[m] > processed[m] => HeightOf[m] < latest
<1>1. ASSUME IInv, [Next]_vars PROVE P
  <2> SUFFICES ASSUME NEW m \in Messages, processed'[m] > processed[m]
               PROVE  HeightOf[m] < latest
    OBVIOUS
  <2>0. processed \in [Messages -> Nat]
    BY <1>1 DEF IInv, TypeOK
  <2>1. CASE processed' = processed
    BY <2>0, <2>1
  <2>2. CASE \E t \in tasks : StartTask(t)
    <3>1. PICK t \in tasks : processed' = [processed EXCEPT ![t.message] = @ + 1]
      BY <2>2 DEF StartTask
    <3>2. t.message = m
      BY <2>0, <3>1
    <3> QED
      BY <3>2, <1>1, OfTask
  <2>3. CASE CrashAndRestart
    BY <2>0, <2>3 DEF CrashAndRestart
  <2>4. processed' = processed \/ (\E t \in tasks : StartTask(t)) \/ CrashAndRestart
    BY <1>1 DEF Next, vars, messages, ChainGrows, ProcessNewBlock, ScanStep, FetchFails,
       ScanFails, BlocksFetched, IdsRead, SkipLocked, MessagesRead, ScanAddsTask, ScanDone,
       Receive, HandlerStep, HandleMessage, RawRemoved, MessageSaved, CheckAgain,
       MessageRemoved, HandlerAddsTask, TaskStep, FinishTask, CleanUpMessage
  <2> QED
    BY <2>1, <2>2, <2>3, <2>4
<1>2. ASSUME IInv, [Next]_vars PROVE [P]_vars
  BY <1>1, <1>2
<1> QED
  BY <1>2, Invariant, PTL DEF Spec, NeverEarly

=============================================================================
