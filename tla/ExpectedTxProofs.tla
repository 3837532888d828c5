-------------------------- MODULE ExpectedTxProofs --------------------------
(***************************************************************************)
(* Safety of ExpectedTx for any calls and any bounds.                      *)
(*                                                                         *)
(* CalledOnce: a transaction is expected, or on its way to its callback,   *)
(* or called back, never two of these (OneUse), as long as no process      *)
(* takes up again what it has begun itself (NotYetLoaded).                 *)
(*                                                                         *)
(* LaterIsKept: of a call whose retry was promised there is always a       *)
(* holder, a record of the backlog or a transaction that waits for its     *)
(* result in a way no error can end (Holder).  A record is dropped when    *)
(* its retry has been sent, and the retry, or what came of it, is the      *)
(* holder then: a later transaction of the same call (RetryHolds).         *)
(***************************************************************************)
EXTENDS ExpectedTx, FiniteSetTheorems, TLAPS

-----------------------------------------------------------------------------
(* The inductive invariant.                                                *)

\* Nothing is known of a transaction that was not begun.
Unbegun ==
    \A tx \in Tx \ Sent :
        /\ phase[tx] = "none" /\ result[tx] = "none"
        /\ finishing[tx] = "no" /\ calls[tx] = 0 /\ origin[tx] = None

\* A result is of a transaction that was sent, and comes once.
ResultsInOrder ==
    \A tx \in Tx :
        /\ tx \in events \/ finishing[tx] # "no" => result[tx] # "none"
        /\ tx \in mempool => result[tx] = "none"
        /\ tx \in mempool \/ result[tx] # "none" => phase[tx] \notin {"saving", "sent"}

\* A retry from the backlog is of the call of its record, and comes after it;
\* only calls that may be kept are kept, and only those with retryOnFail are
\* tried again by a timer.
RetriesMatch ==
    /\ \A tx \in Tx : origin[tx] # None =>
           /\ CallOf(origin[tx]) = CallOf(tx) /\ origin[tx][2] < tx[2]
           /\ CallOf(tx) \in Saving \ sync /\ tx \notin stubborn
    /\ \A tx \in backlog : CallOf(tx) \in Saving \ sync
    /\ \A c \in Calls : <<c, "later">> \in told => c \in Saving \ sync
    /\ \A tx \in stubborn \cup retryData : CallOf(tx) \in Retrying \ sync

\* Until the saved transactions are loaded, this process has only dealt with
\* those it has begun.
NotYetLoaded ==
    /\ loading = "done" => snapshot = {}
    /\ loading # "done" =>
           \A tx \in Tx \ early : tx \notin expected /\ finishing[tx] = "no" /\ calls[tx] = 0

Uses(tx) == (IF tx \in expected THEN 1 ELSE 0)
                + (IF finishing[tx] = "calling" THEN 1 ELSE 0) + calls[tx]

OneUse == \A tx \in Tx \ early : Uses(tx) <= 1

InFlight == {"saving", "sent", "accepted", "waiting"}

\* The transaction waits for its result, or its callback is about to be told
\* the end of the call.
Waits(tx) ==
    /\ tx \in metadata
    /\ finishing[tx] = "no" \/ (finishing[tx] = "calling" /\ Outcome(tx) # "later")

Holder(tx) == tx \in backlog \/ (Waits(tx) /\ phase[tx] \notin InFlight)

\* The call has no result yet.
Open(c) == told \cap {<<c, "ok">>, <<c, "error">>} = {}

\* Somebody was told, or is about to be told, that the call is kept.
Promised(c) ==
    \/ <<c, "later">> \in told
    \/ \E tx \in Tx : CallOf(tx) = c /\ finishing[tx] = "calling" /\ Outcome(tx) = "later"

PromiseHeld ==
    \A c \in Calls : Open(c) /\ Promised(c) => \E h \in Tx : CallOf(h) = c /\ Holder(h)

\* A retry, or what came of it, takes over from its record.
RetryHolds ==
    \A tx \in Tx :
        Open(CallOf(tx)) /\ origin[tx] # None /\ phase[tx] \in {"sent", "accepted", "returned", "later"}
            => \/ Waits(tx)
               \/ \E h \in Tx : CallOf(h) = CallOf(tx) /\ h[2] >= tx[2] /\ Holder(h)

IInv == /\ TypeOK
        /\ Unbegun /\ ResultsInOrder /\ RetriesMatch
        /\ NotYetLoaded /\ OneUse
        /\ PromiseHeld /\ RetryHolds

-----------------------------------------------------------------------------
(* Steps.                                                                  *)

\* transact() begins with tx, a transaction nothing is known of, as the retry of
\* the record from if there is one: what Begin(CallOf(tx), from) does.
Begun(tx, from) ==
    /\ tx \in Tx \ Sent
    /\ \A old \in Sent : CallOf(old) = CallOf(tx) => old[2] < tx[2]
    /\ Sent' = Sent \cup {tx}
    /\ from = None \/ (from \in backlog /\ CallOf(from) = CallOf(tx))
    /\ timers' \subseteq timers
    /\ attempts' \in [Calls -> 0 .. MaxAttempts]
    /\ phase' = [phase EXCEPT ![tx] = "saving"]
    /\ origin' = [origin EXCEPT ![tx] = from]
    /\ stubborn' \subseteq stubborn \cup {tx}
    /\ tx \in stubborn' => from = None /\ CallOf(tx) \in Retrying \ sync
    /\ expected' = expected \cup {tx}
    /\ count' = count + 1
    /\ early' = IF loading = "done" THEN early ELSE early \cup {tx}
    /\ UNCHANGED <<settled, finishing, calls, intake, startup, redis, sync, mempool, result,
                   told, losses, crashes>>

\* A transaction ends in the catch clause.
Caught(tx) ==
    /\ phase[tx] \in {"sent", "accepted", "waiting"}
    /\ \E code : Catch(tx, code)
    /\ losses' \in 0 .. MaxLosses
    /\ UNCHANGED <<settled, finishing, bookkeeping, calls, intake, startup, retryData, world,
                   crashes>>

\* The caller that waited gets an "ok".
Answered(tx) ==
    /\ phase[tx] = "waiting"
    /\ told' = told \cup {<<CallOf(tx), "ok">>}
    /\ phase' = [phase EXCEPT ![tx] = "returned"]
    /\ UNCHANGED <<expected, count, timers, metadata, backlog>>
    /\ UNCHANGED <<settled, finishing, bookkeeping, calls, intake, startup, retryData, world,
                   losses, crashes>>

\* A pair is a pair.
LEMMA TxIsPair ==
    \A tx \in Tx : CallOf(tx) \in Calls /\ tx[2] \in 1 .. MaxAttempts /\ tx = <<CallOf(tx), tx[2]>>
BY DEF Tx, CallOf

\* Every transaction is new.
LEMMA BeginIsFresh ==
    ASSUME TypeOK, NEW c \in Calls, NEW from, Begin(c, from),
           from = None \/ (from \in backlog /\ CallOf(from) = c),
           timers' \subseteq timers
    PROVE  \E tx \in Tx : Begun(tx, from)
<1>1. PICK tx : tx = <<c, attempts[c] + 1>>
  OBVIOUS
<1>2. attempts \in [Calls -> 0 .. MaxAttempts] /\ attempts[c] < MaxAttempts
  BY DEF TypeOK, Begin
<1>3. MaxAttempts \in Nat
  BY ConstantsAssumption
<1>4. /\ tx \in Tx /\ CallOf(tx) = c /\ tx[2] = attempts[c] + 1
      /\ attempts' = [attempts EXCEPT ![c] = tx[2]]
  BY <1>1, <1>2, <1>3 DEF Begin, Tx, CallOf
<1>5. /\ tx \notin Sent
      /\ \A old \in Sent : CallOf(old) = c => old[2] < tx[2]
  BY <1>2, <1>3, <1>4, TxIsPair DEF Sent
<1>6. Sent' = Sent \cup {tx}
  <2>1. ASSUME NEW x \in Tx PROVE x \in Sent' <=> x \in Sent \cup {tx}
    <3>1. CallOf(x) \in Calls /\ x[2] \in 1 .. MaxAttempts /\ x = <<CallOf(x), x[2]>>
      BY TxIsPair
    <3>2. CASE CallOf(x) = c
      <4>1. attempts'[c] = attempts[c] + 1
        BY <1>2, <1>4
      <4>2. x = tx <=> x[2] = attempts[c] + 1
        BY <1>1, <3>1, <3>2, <1>4
      <4> QED BY <4>1, <4>2, <3>1, <3>2, <1>2, <1>3 DEF Sent
    <3>3. CASE CallOf(x) # c
      BY <1>2, <1>4, <3>1, <3>3 DEF Sent
    <3> QED BY <3>2, <3>3
  <2> QED BY <2>1, <1>4 DEF Sent
<1>7. attempts' \in [Calls -> 0 .. MaxAttempts]
  BY <1>2, <1>3, <1>4
<1>8. /\ phase' = [phase EXCEPT ![tx] = "saving"]
      /\ origin' = [origin EXCEPT ![tx] = from]
      /\ stubborn' = IF from = None /\ c \in Retrying \ sync THEN stubborn \cup {tx} ELSE stubborn
      /\ expected' = expected \cup {tx}
      /\ count' = count + 1
      /\ early' = IF loading = "done" THEN early ELSE early \cup {tx}
      /\ UNCHANGED <<settled, finishing, calls, intake, startup, redis, sync, mempool, result,
                     told, losses, crashes>>
  BY <1>1 DEF Begin
<1>9. tx \notin stubborn
  BY <1>5 DEF TypeOK
<1> QED
  BY <1>4, <1>5, <1>6, <1>7, <1>8, <1>9 DEF Begun

\* The steps of the system, in the form that the rest of the proof uses.
LEMMA Cases ==
    ASSUME TypeOK, [Next]_vars
    PROVE  \/ \E tx \in Tx : \E from : Begun(tx, from)
           \/ \E tx \in Tx : \/ Saved(tx) \/ Accept(tx) \/ Respond(tx) \/ Caught(tx)
                             \/ Answered(tx) \/ DropRecord(tx) \/ Commit(tx) \/ LookUp(tx)
                             \/ QueryFails(tx) \/ Process(tx) \/ Callback(tx) \/ Clear(tx)
           \/ Disconnect \/ Reconnect \/ CrashAndRestart \/ ReadSaved \/ LoadSaved
           \/ UNCHANGED vars
<1>1. CASE Call
  BY <1>1, BeginIsFresh DEF Call
<1>2. CASE RetryTimer
  <2>1. PICK c \in timers : timers' = timers \ {c} /\ Begin(c, None)
    BY <1>2 DEF RetryTimer
  <2>2. c \in Calls
    BY <2>1, ConstantsAssumption DEF TypeOK
  <2> QED BY <2>1, <2>2, BeginIsFresh
<1>3. CASE RetryBacklog
  <2>1. PICK old \in backlog : Begin(CallOf(old), old) /\ UNCHANGED timers
    BY <1>3 DEF RetryBacklog
  <2>2. CallOf(old) \in Calls
    BY <2>1, TxIsPair DEF TypeOK, Sent
  <2> QED BY <2>1, <2>2, BeginIsFresh
<1>4. ASSUME NEW tx \in Tx, Refuse(tx) PROVE Caught(tx)
  BY <1>4 DEF Refuse, Caught, TypeOK
<1>5. ASSUME NEW tx \in Tx, LoseResponse(tx) PROVE Caught(tx)
  <2>1. losses \in 0 .. MaxLosses /\ losses < MaxLosses /\ losses' = losses + 1
    BY <1>5 DEF LoseResponse, TypeOK
  <2>2. losses' \in 0 .. MaxLosses
    BY <2>1, ConstantsAssumption
  <2> QED BY <1>5, <2>2 DEF LoseResponse, Caught
<1>6. ASSUME NEW tx \in Tx, WaitEnds(tx) PROVE Caught(tx) \/ Answered(tx)
  BY <1>6 DEF WaitEnds, Caught, Answered, TypeOK
<1> QED
  BY <1>1, <1>2, <1>3, <1>4, <1>5, <1>6 DEF Next, Step

\* There are finitely many transactions.
LEMMA SentIsFinite == IsFiniteSet(Sent)
<1>1. IsFiniteSet(Calls) /\ IsFiniteSet(1 .. MaxAttempts)
  BY ConstantsAssumption, FS_Interval
<1>2. IsFiniteSet(Tx)
  BY <1>1, FS_Product DEF Tx
<1> QED BY <1>2, FS_Subset DEF Sent

\* Every action keeps the types, and what it keeps is about a transaction that
\* was begun.
LEMMA TypeStep == IInv /\ [Next]_vars => TypeOK'
<1> SUFFICES ASSUME IInv, [Next]_vars PROVE TypeOK'
  OBVIOUS
<1>1. TypeOK /\ Unbegun /\ ResultsInOrder /\ RetriesMatch
  BY DEF IInv
<1>2. ASSUME NEW tx \in Tx, NEW from, Begun(tx, from) PROVE TypeOK'
  <2>1. from \in Sent \cup {None}
    BY <1>1, <1>2 DEF TypeOK, Begun
  <2>2. Sent' = Sent \cup {tx}
    BY <1>2 DEF Begun
  <2> QED BY <1>1, <1>2, <2>1, <2>2 DEF TypeOK, Begun, memory, bookkeeping, intake, startup,
             redis, world
<1>3. ASSUME NEW tx \in Tx, Saved(tx) PROVE TypeOK'
  <2>1. Sent' = Sent
    BY <1>3 DEF Saved, Sent, world
  <2>2. tx \in Sent
    BY <1>1, <1>3 DEF Saved, Unbegun
  <2> QED BY <1>1, <1>3, <2>1, <2>2 DEF TypeOK, Saved, memory, bookkeeping, intake, startup,
             redis, world
<1>4. ASSUME NEW tx \in Tx, Accept(tx) PROVE TypeOK'
  <2>1. Sent' = Sent
    BY <1>4 DEF Accept, Sent, world
  <2>2. tx \in Sent
    BY <1>1, <1>4 DEF Accept, Unbegun
  <2> QED BY <1>1, <1>4, <2>1, <2>2 DEF TypeOK, Accept, memory, bookkeeping, intake, startup,
             redis, world
<1>5. ASSUME NEW tx \in Tx, Respond(tx) PROVE TypeOK'
  <2>1. Sent' = Sent
    BY <1>5 DEF Respond, Sent, world
  <2> QED BY <1>1, <1>5, <2>1 DEF TypeOK, Respond, memory, bookkeeping, intake, startup, redis,
             world
<1>6. ASSUME NEW tx \in Tx, Caught(tx) PROVE TypeOK'
  <2>1. Sent' = Sent
    BY <1>6 DEF Caught, Sent, world
  <2>2. tx \in Sent
    BY <1>1, <1>6 DEF Caught, Unbegun
  <2>3. CallOf(tx) \in Calls /\ (tx \in stubborn => CallOf(tx) \in Retrying \ sync)
    BY <1>1, TxIsPair DEF RetriesMatch
  <2>4. PICK code : Catch(tx, code)
    BY <1>6 DEF Caught
  <2> QED BY <1>1, <1>6, <2>1, <2>2, <2>3, <2>4
             DEF TypeOK, Caught, Catch, Tell, memory, bookkeeping, intake, startup, redis, world
<1>7. ASSUME NEW tx \in Tx, Answered(tx) PROVE TypeOK'
  <2>1. Sent' = Sent
    BY <1>7 DEF Answered, Sent, world
  <2> QED BY <1>1, <1>7, <2>1, TxIsPair DEF TypeOK, Answered, memory, bookkeeping, intake,
             startup, redis, world
<1>8. ASSUME NEW tx \in Tx, DropRecord(tx) PROVE TypeOK'
  <2>1. Sent' = Sent
    BY <1>8 DEF DropRecord, Sent, world
  <2> QED BY <1>1, <1>8, <2>1 DEF TypeOK, DropRecord, memory, bookkeeping, intake, startup,
             redis, world
<1>9. ASSUME NEW tx \in Tx, Commit(tx) PROVE TypeOK'
  <2>1. Sent' = Sent
    BY <1>9 DEF Commit, Sent, world
  <2> QED BY <1>1, <1>9, <2>1 DEF TypeOK, Commit, Results, memory, bookkeeping, intake, startup,
             redis, world
<1>10. ASSUME NEW tx \in Tx, LookUp(tx) PROVE TypeOK'
  <2>1. Sent' = Sent
    BY <1>10 DEF LookUp, Sent, world
  <2> QED BY <1>1, <1>10, <2>1 DEF TypeOK, LookUp, memory, bookkeeping, intake, startup, redis,
             world
<1>11. ASSUME NEW tx \in Tx, QueryFails(tx) PROVE TypeOK'
  <2>1. Sent' = Sent
    BY <1>11 DEF QueryFails, Sent, world
  <2>2. losses' \in 0 .. MaxLosses
    BY <1>1, <1>11, ConstantsAssumption DEF TypeOK, QueryFails
  <2> QED BY <1>1, <1>11, <2>1, <2>2 DEF TypeOK, QueryFails, memory, bookkeeping, intake,
             startup, redis, world
<1>12. ASSUME NEW tx \in Tx, Process(tx) PROVE TypeOK'
  <2>1. Sent' = Sent
    BY <1>12 DEF Process, Sent, world
  <2>2. tx \in retryData => CallOf(tx) \in Retrying \ sync
    BY <1>1 DEF RetriesMatch
  <2>3. tx \in Sent
    BY <1>1, <1>12 DEF TypeOK, Process
  <2> QED BY <1>1, <1>12, <2>1, <2>2, <2>3
             DEF TypeOK, Process, IsExpected, memory, bookkeeping, intake, startup, redis, world
<1>13. ASSUME NEW tx \in Tx, Callback(tx) PROVE TypeOK'
  <2>1. Sent' = Sent
    BY <1>13 DEF Callback, Sent, world
  <2> QED BY <1>1, <1>13, <2>1, TxIsPair DEF TypeOK, Callback, Outcome, memory, bookkeeping,
             intake, startup, redis, world
<1>14. ASSUME NEW tx \in Tx, Clear(tx) PROVE TypeOK'
  <2>1. Sent' = Sent
    BY <1>14 DEF Clear, Sent, world
  <2> QED BY <1>1, <1>14, <2>1 DEF TypeOK, Clear, memory, bookkeeping, intake, startup, redis,
             world
<1>15. CASE Disconnect
  <2>1. Sent' = Sent
    BY <1>15 DEF Disconnect, Sent, world
  <2>2. losses' \in 0 .. MaxLosses
    BY <1>1, <1>15, ConstantsAssumption DEF TypeOK, Disconnect
  <2>3. subscribed' \in BOOLEAN
    BY <1>15 DEF Disconnect
  <2> QED BY <1>1, <1>15, <2>1, <2>2, <2>3
             DEF TypeOK, Disconnect, memory, bookkeeping, intake, startup, redis, world
<1>16. CASE Reconnect
  <2>1. Sent' = Sent
    BY <1>16 DEF Reconnect, Sent, world
  <2> QED BY <1>1, <1>16, <2>1 DEF TypeOK, Reconnect, memory, bookkeeping, intake, startup,
             redis, world
<1>17. CASE CrashAndRestart
  <2>1. Sent' = Sent
    BY <1>17 DEF CrashAndRestart, Sent, world
  <2> QED BY <1>1, <1>17, <2>1, ConstantsAssumption
             DEF TypeOK, CrashAndRestart, memory, bookkeeping, intake, startup, redis, world
<1>18. CASE ReadSaved
  <2>1. Sent' = Sent
    BY <1>18 DEF ReadSaved, Sent, world
  <2> QED BY <1>1, <1>18, <2>1 DEF TypeOK, ReadSaved, memory, bookkeeping, intake, startup,
             redis, world
<1>19. CASE LoadSaved
  <2>1. Sent' = Sent
    BY <1>19 DEF LoadSaved, Sent, world
  <2>2. Cardinality(snapshot) \in Nat
    BY <1>1, SentIsFinite, FS_Subset, FS_CardinalityType DEF TypeOK
  <2> QED BY <1>1, <1>19, <2>1, <2>2 DEF TypeOK, LoadSaved, memory, bookkeeping, intake,
             startup, redis, world
<1>20. CASE UNCHANGED vars
  <2>1. Sent' = Sent
    BY <1>20 DEF Sent, vars, world
  <2> QED BY <1>1, <1>20, <2>1 DEF TypeOK, vars, memory, bookkeeping, intake, startup, redis,
             world
<1> QED
  BY <1>1, Cases, <1>2, <1>3, <1>4, <1>5, <1>6, <1>7, <1>8, <1>9, <1>10, <1>11, <1>12, <1>13,
     <1>14, <1>15, <1>16, <1>17, <1>18, <1>19, <1>20

-----------------------------------------------------------------------------
(* What a step leaves alone.                                               *)

\* The actions about one transaction, but for its begin.
Acts(tx) ==
    \/ Saved(tx) \/ Accept(tx) \/ Respond(tx) \/ Caught(tx) \/ Answered(tx) \/ DropRecord(tx)
    \/ Commit(tx) \/ LookUp(tx) \/ QueryFails(tx) \/ Process(tx) \/ Callback(tx) \/ Clear(tx)

\* Nothing happens to x, but for its record of the backlog.
Same(x) ==
    /\ phase'[x] = phase[x] /\ result'[x] = result[x] /\ finishing'[x] = finishing[x]
    /\ calls'[x] = calls[x] /\ origin'[x] = origin[x]
    /\ x \in expected' <=> x \in expected
    /\ x \in events' <=> x \in events
    /\ x \in mempool' <=> x \in mempool
    /\ x \in metadata' <=> x \in metadata
    /\ x \in early' <=> x \in early
    /\ x \in stubborn' => x \in stubborn
    /\ x \in retryData' => x \in retryData

\* Only a transaction that was begun acts, and the others are left alone.
LEMMA Acting ==
    ASSUME TypeOK, Unbegun, NEW tx \in Tx, Acts(tx)
    PROVE  /\ tx \in Sent /\ Sent' = Sent
           /\ UNCHANGED <<sync, loading, snapshot, early, stubborn>>
           /\ told \subseteq told'
           /\ \A x \in Tx \ {tx} : Same(x)
<1>1. tx \in Sent
  BY DEF TypeOK, Unbegun, Acts, Saved, Accept, Respond, Caught, Answered, DropRecord, Commit,
         LookUp, QueryFails, Process, Callback, Clear
<1>2. Sent' = Sent
  BY DEF Sent, Acts, Saved, Accept, Respond, Caught, Answered, DropRecord, Commit, LookUp,
         QueryFails, Process, Callback, Clear, world
<1> DEFINE Rest == /\ UNCHANGED <<sync, loading, snapshot, early, stubborn>>
                   /\ told \subseteq told'
                   /\ \A x \in Tx \ {tx} : Same(x)
<1>3. ASSUME Saved(tx) PROVE Rest
  BY <1>3 DEF Saved, TypeOK, Same, memory, bookkeeping, intake, startup, redis, world
<1>4. ASSUME Accept(tx) PROVE Rest
  BY <1>4 DEF Accept, TypeOK, Same, memory, bookkeeping, intake, startup, redis, world
<1>5. ASSUME Respond(tx) PROVE Rest
  BY <1>5 DEF Respond, TypeOK, Same, memory, bookkeeping, intake, startup, redis, world
<1>6. ASSUME Caught(tx) PROVE Rest
  BY <1>6 DEF Caught, Catch, Tell, TypeOK, Same, memory, bookkeeping, intake, startup, redis,
     world
<1>7. ASSUME Answered(tx) PROVE Rest
  BY <1>7 DEF Answered, TypeOK, Same, memory, bookkeeping, intake, startup, redis, world
<1>8. ASSUME DropRecord(tx) PROVE Rest
  BY <1>8 DEF DropRecord, TypeOK, Same, memory, bookkeeping, intake, startup, redis, world
<1>9. ASSUME Commit(tx) PROVE Rest
  BY <1>9 DEF Commit, TypeOK, Same, memory, bookkeeping, intake, startup, redis, world
<1>10. ASSUME LookUp(tx) PROVE Rest
  BY <1>10 DEF LookUp, TypeOK, Same, memory, bookkeeping, intake, startup, redis, world
<1>11. ASSUME QueryFails(tx) PROVE Rest
  BY <1>11 DEF QueryFails, TypeOK, Same, memory, bookkeeping, intake, startup, redis, world
<1>12. ASSUME Process(tx) PROVE Rest
  BY <1>12 DEF Process, IsExpected, TypeOK, Same, memory, bookkeeping, intake, startup, redis,
     world
<1>13. ASSUME Callback(tx) PROVE Rest
  BY <1>13 DEF Callback, TypeOK, Same, memory, bookkeeping, intake, startup, redis, world
<1>14. ASSUME Clear(tx) PROVE Rest
  BY <1>14 DEF Clear, TypeOK, Same, memory, bookkeeping, intake, startup, redis, world
<1> QED
  BY <1>1, <1>2, <1>3, <1>4, <1>5, <1>6, <1>7, <1>8, <1>9, <1>10, <1>11, <1>12, <1>13, <1>14
     DEF Acts

LEMMA Beginning ==
    ASSUME TypeOK, NEW tx \in Tx, NEW from, Begun(tx, from)
    PROVE  /\ UNCHANGED <<sync, loading, snapshot, told, backlog>>
           /\ \A x \in Tx \ {tx} : Same(x)
BY DEF TypeOK, Begun, Same, intake, startup, redis

\* The steps that are about no transaction.
Others == Disconnect \/ Reconnect \/ CrashAndRestart \/ ReadSaved \/ LoadSaved \/ UNCHANGED vars

LEMMA StepCases ==
    ASSUME TypeOK, [Next]_vars
    PROVE  \/ \E tx \in Tx : \E from : Begun(tx, from)
           \/ \E tx \in Tx : Acts(tx)
           \/ Others
BY Cases DEF Acts, Others

\* They leave the chain and Redis as they are, and but for a crash what the
\* process knows.
LEMMA OtherSteps ==
    ASSUME Others
    PROVE  /\ Sent' = Sent
           /\ UNCHANGED <<redis, world, told>>
           /\ \/ UNCHANGED <<phase, finishing, calls, bookkeeping>>
              \/ CrashAndRestart
<1>1. UNCHANGED <<redis, world, told>>
  BY DEF Others, Disconnect, Reconnect, CrashAndRestart, ReadSaved, LoadSaved, vars
<1>2. Sent' = Sent
  BY <1>1 DEF Sent, world
<1>3. UNCHANGED <<phase, finishing, calls, bookkeeping>> \/ CrashAndRestart
  BY DEF Others, Disconnect, Reconnect, ReadSaved, LoadSaved, vars, memory
<1> QED
  BY <1>1, <1>2, <1>3

-----------------------------------------------------------------------------
(* Steps keep the invariant.                                               *)

\* Nothing is known of a transaction that was not begun.
LEMMA UnbegunStep == IInv /\ [Next]_vars => Unbegun'
<1> SUFFICES ASSUME IInv, [Next]_vars, NEW x \in Tx, x \notin Sent'
             PROVE  /\ phase'[x] = "none" /\ result'[x] = "none"
                    /\ finishing'[x] = "no" /\ calls'[x] = 0 /\ origin'[x] = None
  BY DEF Unbegun
<1>1. TypeOK /\ Unbegun
  BY DEF IInv
<1>2. ASSUME NEW tx \in Tx, NEW from, Begun(tx, from)
      PROVE  x # tx /\ Sent \subseteq Sent' /\ Same(x)
  <2>1. x # tx /\ Sent \subseteq Sent'
    BY <1>2 DEF Begun
  <2> QED BY <1>1, <1>2, <2>1, Beginning
<1>3. ASSUME NEW tx \in Tx, Acts(tx) PROVE Sent \subseteq Sent' /\ Same(x)
  BY <1>1, <1>3, Acting
<1>4. ASSUME Sent \subseteq Sent', Same(x) PROVE /\ phase'[x] = "none" /\ result'[x] = "none"
                                                      /\ finishing'[x] = "no" /\ calls'[x] = 0
                                                      /\ origin'[x] = None
  BY <1>1, <1>4 DEF Unbegun, Same
<1>5. CASE Others
  <2>1. x \notin Sent /\ UNCHANGED result
    BY <1>5, OtherSteps DEF world
  <2>2. CASE UNCHANGED <<phase, finishing, calls, bookkeeping>>
    BY <1>1, <2>1, <2>2 DEF Unbegun, bookkeeping
  <2>3. CASE CrashAndRestart
    BY <1>1, <2>1, <2>3 DEF Unbegun, CrashAndRestart
  <2> QED BY <1>5, <2>2, <2>3, OtherSteps
<1> QED
  BY <1>1, <1>2, <1>3, <1>4, <1>5, StepCases

\* A result comes once, for a transaction that was sent.
LEMMA ResultsStep == IInv /\ [Next]_vars => ResultsInOrder'
<1> SUFFICES ASSUME IInv, [Next]_vars, NEW x \in Tx
             PROVE  /\ x \in events' \/ finishing'[x] # "no" => result'[x] # "none"
                    /\ x \in mempool' => result'[x] = "none"
                    /\ x \in mempool' \/ result'[x] # "none" => phase'[x] \notin {"saving", "sent"}
  BY DEF ResultsInOrder
<1> DEFINE Good == /\ x \in events' \/ finishing'[x] # "no" => result'[x] # "none"
                   /\ x \in mempool' => result'[x] = "none"
                   /\ x \in mempool' \/ result'[x] # "none" => phase'[x] \notin {"saving", "sent"}
<1>1. TypeOK /\ Unbegun /\ ResultsInOrder
  BY DEF IInv
<1>2. ASSUME Same(x) PROVE Good
  BY <1>1, <1>2 DEF ResultsInOrder, Same
<1>3. ASSUME NEW tx \in Tx, NEW from, Begun(tx, from) PROVE Good
  <2>1. CASE x # tx
    BY <1>1, <1>2, <1>3, <2>1, Beginning
  <2>2. CASE x = tx
    <3>1. x \notin Sent /\ UNCHANGED <<events, finishing, result, mempool>>
      BY <1>3, <2>2 DEF Begun, intake
    <3>2. result[x] = "none" /\ finishing[x] = "no" /\ x \notin events /\ x \notin mempool
      BY <1>1, <3>1 DEF Unbegun, TypeOK
    <3> QED BY <3>1, <3>2
  <2> QED BY <2>1, <2>2
<1>4. ASSUME NEW tx \in Tx, Acts(tx) PROVE Good
  <2>1. CASE x # tx
    BY <1>1, <1>2, <1>4, <2>1, Acting
  <2>2. CASE x = tx
    <3>1. /\ x \in events \/ finishing[x] # "no" => result[x] # "none"
          /\ x \in mempool => result[x] = "none"
          /\ x \in mempool \/ result[x] # "none" => phase[x] \notin {"saving", "sent"}
      BY <1>1 DEF ResultsInOrder
    <3>2. CASE Saved(x)
      BY <1>1, <3>1, <3>2 DEF TypeOK, Saved, memory, intake, world
    <3>3. CASE Accept(x)
      BY <1>1, <3>1, <3>3 DEF TypeOK, Accept, memory, intake, world
    <3>4. CASE Respond(x)
      BY <1>1, <3>1, <3>4 DEF TypeOK, Respond, memory, intake, world
    <3>5. CASE Caught(x)
      BY <1>1, <3>1, <3>5 DEF TypeOK, Caught, Catch, memory, intake, world
    <3>6. CASE Answered(x)
      BY <1>1, <3>1, <3>6 DEF TypeOK, Answered, memory, intake, world
    <3>7. CASE DropRecord(x)
      BY <1>1, <3>1, <3>7 DEF TypeOK, DropRecord, memory, intake, world
    <3>8. CASE Commit(x)
      BY <1>1, <3>1, <3>8 DEF TypeOK, Commit, Results, memory, intake, world
    <3>9. CASE LookUp(x)
      BY <1>1, <3>1, <3>9 DEF TypeOK, LookUp, memory, intake, world
    <3>10. CASE QueryFails(x)
      BY <1>1, <3>1, <3>10 DEF TypeOK, QueryFails, memory, intake, world
    <3>11. CASE Process(x)
      BY <1>1, <3>1, <3>11 DEF TypeOK, Process, IsExpected, memory, intake, world
    <3>12. CASE Callback(x)
      BY <1>1, <3>1, <3>12 DEF TypeOK, Callback, memory, intake, world
    <3>13. CASE Clear(x)
      BY <1>1, <3>1, <3>13 DEF TypeOK, Clear, memory, intake, world
    <3> QED BY <1>4, <2>2, <3>2, <3>3, <3>4, <3>5, <3>6, <3>7, <3>8, <3>9, <3>10, <3>11, <3>12,
               <3>13 DEF Acts
  <2> QED BY <2>1, <2>2
<1>5. CASE Others
  <2>1. UNCHANGED <<result, mempool>>
    BY <1>5, OtherSteps DEF world
  <2>2. events' \subseteq events
    BY <1>5 DEF Others, Disconnect, Reconnect, CrashAndRestart, ReadSaved, LoadSaved, vars, intake
  <2>3. CASE UNCHANGED <<phase, finishing, calls, bookkeeping>>
    BY <1>1, <2>1, <2>2, <2>3 DEF ResultsInOrder
  <2>4. CASE CrashAndRestart
    BY <1>1, <2>1, <2>2, <2>4 DEF ResultsInOrder, CrashAndRestart
  <2> QED BY <1>5, <2>3, <2>4, OtherSteps
<1> QED
  BY <1>1, <1>3, <1>4, <1>5, StepCases

\* A retry is of the call of its record, and later than that.
LEMMA RetriesStep == IInv /\ [Next]_vars => RetriesMatch'
<1> SUFFICES ASSUME IInv, [Next]_vars PROVE RetriesMatch'
  OBVIOUS
<1> DEFINE Match(x) == origin[x] # None =>
                         /\ CallOf(origin[x]) = CallOf(x) /\ origin[x][2] < x[2]
                         /\ CallOf(x) \in Saving \ sync /\ x \notin stubborn
           MatchNext(x) == origin'[x] # None =>
                         /\ CallOf(origin'[x]) = CallOf(x) /\ origin'[x][2] < x[2]
                         /\ CallOf(x) \in Saving \ sync /\ x \notin stubborn'
           Goal == /\ \A x \in Tx : MatchNext(x)
                   /\ \A x \in backlog' : CallOf(x) \in Saving \ sync
                   /\ \A c \in Calls : <<c, "later">> \in told' => c \in Saving \ sync
                   /\ \A x \in stubborn' \cup retryData' : CallOf(x) \in Retrying \ sync
<1>1. TypeOK /\ Unbegun
  BY DEF IInv
<1>2. /\ \A x \in Tx : Match(x)
      /\ \A x \in backlog : CallOf(x) \in Saving \ sync
      /\ \A c \in Calls : <<c, "later">> \in told => c \in Saving \ sync
      /\ \A x \in stubborn \cup retryData : CallOf(x) \in Retrying \ sync
  BY DEF IInv, RetriesMatch
<1>3. UNCHANGED sync
  BY <1>1, StepCases, Beginning, Acting, OtherSteps DEF world
<1>4. SUFFICES Goal
  BY <1>3 DEF RetriesMatch
<1>5. ASSUME NEW x \in Tx, Same(x) PROVE MatchNext(x)
  BY <1>2, <1>5 DEF Same
<1>6. ASSUME NEW tx \in Tx, NEW from, Begun(tx, from) PROVE Goal
  <2>1. MatchNext(tx)
    <3>1. origin'[tx] = from
      BY <1>1, <1>6 DEF Begun, TypeOK
    <3>2. CASE from # None
      <4>1. from \in backlog /\ CallOf(from) = CallOf(tx) /\ tx \notin stubborn'
        BY <1>6, <3>2 DEF Begun
      <4>2. from \in Sent
        BY <1>1, <4>1 DEF TypeOK
      <4>3. from[2] < tx[2]
        BY <1>6, <4>1, <4>2 DEF Begun
      <4> QED BY <1>2, <3>1, <4>1, <4>3
    <3> QED BY <3>1, <3>2
  <2>2. \A x \in Tx : MatchNext(x)
    BY <1>1, <1>5, <1>6, <2>1, Beginning
  <2>3. \A x \in stubborn' \cup retryData' : CallOf(x) \in Retrying \ sync
    BY <1>2, <1>6 DEF Begun, redis
  <2> QED BY <1>2, <1>6, <2>2, <2>3 DEF Begun, redis
<1>7. ASSUME NEW tx \in Tx, Acts(tx) PROVE Goal
  <2>1. \A x \in Tx \ {tx} : MatchNext(x)
    BY <1>1, <1>5, <1>7, Acting
  <2>2. origin'[tx] \in {origin[tx], None} /\ UNCHANGED stubborn
    BY <1>1, <1>7 DEF TypeOK, Acts, Saved, Accept, Respond, Caught, Answered, DropRecord,
                      Commit, LookUp, QueryFails, Process, Callback, Clear,
                      memory, bookkeeping
  <2>3. MatchNext(tx)
    BY <1>2, <2>2
  <2>4. retryData' \subseteq retryData \cup stubborn
    BY <1>7 DEF Acts, Saved, Accept, Respond, Caught, Answered, DropRecord,
             Commit, LookUp, QueryFails, Process, Callback, Clear,
             IsExpected, redis
  <2>5. \A x \in backlog' : CallOf(x) \in Saving \ sync
    <3>1. backlog' \subseteq backlog \cup {tx}
      BY <1>7 DEF Acts, Saved, Accept, Respond, Caught, Answered, DropRecord,
             Commit, LookUp, QueryFails, Process, Callback, Clear,
             Catch, IsExpected, redis
    <3>2. tx \in backlog' => tx \in backlog \/ CallOf(tx) \in Saving \ sync
      BY <1>7 DEF Acts, Saved, Accept, Respond, Caught, Answered, DropRecord,
             Commit, LookUp, QueryFails, Process, Callback, Clear,
             Catch, IsExpected, redis
    <3> QED BY <1>2, <3>1, <3>2
  <2>6. ASSUME NEW c \in Calls, <<c, "later">> \in told' PROVE c \in Saving \ sync
    <3>1. CASE Caught(tx)
      BY <1>2, <2>6, <3>1 DEF Caught, Catch, Tell
    <3>2. CASE Callback(tx)
      BY <1>2, <2>6, <3>2 DEF Callback, Outcome
    <3>3. CASE Answered(tx)
      BY <1>2, <2>6, <3>3 DEF Answered
    <3>4. CASE ~Caught(tx) /\ ~Callback(tx) /\ ~Answered(tx)
      BY <1>2, <1>7, <2>6, <3>4 DEF Acts, Saved, Accept, Respond, Caught, Answered, DropRecord,
             Commit, LookUp, QueryFails, Process, Callback, Clear
    <3> QED BY <3>1, <3>2, <3>3, <3>4
  <2> QED BY <1>2, <2>1, <2>2, <2>3, <2>4, <2>5, <2>6
<1>8. CASE Others
  <2>1. UNCHANGED <<backlog, retryData, told>>
    BY <1>8, OtherSteps DEF redis
  <2>2. CASE UNCHANGED <<phase, finishing, calls, bookkeeping>>
    BY <1>2, <2>1, <2>2 DEF bookkeeping
  <2>3. CASE CrashAndRestart
    BY <1>2, <2>1, <2>3 DEF CrashAndRestart
  <2> QED BY <1>8, <2>2, <2>3, OtherSteps
<1> QED
  BY <1>1, <1>6, <1>7, <1>8, StepCases

\* What is loaded is nothing this process has dealt with, but for what it has
\* begun before.
LEMMA LoadStep == IInv /\ [Next]_vars => NotYetLoaded'
<1> SUFFICES ASSUME IInv, [Next]_vars PROVE NotYetLoaded'
  OBVIOUS
<1>1. TypeOK /\ Unbegun /\ NotYetLoaded
  BY DEF IInv
<1>2. ASSUME NEW tx \in Tx, NEW from, Begun(tx, from) PROVE NotYetLoaded'
  <2>1. UNCHANGED <<loading, snapshot>> /\ (loading # "done" => tx \in early')
    BY <1>2 DEF Begun, startup
  <2>2. \A x \in Tx \ {tx} : Same(x)
    BY <1>1, <1>2, Beginning
  <2> QED BY <1>1, <2>1, <2>2 DEF NotYetLoaded, Same
<1>3. ASSUME NEW tx \in Tx, Acts(tx) PROVE NotYetLoaded'
  <2>1. UNCHANGED <<loading, snapshot, early>> /\ \A x \in Tx \ {tx} : Same(x)
    BY <1>1, <1>3, Acting
  <2>2. ASSUME tx \notin expected, finishing[tx] = "no", calls[tx] = 0
        PROVE  tx \notin expected' /\ finishing'[tx] = "no" /\ calls'[tx] = 0
    BY <1>1, <1>3, <2>2 DEF TypeOK, Acts, Saved, Accept, Respond, Caught, Answered, DropRecord,
             Commit, LookUp, QueryFails, Process, Callback, Clear,
             Catch, IsExpected, memory
  <2> QED BY <1>1, <2>1, <2>2 DEF NotYetLoaded, Same
<1>4. CASE Others
  BY <1>1, <1>4 DEF NotYetLoaded, TypeOK, Others, Disconnect, Reconnect, CrashAndRestart,
                    ReadSaved, LoadSaved, vars, memory, bookkeeping, startup
<1> QED
  BY <1>1, <1>2, <1>3, <1>4, StepCases

\* A transaction is expected, on its way to the callback or called back.
LEMMA OneUseStep == IInv /\ [Next]_vars => OneUse'
<1> SUFFICES ASSUME IInv, [Next]_vars, NEW x \in Tx, x \notin early' PROVE Uses(x)' <= 1
  BY DEF OneUse
<1>1. TypeOK /\ Unbegun /\ NotYetLoaded /\ OneUse
  BY DEF IInv
<1>2. calls[x] \in Nat
  BY <1>1 DEF TypeOK
<1>3. ASSUME Same(x) PROVE Uses(x)' <= 1
  <2>1. x \notin early
    BY <1>3 DEF Same
  <2>2. Uses(x)' = Uses(x)
    BY <1>3 DEF Same, Uses
  <2> QED BY <1>1, <2>1, <2>2 DEF OneUse
<1>4. ASSUME NEW tx \in Tx, NEW from, Begun(tx, from) PROVE Uses(x)' <= 1
  <2>1. CASE x # tx
    BY <1>1, <1>3, <1>4, <2>1, Beginning
  <2>2. CASE x = tx
    <3>1. x \notin Sent /\ UNCHANGED <<finishing, calls>>
      BY <1>4, <2>2 DEF Begun
    <3>2. finishing[x] = "no" /\ calls[x] = 0
      BY <1>1, <3>1 DEF Unbegun
    <3> QED BY <3>1, <3>2 DEF Uses
  <2> QED BY <2>1, <2>2
<1>5. ASSUME NEW tx \in Tx, Acts(tx) PROVE Uses(x)' <= 1
  <2>1. CASE x # tx
    BY <1>1, <1>3, <1>5, <2>1, Acting
  <2>2. CASE x = tx
    <3>1. Uses(x) <= 1
      <4>1. x \notin early
        BY <1>1, <1>5, <2>2, Acting
      <4> QED BY <1>1, <4>1 DEF OneUse
    <3>2. CASE Process(x)
      BY <1>1, <1>2, <3>1, <3>2 DEF TypeOK, Uses, Process, IsExpected
    <3>3. CASE Callback(x)
      BY <1>1, <1>2, <3>1, <3>3 DEF TypeOK, Uses, Callback
    <3>4. CASE ~Process(x) /\ ~Callback(x)
      <4>1. expected' \subseteq expected /\ calls' = calls /\ finishing'[x] \in {finishing[x], "no"}
        BY <1>1, <1>5, <2>2, <3>4 DEF TypeOK, Acts, Saved, Accept, Respond, Caught, Answered,
             DropRecord, Commit, LookUp, QueryFails, Clear, Catch, memory
      <4> QED BY <1>2, <3>1, <4>1 DEF Uses
    <3> QED BY <3>2, <3>3, <3>4
  <2> QED BY <2>1, <2>2
<1>6. CASE LoadSaved
  <2>1. expected' = expected \cup snapshot /\ UNCHANGED <<finishing, calls, early>> /\ loading = "read"
    BY <1>6 DEF LoadSaved, bookkeeping
  <2>2. x \notin expected /\ finishing[x] = "no" /\ calls[x] = 0
    BY <1>1, <2>1 DEF NotYetLoaded
  <2> QED BY <2>1, <2>2 DEF Uses
<1>7. CASE CrashAndRestart
  BY <1>7 DEF CrashAndRestart, Uses
<1>8. CASE Others /\ ~LoadSaved /\ ~CrashAndRestart
  <2>1. UNCHANGED <<expected, finishing, calls, early>>
    BY <1>8 DEF Others, Disconnect, Reconnect, ReadSaved, vars, memory, bookkeeping
  <2> QED BY <1>1, <2>1 DEF OneUse, Uses
<1> QED
  BY <1>1, <1>4, <1>5, <1>6, <1>7, <1>8, StepCases

-----------------------------------------------------------------------------
(* Promises.                                                               *)

\* What a step does not touch holds the promise as before.
LEMMA SameHolds ==
    ASSUME NEW x \in Tx, Same(x), sync' = sync
    PROVE  /\ Outcome(x)' = Outcome(x)
           /\ Waits(x)' <=> Waits(x)
           /\ Holder(x) /\ (x \in backlog => x \in backlog') => Holder(x)'
<1>1. Outcome(x)' = Outcome(x)
  BY DEF Same, Outcome
<1>2. Waits(x)' <=> Waits(x)
  BY <1>1 DEF Same, Waits
<1> QED
  BY <1>1, <1>2 DEF Same, Holder

\* The backlog keeps its records, but for the one that was retried.
LEMMA BacklogKept ==
    ASSUME NEW tx \in Tx, Acts(tx), NEW x \in backlog, DropRecord(tx) => x # origin[tx]
    PROVE  x \in backlog'
BY DEF Acts, Saved, Accept, Respond, Caught, Answered, DropRecord, Commit, LookUp, QueryFails,
       Process, Callback, Clear, Catch, IsExpected, redis

\* A transaction that waits for its result holds on until the end of the call: it
\* is kept again if the chain is disabled.
LEMMA WaitEndsWell ==
    ASSUME IInv, NEW tx \in Tx, Acts(tx), Waits(tx), CallOf(tx) \in Saving \ sync,
           Open(CallOf(tx))', ~Caught(tx)
    PROVE  Waits(tx)' \/ tx \in backlog'
<1>1. TypeOK /\ ResultsInOrder /\ sync' = sync
  BY Acting DEF IInv
<1>2. /\ tx \in metadata
      /\ finishing[tx] = "no" \/ (finishing[tx] = "calling" /\ Outcome(tx) # "later")
  BY DEF Waits
<1>3. CASE Commit(tx)
  <2>1. finishing[tx] = "no"
    BY <1>1, <1>3 DEF Commit, ResultsInOrder
  <2> QED BY <1>2, <1>3, <2>1 DEF Commit, Waits, memory, redis
<1>4. CASE Process(tx)
  <2>1. Outcome(tx)' = Outcome(tx)
    BY <1>1, <1>4 DEF Process, Outcome, world
  <2>2. CASE IsExpected(tx) /\ Outcome(tx) = "later"
    BY <1>4, <2>2 DEF Process, Outcome
  <2>3. CASE IsExpected(tx) /\ Outcome(tx) # "later"
    BY <1>1, <1>2, <1>4, <2>1, <2>3 DEF TypeOK, Process, Waits
  <2>4. CASE ~IsExpected(tx)
    BY <1>2, <1>4, <2>1, <2>4 DEF Process, Waits
  <2> QED BY <2>2, <2>3, <2>4
<1>5. CASE Callback(tx)
  <2>1. Outcome(tx) \in {"ok", "error"}
    BY <1>2, <1>5 DEF Callback, Outcome
  <2>2. <<CallOf(tx), Outcome(tx)>> \in told'
    BY <1>5 DEF Callback
  <2> QED BY <2>1, <2>2 DEF Open
<1>6. CASE Clear(tx)
  BY <1>2, <1>6 DEF Clear
<1>7. CASE ~Commit(tx) /\ ~Process(tx) /\ ~Callback(tx) /\ ~Clear(tx)
  <2>1. /\ metadata \subseteq metadata'
        /\ UNCHANGED <<finishing, result>>
    BY <1>7 DEF Acts, Saved, Accept, Respond, Answered, DropRecord, LookUp, QueryFails,
                memory, redis, world
  <2>2. Outcome(tx)' = Outcome(tx)
    BY <1>1, <2>1 DEF Outcome
  <2> QED BY <1>2, <2>1, <2>2 DEF Waits
<1> QED
  BY <1>3, <1>4, <1>5, <1>6, <1>7

\* A holder goes on until the end of the call, unless it is a record that was
\* retried.
LEMMA HolderStays ==
    ASSUME IInv, NEW tx \in Tx, Acts(tx), NEW h \in Tx, Holder(h), CallOf(h) \in Saving \ sync,
           Open(CallOf(h))', DropRecord(tx) => h # origin[tx]
    PROVE  Holder(h)'
<1>1. TypeOK /\ Unbegun /\ sync' = sync
  BY Acting DEF IInv
<1>2. CASE h \in backlog
  BY <1>2, BacklogKept DEF Holder
<1>3. CASE h # tx /\ h \notin backlog
  BY <1>1, <1>3, Acting, SameHolds
<1>4. CASE h = tx /\ h \notin backlog
  <2>1. Waits(tx) /\ phase[tx] \notin InFlight
    BY <1>4 DEF Holder
  <2>2. ~Caught(tx)
    BY <2>1 DEF Caught, InFlight
  <2>3. phase'[tx] = phase[tx]
    BY <1>1, <2>1 DEF Acts, Saved, Accept, Respond, Caught, Answered, DropRecord, Commit, LookUp,
                      QueryFails, Process, Callback, Clear, memory, InFlight
  <2>4. Waits(tx)' \/ tx \in backlog'
    BY <1>4, <2>1, <2>2, WaitEndsWell
  <2> QED BY <1>4, <2>1, <2>3, <2>4 DEF Holder
<1> QED
  BY <1>2, <1>3, <1>4

\* When a holder goes, another one takes over, the retry or what came of it.
LEMMA HolderSucceeded ==
    ASSUME IInv, [Next]_vars, NEW h \in Tx, Holder(h), CallOf(h) \in Saving \ sync,
           Open(CallOf(h))'
    PROVE  \E g \in Tx : CallOf(g) = CallOf(h) /\ g[2] >= h[2] /\ Holder(g)'
<1>1. TypeOK /\ Unbegun /\ RetriesMatch /\ RetryHolds
  BY DEF IInv
<1>2. h[2] \in Nat
  BY TxIsPair
<1>3. ASSUME NEW tx \in Tx, NEW from, Begun(tx, from) PROVE Holder(h)'
  <2>1. h # tx
    BY <1>1, <1>3 DEF Holder, Waits, TypeOK, Begun
  <2> QED BY <1>1, <1>3, <2>1, Beginning, SameHolds
<1>4. ASSUME Others PROVE Holder(h)'
  <2>1. UNCHANGED <<metadata, backlog, sync, result>>
    BY <1>4, OtherSteps DEF redis, world
  <2>2. CASE UNCHANGED <<phase, finishing, calls, bookkeeping>>
    BY <2>1, <2>2 DEF Holder, Waits, Outcome
  <2>3. CASE CrashAndRestart
    BY <2>1, <2>3 DEF Holder, Waits, CrashAndRestart, InFlight
  <2> QED BY <1>4, <2>2, <2>3, OtherSteps
<1>5. ASSUME NEW tx \in Tx, Acts(tx)
      PROVE  \E g \in Tx : CallOf(g) = CallOf(h) /\ g[2] >= h[2] /\ Holder(g)'
  <2>1. CASE ~(DropRecord(tx) /\ h = origin[tx])
    BY <1>2, <1>5, <2>1, HolderStays
  <2>2. CASE DropRecord(tx) /\ h = origin[tx]
    <3>1. /\ phase[tx] \in {"returned", "later"} /\ origin[tx] # None
          /\ Open(CallOf(h))
      BY <2>2 DEF DropRecord, Open
    <3>2. CallOf(tx) = CallOf(h) /\ h[2] < tx[2] /\ tx[2] \in Nat
      BY <1>1, <2>2, <3>1, TxIsPair DEF RetriesMatch
    <3>3. PICK g \in Tx : CallOf(g) = CallOf(tx) /\ g[2] >= tx[2] /\ Holder(g)
      <4>1. Waits(tx) => Holder(tx)
        BY <3>1 DEF Holder, InFlight
      <4> QED BY <1>1, <3>1, <3>2, <4>1 DEF RetryHolds
    <3>4. g[2] \in Nat /\ g # h
      BY <3>2, <3>3, <1>2, TxIsPair
    <3>5. Holder(g)'
      BY <1>5, <2>2, <3>2, <3>3, <3>4, HolderStays
    <3> QED BY <1>2, <3>2, <3>3, <3>4, <3>5
  <2> QED BY <2>1, <2>2
<1> QED
  BY <1>1, <1>2, <1>3, <1>4, <1>5, StepCases

\* A result that was told stays told.
LEMMA OpenBefore ==
    ASSUME TypeOK, Unbegun, [Next]_vars, NEW c, Open(c)'
    PROVE  Open(c)
<1>1. told \subseteq told'
  BY StepCases, Beginning, Acting, OtherSteps
<1> QED
  BY <1>1 DEF Open

\* Whoever is promised a retry has a holder.
LEMMA PromiseStep == IInv /\ [Next]_vars => PromiseHeld'
<1> SUFFICES ASSUME IInv, [Next]_vars, NEW c \in Calls, Open(c)', Promised(c)'
             PROVE  \E h \in Tx : CallOf(h) = c /\ Holder(h)'
  BY DEF PromiseHeld
<1>1. TypeOK /\ Unbegun /\ ResultsInOrder /\ RetriesMatch /\ PromiseHeld
  BY DEF IInv
<1>2. Open(c)
  BY <1>1, OpenBefore
<1>3. CASE Promised(c)
  <2>1. PICK h \in Tx : CallOf(h) = c /\ Holder(h)
    BY <1>1, <1>2, <1>3 DEF PromiseHeld
  <2>2. c \in Saving \ sync
    BY <1>1, <1>3 DEF Promised, RetriesMatch, Outcome
  <2> QED BY <2>1, <2>2, HolderSucceeded
<1>4. CASE ~Promised(c)
  <2>1. <<c, "later">> \notin told /\ \A x \in Tx : CallOf(x) = c => ~(finishing[x] = "calling" /\ Outcome(x) = "later")
    BY <1>4 DEF Promised
  <2>2. ASSUME NEW tx \in Tx, NEW from, Begun(tx, from) PROVE FALSE
    <3>1. UNCHANGED <<told, finishing, result, sync>>
      BY <2>2 DEF Begun
    <3> QED BY <2>1, <3>1 DEF Promised, Outcome
  <2>3. CASE Others
    <3>1. UNCHANGED <<told, result, sync>>
      BY <2>3, OtherSteps DEF world
    <3>2. finishing' = finishing \/ finishing' = [tx \in Tx |-> "no"]
      BY <2>3, OtherSteps DEF CrashAndRestart
    <3> QED BY <2>1, <3>1, <3>2 DEF Promised, Outcome
  <2>4. ASSUME NEW tx \in Tx, Acts(tx) PROVE \E h \in Tx : CallOf(h) = c /\ Holder(h)'
    <3>1. sync' = sync /\ \A x \in Tx \ {tx} : finishing'[x] = finishing[x] /\ Outcome(x)' = Outcome(x)
      BY <1>1, <2>4, Acting, SameHolds DEF Same
    <3>2. CASE Caught(tx)
      <4>1. UNCHANGED <<finishing, result>>
        BY <3>2 DEF Caught, world
      <4>2. <<c, "later">> \in told'
        BY <2>1, <3>1, <4>1 DEF Promised, Outcome
      <4>3. tx \in backlog' /\ CallOf(tx) = c
        BY <2>1, <3>2, <4>2 DEF Caught, Catch, Tell
      <4> QED BY <4>3 DEF Holder
    <3>3. CASE Process(tx)
      <4>1. UNCHANGED <<told, result>>
        BY <3>3 DEF Process, world
      <4>2. finishing'[tx] = "calling" /\ Outcome(tx)' = "later" /\ CallOf(tx) = c
        BY <2>1, <3>1, <4>1 DEF Promised
      <4>3. Outcome(tx) = "later"
        BY <3>1, <4>1, <4>2 DEF Outcome
      <4>4. IsExpected(tx)
        BY <2>1, <3>3, <4>2, <4>3 DEF Process
      <4>5. tx \in backlog'
        BY <3>3, <4>3, <4>4 DEF Process, Outcome
      <4> QED BY <4>2, <4>5 DEF Holder
    <3>4. CASE Callback(tx)
      <4>1. UNCHANGED result /\ finishing'[tx] # "calling"
        BY <1>1, <3>4 DEF Callback, TypeOK, world
      <4>2. <<c, "later">> \in told'
        BY <2>1, <3>1, <4>1 DEF Promised
      <4> QED BY <2>1, <3>4, <4>2 DEF Callback
    <3>5. CASE Commit(tx)
      <4>1. finishing'[tx] # "calling" /\ UNCHANGED told
        BY <1>1, <3>5 DEF Commit, ResultsInOrder, memory
      <4> QED BY <2>1, <3>1, <4>1 DEF Promised
    <3>6. CASE ~Caught(tx) /\ ~Process(tx) /\ ~Callback(tx) /\ ~Commit(tx)
      <4>1. /\ UNCHANGED result /\ finishing'[tx] \in {finishing[tx], "no"}
            /\ told' \subseteq told \cup {<<CallOf(tx), "ok">>}
        BY <1>1, <2>4, <3>6 DEF TypeOK, Acts, Saved, Accept, Respond, Answered, DropRecord,
           LookUp,
                                QueryFails, Clear, memory, world
      <4>2. Outcome(tx)' = Outcome(tx)
        BY <3>1, <4>1 DEF Outcome
      <4> QED BY <2>1, <3>1, <4>1, <4>2 DEF Promised
    <3> QED BY <3>2, <3>3, <3>4, <3>5, <3>6
  <2> QED BY <1>1, <2>2, <2>3, <2>4, StepCases
<1> QED
  BY <1>3, <1>4

\* A retry that was sent holds the promise with its record.
LEMMA RetryStep == IInv /\ [Next]_vars => RetryHolds'
<1> DEFINE Tried == {"sent", "accepted", "returned", "later"}
<1> SUFFICES ASSUME IInv, [Next]_vars, NEW x \in Tx,
                    Open(CallOf(x))', origin'[x] # None, phase'[x] \in Tried
             PROVE  Waits(x)' \/ \E h \in Tx : CallOf(h) = CallOf(x) /\ h[2] >= x[2] /\ Holder(h)'
  BY DEF RetryHolds
<1> DEFINE Held == \E h \in Tx : CallOf(h) = CallOf(x) /\ h[2] >= x[2] /\ Holder(h)
           HeldNext == \E h \in Tx : CallOf(h) = CallOf(x) /\ h[2] >= x[2] /\ Holder(h)'
<1>1. TypeOK /\ Unbegun /\ ResultsInOrder /\ RetriesMatch /\ RetryHolds
  BY DEF IInv
<1>2. Open(CallOf(x)) /\ x[2] \in Nat
  BY <1>1, OpenBefore, TxIsPair
<1>3. ASSUME Held, origin[x] # None PROVE HeldNext
  <2>1. PICK h \in Tx : CallOf(h) = CallOf(x) /\ h[2] >= x[2] /\ Holder(h)
    BY <1>3
  <2>2. CallOf(h) \in Saving \ sync
    BY <1>1, <1>3, <2>1 DEF RetriesMatch
  <2>3. PICK g \in Tx : CallOf(g) = CallOf(h) /\ g[2] >= h[2] /\ Holder(g)'
    BY <1>2, <2>1, <2>2, HolderSucceeded
  <2>4. g[2] \in Nat /\ h[2] \in Nat
    BY TxIsPair
  <2> QED BY <1>2, <2>1, <2>3, <2>4
<1>4. ASSUME Same(x), sync' = sync PROVE Waits(x)' \/ HeldNext
  <2>1. origin[x] # None /\ phase[x] \in Tried
    BY <1>4 DEF Same
  <2>2. Waits(x) \/ Held
    BY <1>1, <1>2, <2>1 DEF RetryHolds
  <2> QED BY <1>3, <1>4, <2>1, <2>2, SameHolds
<1>5. ASSUME NEW tx \in Tx, NEW from, Begun(tx, from) PROVE Waits(x)' \/ HeldNext
  <2>1. x # tx
    BY <1>1, <1>5 DEF Begun, TypeOK
  <2> QED BY <1>1, <1>4, <1>5, <2>1, Beginning
<1>6. CASE Others
  <2>1. UNCHANGED <<phase, finishing, calls, bookkeeping>>
    BY <1>6, OtherSteps DEF CrashAndRestart
  <2>2. origin[x] # None /\ phase[x] \in Tried
    BY <2>1 DEF bookkeeping
  <2>3. Waits(x) \/ Held
    BY <1>1, <1>2, <2>2 DEF RetryHolds
  <2>4. UNCHANGED <<metadata, sync, result>>
    BY <1>6, OtherSteps DEF redis, world
  <2>5. Waits(x) => Waits(x)'
    BY <2>1, <2>4 DEF Waits, Outcome
  <2> QED BY <1>3, <2>2, <2>3, <2>5
<1>7. ASSUME NEW tx \in Tx, Acts(tx), x # tx PROVE Waits(x)' \/ HeldNext
  BY <1>1, <1>4, <1>7, Acting
<1>8. CASE Acts(x)
  <2>1. origin[x] # None
    BY <1>1, <1>8 DEF TypeOK, Acts, Saved, Accept, Respond, Caught, Answered, DropRecord, Commit,
                      LookUp, QueryFails, Process, Callback, Clear, memory, bookkeeping
  <2>2. CallOf(x) \in Saving \ sync /\ x \notin stubborn
    BY <1>1, <2>1 DEF RetriesMatch
  <2>3. CASE Saved(x)
    <3>1. finishing[x] = "no"
      BY <1>1, <2>3 DEF ResultsInOrder, Saved
    <3> QED BY <2>3, <3>1 DEF Saved, Waits
  <2>4. CASE Caught(x)
    <3>1. PICK code : Catch(x, code)
      BY <2>4 DEF Caught
    <3>2. x \in backlog'
      BY <1>1, <2>2, <3>1 DEF Catch, TypeOK
    <3> QED BY <1>2, <3>2 DEF Holder
  <2>5. CASE Answered(x)
    BY <2>5 DEF Answered, Open
  <2>6. CASE ~Saved(x) /\ ~Caught(x) /\ ~Answered(x)
    <3>1. phase[x] \in Tried
      BY <1>1, <1>8, <2>6 DEF TypeOK, Acts, Accept, Respond, DropRecord, Commit, LookUp,
                              QueryFails, Process, Callback, Clear, memory
    <3>2. Waits(x) \/ Held
      BY <1>1, <1>2, <2>1, <3>1 DEF RetryHolds
    <3>3. CASE Waits(x)
      <4>1. Waits(x)' \/ x \in backlog'
        BY <1>8, <2>2, <2>6, <3>3, WaitEndsWell
      <4> QED BY <1>2, <4>1 DEF Holder
    <3> QED BY <1>3, <2>1, <3>2, <3>3
  <2> QED BY <2>3, <2>4, <2>5, <2>6
<1> QED
  BY <1>1, <1>5, <1>6, <1>7, <1>8, StepCases

-----------------------------------------------------------------------------
(* Theorems.                                                               *)

\* The invariant is inductive.
THEOREM Invariant == Spec => []IInv
<1>1. Init => IInv
  <2> SUFFICES ASSUME Init PROVE IInv
    OBVIOUS
  <2>1. TypeOK
    BY ConstantsAssumption DEF Init, TypeOK, Sent
  <2>2. Unbegun /\ ResultsInOrder /\ RetriesMatch /\ NotYetLoaded
    BY DEF Init, Unbegun, ResultsInOrder, RetriesMatch, NotYetLoaded
  <2>3. OneUse
    BY DEF Init, OneUse, Uses
  <2>4. PromiseHeld /\ RetryHolds
    BY DEF Init, PromiseHeld, Promised, RetryHolds
  <2> QED BY <2>1, <2>2, <2>3, <2>4 DEF IInv
<1>2. IInv /\ [Next]_vars => IInv'
  BY TypeStep, UnbegunStep, ResultsStep, RetriesStep, LoadStep, OneUseStep, PromiseStep, RetryStep
     DEF IInv
<1> QED
  BY <1>1, <1>2, PTL DEF Spec

\* The types, and only what was begun is kept or awaited.
THEOREM TypeCorrect == Spec => []TypeOK
BY Invariant, PTL DEF IInv

\* The callback of a transaction that was begun after loading is called at most
\* once by a process, from wherever the process hears of the block.
THEOREM CalledOnceOnly == Spec => []CalledOnce
<1>1. IInv => CalledOnce
  BY DEF IInv, TypeOK, OneUse, Uses, CalledOnce
<1> QED
  BY <1>1, Invariant, PTL

\* A call whose retry was promised is never lost, whatever is refused and
\* whenever the process stops.
THEOREM PromiseIsKept == Spec => []LaterIsKept
<1>1. IInv => LaterIsKept
  BY DEF IInv, PromiseHeld, Promised, Open, Holder, Waits, LaterIsKept
<1> QED
  BY <1>1, Invariant, PTL

=============================================================================
