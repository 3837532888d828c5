------------------------------ MODULE MqProofs ------------------------------
(***************************************************************************)
(* Safety of the message queue, for any messages and any bounds: sending   *)
(* in the service, then receiving in the client.                           *)
(*                                                                         *)
(* MqSend keeps sound records and implements SendCall.  The strengthening  *)
(* says which copies the records are about (PoolInv), that the call        *)
(* registered for a message is one that still has no answer (CallsInv),    *)
(* and that an acknowledgement on its way is of an acknowledged message.   *)
(*                                                                         *)
(* MqInbound, in the second half: a raw message is removed only when its   *)
(* processing has ended (RemovedWhenEnded), a process that is down holds   *)
(* nothing (DownIsEmpty), and a message that came after the backlog is in  *)
(* one place only, with the copies that could bring it in again ignored or *)
(* impossible (InOnePlace).                                                *)
(***************************************************************************)
EXTENDS MqSend, MqInbound, FiniteSetTheorems, WellFoundedInduction, TLAPS

Copy == [message : Messages, count : 1 .. MaxRetries, timer : BOOLEAN]
Socket == [dest : Dests, owner : Messages, users : SUBSET SeqIds]

\* What is being sent, and where: the part of TypeOK that is about it, ...
PoolType ==
    /\ maxSeqId \in Nat
    /\ seqMap \in [DOMAIN seqMap -> Copy]
    /\ sockets \in [DOMAIN sockets -> Socket]
    /\ socketMap \in [DOMAIN socketMap -> DOMAIN sockets]
    /\ DOMAIN seqMap \subseteq SeqIds /\ DOMAIN sockets \subseteq SeqIds
    /\ seqIdList \in [Messages -> SUBSET SeqIds]

\* ... and the two records of the copies agree: those of the retries, and those of
\* the sockets.
PoolInv ==
    /\ PoolType
    /\ \A m \in Messages : seqIdList[m] = {t \in DOMAIN seqMap : seqMap[t].message = m}
    /\ DOMAIN socketMap = DOMAIN seqMap
    /\ SocketsInUse

CallsType ==
    /\ status \in [Calls -> {"none", "open", "ok", "failed", "gone", "ended"}]
    /\ answered \in [Calls -> Nat]
    /\ sendCalls \in [Messages -> Calls \cup {None}]

\* A registered call is for its message and has no answer; a call has one answer
\* at most, and only after it was made.
CallsInv ==
    /\ CallsType
    /\ \A m \in Messages : sendCalls[m] # None =>
           /\ MessageOf(sendCalls[m]) = m
           /\ answered[sendCalls[m]] = 0
           /\ status[sendCalls[m]] \in {"open", "gone"}
    /\ \A c \in Calls : answered[c] # 0 =>
           /\ answered[c] = 1
           /\ status[c] \in {"ok", "failed", "ended"}

NetInv ==
    /\ dest \in [Messages -> Dests] /\ acknowledged \subseteq Messages
    /\ wire \subseteq Copies /\ acks \subseteq Copies /\ errors \in 0 .. MaxErrors
    /\ \A copy \in acks : copy.message \in acknowledged

IInv == PoolInv /\ CallsInv /\ NetInv /\ RegisteredIsTended

-----------------------------------------------------------------------------
(* Facts about numbers and sets.                                           *)

Less == {p \in Nat \X Nat : p[1] < p[2]}

LEMMA LessWellFounded == IsWellFoundedOn(Less, Nat)
<1>1. OpToRel(<, Nat) = Less
  BY DEF OpToRel, Less
<1> QED
  BY <1>1, NatLessThanWellFounded

\* SocketFor() takes the least of the sockets that will do.
LEMMA MinIsIn == ASSUME NEW S \in SUBSET Nat, S # {} PROVE Min(S) \in S
<1>1. \E x \in S : \A y \in S : ~(<<y, x>> \in Less)
  <2> DEFINE R == Less
  <2>1. IsWellFoundedOn(R, Nat) /\ S \subseteq Nat
    BY LessWellFounded
  <2> HIDE DEF R
  <2>2. \E x \in S : \A y \in S : ~(<<y, x>> \in R)
    BY <2>1, WFMin, Zenon
  <2> QED
    BY <2>2 DEF R
<1>2. PICK x \in S : \A y \in S : ~(<<y, x>> \in Less)
  BY <1>1
<1>3. ASSUME NEW y \in S PROVE x <= y
  <2>1. x \in Nat /\ y \in Nat
    OBVIOUS
  <2>2. ~(y < x)
    BY <2>1, <1>2 DEF Less
  <2> QED
    BY <2>1, <2>2
<1> QED
  BY <1>3 DEF Min

\* The users of a socket can be counted.
LEMMA UsersFinite ==
    ASSUME PoolType, NEW s \in DOMAIN sockets
    PROVE  IsFiniteSet(sockets[s].users)
<1>1. sockets[s].users \subseteq 1 .. maxSeqId
  BY DEF PoolType, Socket, SeqIds
<1>2. IsFiniteSet(1 .. maxSeqId)
  BY FS_Interval DEF PoolType
<1> QED
  BY <1>1, <1>2, FS_Subset

-----------------------------------------------------------------------------
(* What the parts of the handlers do.                                      *)

\* A message is done with: its copies are forgotten by the retries and the sockets.
LEMMA CleanUpKeeps ==
    ASSUME PoolInv, dest' = dest, NEW m \in Messages, CleanUp(m)
    PROVE  /\ PoolInv'
           /\ maxSeqId' = maxSeqId
           /\ DOMAIN seqMap' = {t \in DOMAIN seqMap : seqMap[t].message # m}
           /\ \A t \in DOMAIN seqMap' : seqMap'[t] = seqMap[t]
<1> DEFINE mine == {t \in DOMAIN seqMap : seqMap[t].message = m}
<1>1. /\ maxSeqId' = maxSeqId /\ maxSeqId \in Nat
      /\ SeqIds' = SeqIds
  BY DEF CleanUp, PoolInv, PoolType, SeqIds
<1>2. seqMap' = [t \in DOMAIN seqMap \ mine |-> seqMap[t]]
  BY DEF CleanUp, Restrict
<1>3. /\ DOMAIN seqMap' = DOMAIN seqMap \ mine
      /\ \A t \in DOMAIN seqMap' : seqMap'[t] = seqMap[t]
  BY <1>2
<1>4. seqMap' \in [DOMAIN seqMap' -> Copy]
  BY <1>2, <1>3 DEF PoolInv, PoolType
<1>5. Places(m) = mine
  BY DEF PoolInv, Places
<1>6. CASE mine = {}
  <2>1. UNCHANGED pool
    BY <1>6 DEF CleanUp
  <2>2. seqMap' = seqMap
    BY <1>2, <1>6 DEF PoolInv, PoolType
  <2>3. PoolInv'
    BY <1>1, <2>1, <2>2 DEF PoolInv, PoolType, SocketsInUse, pool, Socket, SeqIds
  <2> QED
    BY <1>1, <1>3, <2>3
<1>7. CASE mine # {}
  <2> DEFINE Left(s) == sockets[s].users \ mine
             kept == {s \in DOMAIN sockets : Left(s) # {}}
  <2>1. SocketCleanUp(m)
    BY <1>7 DEF CleanUp
  <2>2. /\ DOMAIN sockets' = kept
        /\ \A s \in kept : sockets'[s] = [sockets[s] EXCEPT !.users = Left(s)]
        /\ sockets' = [s \in kept |-> sockets'[s]]
    <3> DEFINE left == [s \in DOMAIN sockets |-> [sockets[s] EXCEPT !.users = @ \ mine]]
    <3>1. sockets' = Restrict(left, {s \in DOMAIN left : left[s].users # {}})
      BY <2>1, <1>5 DEF SocketCleanUp
    <3>2. \A s \in DOMAIN sockets : left[s].users = Left(s)
      BY DEF PoolInv, PoolType, Socket
    <3>3. {s \in DOMAIN left : left[s].users # {}} = kept
      BY <3>2
    <3>4. sockets' = [s \in kept |-> left[s]]
      BY <3>1, <3>3 DEF Restrict
    <3> QED
      BY <3>4
  <2>3. /\ socketMap' = [t \in DOMAIN socketMap \ mine |-> socketMap[t]]
        /\ seqIdList' = [seqIdList EXCEPT ![m] = {}]
    BY <2>1, <1>5 DEF SocketCleanUp, Restrict
  <2>4. /\ DOMAIN socketMap' = DOMAIN seqMap'
        /\ \A t \in DOMAIN seqMap' : socketMap'[t] = socketMap[t]
    BY <1>3, <2>3 DEF PoolInv
  <2>5. \A s \in kept : /\ sockets'[s].users = Left(s) /\ sockets'[s].dest = sockets[s].dest
                        /\ sockets'[s] \in Socket
    <3> SUFFICES ASSUME NEW s \in kept
                 PROVE  /\ sockets'[s].users = Left(s) /\ sockets'[s].dest = sockets[s].dest
                        /\ sockets'[s] \in Socket
      OBVIOUS
    <3>1. sockets[s] \in Socket /\ Left(s) \in SUBSET SeqIds
      BY DEF PoolInv, PoolType, Socket
    <3> HIDE DEF Left
    <3>2. sockets'[s] = [sockets[s] EXCEPT !.users = Left(s)]
      BY <2>2
    <3> QED
      BY <3>1, <3>2 DEF Socket
  <2>6. \A t \in DOMAIN seqMap' : {s \in DOMAIN sockets' : t \in sockets'[s].users} = {socketMap'[t]}
    <3> SUFFICES ASSUME NEW t \in DOMAIN seqMap'
                 PROVE  {s \in DOMAIN sockets' : t \in sockets'[s].users} = {socketMap'[t]}
      OBVIOUS
    <3>1. t \in DOMAIN seqMap /\ t \notin mine
      BY <1>3
    <3>2. {s \in DOMAIN sockets : t \in sockets[s].users} = {socketMap[t]}
      BY <3>1 DEF PoolInv, SocketsInUse
    <3>3. \A s \in DOMAIN sockets : t \in sockets[s].users => s \in kept
      BY <3>1
    <3>4. {s \in DOMAIN sockets' : t \in sockets'[s].users} = {s \in DOMAIN sockets : t \in sockets[s].users}
      BY <2>2, <2>5, <3>1, <3>3
    <3> QED
      BY <3>2, <3>4, <2>4
  <2>7. \A s \in kept : /\ Left(s) # {} /\ Cardinality(Left(s)) <= Limit
                        /\ \A t \in Left(s) : /\ t \in DOMAIN seqMap'
                                              /\ dest[seqMap'[t].message] = sockets[s].dest
    <3> SUFFICES ASSUME NEW s \in kept
                 PROVE  /\ Cardinality(Left(s)) <= Limit
                        /\ \A t \in Left(s) : /\ t \in DOMAIN seqMap'
                                              /\ dest[seqMap'[t].message] = sockets[s].dest
      OBVIOUS
    <3>1. IsFiniteSet(sockets[s].users)
      BY UsersFinite DEF PoolInv
    <3>2. /\ Cardinality(Left(s)) <= Cardinality(sockets[s].users)
          /\ Cardinality(Left(s)) \in Nat /\ Cardinality(sockets[s].users) \in Nat
      BY <3>1, FS_Subset, FS_CardinalityType
    <3>3. Cardinality(sockets[s].users) <= Limit /\ Limit \in Nat
      BY ConstantsAssumption DEF PoolInv, SocketsInUse
    <3>4. \A t \in Left(s) : t \in DOMAIN seqMap /\ dest[seqMap[t].message] = sockets[s].dest
      BY DEF PoolInv, SocketsInUse
    <3> QED
      BY <3>2, <3>3, <3>4, <1>3
  <2>8. SocketsInUse'
    BY <2>2, <2>5, <2>6, <2>7 DEF SocketsInUse
  <2>9. socketMap' \in [DOMAIN socketMap' -> DOMAIN sockets']
    <3>1. \A t \in DOMAIN seqMap' : socketMap'[t] \in DOMAIN sockets'
      BY <2>6
    <3> QED
      BY <3>1, <2>3, <2>4
  <2>10. sockets' \in [DOMAIN sockets' -> Socket']
    <3>1. Socket' = Socket
      BY <1>1 DEF Socket
    <3> QED
      BY <2>2, <2>5, <3>1
  <2>11. PoolType'
    BY <1>1, <1>3, <1>4, <2>2, <2>3, <2>9, <2>10 DEF PoolInv, PoolType, Copy
  <2>12. \A n \in Messages : seqIdList'[n] = {t \in DOMAIN seqMap' : seqMap'[t].message = n}
    BY <1>3, <2>3 DEF PoolInv, PoolType
  <2> QED
    BY <1>1, <1>3, <2>4, <2>8, <2>11, <2>12 DEF PoolInv
<1> QED
  BY <1>6, <1>7

\* Another copy of a message is sent, on a socket with room or on a new one.
LEMMA SendKeeps ==
    ASSUME PoolInv, dest \in [Messages -> Dests], dest' = dest, NEW m \in Messages,
           NEW k \in 0 .. MaxRetries - 1,
           NEW others \in [DOMAIN seqMap -> Copy],
           \A t \in DOMAIN seqMap : others[t].message = seqMap[t].message,
           PerformSend(m, k, others)
    PROVE  /\ PoolInv'
           /\ maxSeqId' = maxSeqId + 1
           /\ DOMAIN seqMap' = DOMAIN seqMap \cup {maxSeqId + 1}
           /\ \A t \in DOMAIN seqMap : seqMap'[t] = others[t]
           /\ seqMap'[maxSeqId + 1].message = m /\ seqMap'[maxSeqId + 1].timer
           /\ \E copy \in Copies' : wire' = wire \cup {copy} /\ copy.message = m
<1> DEFINE seqId == maxSeqId + 1
           x == SocketFor(m, seqId)
           free == {s \in DOMAIN sockets : sockets[s].dest = dest[m] /\ HasRoom(s)}
           fresh == [dest |-> dest[m], owner |-> m, users |-> {seqId}]
           copyOf == [message |-> m, count |-> k + 1, timer |-> TRUE]
<1>1. /\ maxSeqId' = seqId /\ maxSeqId \in Nat /\ seqId \in Nat
      /\ SeqIds' = SeqIds \cup {seqId} /\ seqId \notin SeqIds
  <2>1. maxSeqId \in Nat
    BY DEF PoolInv, PoolType
  <2>2. maxSeqId' = maxSeqId + 1
    BY DEF PerformSend
  <2>3. 1 .. (maxSeqId + 1) = (1 .. maxSeqId) \cup {maxSeqId + 1}
    BY <2>1
  <2> QED
    BY <2>1, <2>2, <2>3 DEF SeqIds
<1>2. seqId \notin DOMAIN seqMap /\ seqId \notin DOMAIN sockets
  BY <1>1 DEF PoolInv, PoolType
<1>3. copyOf \in Copy
  BY ConstantsAssumption DEF Copy
<1>4. /\ DOMAIN seqMap' = DOMAIN seqMap \cup {seqId}
      /\ \A t \in DOMAIN seqMap : seqMap'[t] = others[t]
      /\ seqMap'[seqId] = copyOf
      /\ seqMap' \in [DOMAIN seqMap' -> Copy]
  <2> HIDE DEF copyOf, seqId
  <2>1. seqMap' = [t \in DOMAIN others \cup {seqId} |-> IF t = seqId THEN copyOf ELSE others[t]]
    BY DEF PerformSend, copyOf, seqId
  <2> QED
    BY <2>1, <1>2, <1>3
<1>5. x \in DOMAIN sockets \cup {seqId}
      /\ (x \in DOMAIN sockets => sockets[x].dest = dest[m] /\ HasRoom(x))
  <2>1. CASE free = {}
    BY <2>1, <1>2 DEF SocketFor
  <2>2. CASE free # {}
    <3>1. free \in SUBSET Nat
      BY <1>1 DEF PoolInv, PoolType, SeqIds
    <3>2. Min(free) \in free
      BY <2>2, <3>1, MinIsIn
    <3>3. x = Min(free)
      BY <2>2 DEF SocketFor
    <3> QED
      BY <3>2, <3>3
  <2> QED
    BY <2>1, <2>2
<1>6. SocketSend(m, seqId)
  BY DEF PerformSend
<1> HIDE DEF x, seqId
<1>7. /\ socketMap' = [t \in DOMAIN socketMap \cup {seqId} |-> IF t = seqId THEN x ELSE socketMap[t]]
      /\ seqIdList' = [seqIdList EXCEPT ![m] = @ \cup {seqId}]
      /\ wire' = wire \cup {[seqId |-> seqId, message |-> m, socket |-> x]}
  BY <1>6 DEF SocketSend, x
<1>8. /\ x \in DOMAIN sockets => sockets' = [sockets EXCEPT ![x].users = @ \cup {seqId}]
      /\ x \notin DOMAIN sockets => sockets' = [t \in DOMAIN sockets \cup {x} |-> IF t = x THEN fresh ELSE sockets[t]]
  BY <1>6 DEF SocketSend, x
<1>9. /\ DOMAIN sockets' = DOMAIN sockets \cup {x}
      /\ sockets' = [s \in DOMAIN sockets \cup {x} |-> sockets'[s]]
      /\ \A s \in DOMAIN sockets \ {x} : sockets'[s] = sockets[s]
      /\ sockets'[x].dest = dest[m]
      /\ sockets'[x].users = (IF x \in DOMAIN sockets THEN sockets[x].users ELSE {}) \cup {seqId}
      /\ sockets'[x].owner \in Messages /\ sockets'[x] \in Socket'
  <2>1. CASE x \in DOMAIN sockets
    <3>1. sockets[x] \in Socket
      BY <2>1 DEF PoolInv, PoolType
    <3>2. sockets'[x] = [sockets[x] EXCEPT !.users = sockets[x].users \cup {seqId}]
      BY <2>1, <1>8
    <3>3. sockets[x].users \cup {seqId} \in SUBSET SeqIds'
      BY <3>1, <1>1 DEF Socket
    <3>4. [sockets[x] EXCEPT !.users = sockets[x].users \cup {seqId}] \in Socket'
      BY <3>1, <3>3 DEF Socket
    <3>5. sockets' = [s \in DOMAIN sockets |->
                        IF s = x THEN sockets'[x] ELSE sockets[s]]
      BY <2>1, <1>8, <3>2
    <3>6. sockets'[x].dest = sockets[x].dest /\ sockets'[x].owner = sockets[x].owner
          /\ sockets'[x].users = sockets[x].users \cup {seqId}
      BY <3>1, <3>2 DEF Socket
    <3>7. sockets'[x] \in Socket'
      BY <3>2, <3>4
    <3>8. sockets[x].owner \in Messages
      BY <3>1 DEF Socket
    <3> HIDE DEF Socket
    <3> QED
      BY <2>1, <3>5, <3>6, <3>7, <3>8, <1>5
  <2>2. CASE x \notin DOMAIN sockets
    <3>1. sockets'[x] = fresh
      BY <2>2, <1>8
    <3>2. fresh \in Socket'
      BY <1>1 DEF Socket
    <3> QED
      BY <2>2, <3>1, <3>2, <1>8 DEF Socket
  <2> QED
    BY <2>1, <2>2
<1>10. \A s \in DOMAIN sockets : seqId \notin sockets[s].users
  BY <1>1 DEF PoolInv, PoolType, Socket
<1>11. \A s \in DOMAIN sockets' : /\ sockets'[s].users # {}
                                  /\ Cardinality(sockets'[s].users) <= Limit
  <2>1. CASE x \in DOMAIN sockets
    <3>1. IsFiniteSet(sockets[x].users) /\ Cardinality(sockets[x].users) \in Nat
      BY <2>1, UsersFinite, FS_CardinalityType DEF PoolInv
    <3>2. Cardinality(sockets[x].users \cup {seqId}) = Cardinality(sockets[x].users) + 1
      BY <2>1, <3>1, <1>10, FS_AddElement
    <3>3. Cardinality(sockets[x].users) < Limit /\ Limit \in Nat
      BY <2>1, <1>5, ConstantsAssumption DEF HasRoom
    <3>4. Cardinality(sockets'[x].users) <= Limit
      BY <2>1, <3>1, <3>2, <3>3, <1>9
    <3> QED
      BY <3>4, <1>9 DEF PoolInv, SocketsInUse
  <2>2. CASE x \notin DOMAIN sockets
    <3>1. sockets'[x].users = {seqId}
      BY <2>2, <1>9
    <3>2. Cardinality({seqId}) = 1
      BY FS_Singleton, Zenon
    <3>3. 1 <= Limit
      BY ConstantsAssumption
    <3> QED
      BY <3>1, <3>2, <3>3, <1>9 DEF PoolInv, SocketsInUse
  <2> QED
    BY <2>1, <2>2
<1>12. \A t \in DOMAIN seqMap' : seqMap'[t].message = IF t = seqId THEN m ELSE seqMap[t].message
  BY <1>4
<1>13. \A s \in DOMAIN sockets' : \A t \in sockets'[s].users :
           t \in DOMAIN seqMap' /\ dest'[seqMap'[t].message] = sockets'[s].dest
  <2> SUFFICES ASSUME NEW s \in DOMAIN sockets', NEW t \in sockets'[s].users
               PROVE  t \in DOMAIN seqMap' /\ dest'[seqMap'[t].message] = sockets'[s].dest
    OBVIOUS
  <2>1. CASE t = seqId
    <3>1. s = x
      BY <2>1, <1>9, <1>10
    <3> QED
      BY <2>1, <3>1, <1>4, <1>9, <1>12
  <2>2. CASE t # seqId
    <3>1. s \in DOMAIN sockets /\ t \in sockets[s].users /\ sockets'[s].dest = sockets[s].dest
      BY <2>2, <1>5, <1>9
    <3>2. t \in DOMAIN seqMap /\ dest[seqMap[t].message] = sockets[s].dest
      BY <3>1 DEF PoolInv, SocketsInUse
    <3> QED
      BY <2>2, <3>1, <3>2, <1>4, <1>12
  <2> QED
    BY <2>1, <2>2
<1>14. \A t \in DOMAIN seqMap' : {s \in DOMAIN sockets' : t \in sockets'[s].users} = {socketMap'[t]}
  <2> SUFFICES ASSUME NEW t \in DOMAIN seqMap'
               PROVE  {s \in DOMAIN sockets' : t \in sockets'[s].users} = {socketMap'[t]}
    OBVIOUS
  <2>1. CASE t = seqId
    BY <2>1, <1>7, <1>9, <1>10
  <2>2. CASE t # seqId
    <3>1. t \in DOMAIN seqMap /\ socketMap'[t] = socketMap[t]
      BY <2>2, <1>4, <1>7 DEF PoolInv
    <3>2. {s \in DOMAIN sockets : t \in sockets[s].users} = {socketMap[t]}
      BY <3>1 DEF PoolInv, SocketsInUse
    <3>3. {s \in DOMAIN sockets' : t \in sockets'[s].users} = {s \in DOMAIN sockets : t \in sockets[s].users}
      BY <2>2, <1>9
    <3> QED
      BY <3>1, <3>2, <3>3
  <2> QED
    BY <2>1, <2>2
<1>15. /\ DOMAIN socketMap' = DOMAIN seqMap'
       /\ socketMap' \in [DOMAIN socketMap' -> DOMAIN sockets']
  BY <1>4, <1>7, <1>9 DEF PoolInv, PoolType
<1>16. \A n \in Messages : seqIdList'[n] = {t \in DOMAIN seqMap' : seqMap'[t].message = n}
  <2> SUFFICES ASSUME NEW n \in Messages
               PROVE  seqIdList'[n] = {t \in DOMAIN seqMap' : seqMap'[t].message = n}
    OBVIOUS
  <2>1. seqIdList[n] = {t \in DOMAIN seqMap : seqMap[t].message = n}
    BY DEF PoolInv
  <2>2. seqIdList'[n] = IF n = m THEN seqIdList[n] \cup {seqId} ELSE seqIdList[n]
    BY <1>7 DEF PoolInv, PoolType
  <2> QED
    BY <2>1, <2>2, <1>2, <1>4, <1>12
<1>17. seqIdList' \in [Messages -> SUBSET SeqIds'] /\ sockets' \in [DOMAIN sockets' -> Socket']
  <2>1. \A s \in DOMAIN sockets : sockets[s] \in Socket'
    BY <1>1 DEF PoolInv, PoolType, Socket
  <2>2. \A s \in DOMAIN sockets' : sockets'[s] \in Socket'
    BY <2>1, <1>9
  <2>3. seqIdList' \in [Messages -> SUBSET SeqIds']
    BY <1>1, <1>7 DEF PoolInv, PoolType
  <2> QED
    BY <2>2, <2>3, <1>9
<1>18. DOMAIN seqMap' \subseteq SeqIds' /\ DOMAIN sockets' \subseteq SeqIds'
  BY <1>1, <1>4, <1>5, <1>9 DEF PoolInv, PoolType
<1>19. PoolType'
  BY <1>1, <1>4, <1>15, <1>17, <1>18 DEF PoolType, Copy
<1>20. PoolInv'
  BY <1>11, <1>13, <1>14, <1>15, <1>16, <1>19 DEF PoolInv, SocketsInUse
<1>21. x \in SeqIds' /\ seqId \in SeqIds'
  BY <1>1, <1>9, <1>18
<1>22. \E copy \in Copies' : wire' = wire \cup {copy} /\ copy.message = m
  <2> DEFINE copy == [seqId |-> seqId, message |-> m, socket |-> x]
  <2>1. copy \in Copies' /\ copy.message = m
    BY <1>21 DEF Copies
  <2> QED
    BY <2>1, <1>7
<1>23. seqMap'[seqId].message = m /\ seqMap'[seqId].timer
  BY <1>4
<1> QED
  BY <1>1, <1>4, <1>20, <1>22, <1>23 DEF seqId

\* What the service promises sees nothing of a step that gives no answer.
LEMMA NothingPromised ==
    ASSUME answered' = answered, acknowledged' = acknowledged,
           \A c \in Calls : answered[c] # 0 => status'[c] = status[c]
    PROVE  UNCHANGED Promise!vars
<1>1. \A c \in Calls :
          (CASE answered'[c] = 0 -> "none" [] answered'[c] > 1 -> "twice"
             [] status'[c] = "ok" -> "ok" [] OTHER -> "failed")
          = (CASE answered[c] = 0 -> "none" [] answered[c] > 1 -> "twice"
               [] status[c] = "ok" -> "ok" [] OTHER -> "failed")
  OBVIOUS
<1> QED
  BY <1>1 DEF Promise!vars

\* The registered call of a message gets its answer, which the promise allows.
LEMMA AnswerKeeps ==
    ASSUME CallsInv, NEW m \in Messages, NEW what \in {"ok", "failed"}, Answer(m, what),
           acknowledged' = acknowledged, what = "ok" => m \in acknowledged
    PROVE  /\ CallsInv'
           /\ \A n \in Messages : sendCalls'[n] = IF n = m THEN None ELSE sendCalls[n]
           /\ [Promise!Next]_(Promise!vars)
<1>1. /\ sendCalls' = [sendCalls EXCEPT ![m] = None]
      /\ \A n \in Messages : sendCalls'[n] = IF n = m THEN None ELSE sendCalls[n]
  BY DEF Answer, CallsInv, CallsType
<1>2. CASE sendCalls[m] = None
  <2>1. UNCHANGED <<status, answered>>
    BY <1>2 DEF Answer
  <2>2. UNCHANGED Promise!vars
    BY <2>1, NothingPromised
  <2>3. CallsInv'
    BY <1>1, <2>1 DEF CallsInv, CallsType
  <2> QED
    BY <1>1, <2>2, <2>3
<1>3. CASE sendCalls[m] # None
  <2> PICK c \in Calls : c = sendCalls[m]
    BY <1>3 DEF CallsInv, CallsType
  <2> DEFINE now == IF status[c] = "gone" THEN "ended" ELSE what
  <2>1. /\ c \in Calls /\ MessageOf(c) = m /\ answered[c] = 0
        /\ status[c] \in {"open", "gone"}
    BY <1>3 DEF CallsInv, CallsType
  <2>2. /\ answered' = [answered EXCEPT ![c] = 1] /\ status' = [status EXCEPT ![c] = now]
    BY <1>3, <2>1 DEF Answer, CallsInv, CallsType
  <2>3. /\ answered'[c] = 1 /\ status'[c] = now /\ now \in {"ok", "failed", "ended"}
        /\ answered' \in [Calls -> Nat]
        /\ status' \in [Calls -> {"none", "open", "ok", "failed", "gone", "ended"}]
        /\ \A d \in Calls \ {c} : answered'[d] = answered[d] /\ status'[d] = status[d]
    BY <2>1, <2>2 DEF CallsInv, CallsType
  <2>4. CallsInv'
    <3>1. CallsType'
      BY <1>1, <2>3 DEF CallsInv, CallsType
    <3>2. \A n \in Messages : sendCalls'[n] # None => n # m /\ sendCalls[n] \in Calls \ {c}
      BY <1>1, <2>1 DEF CallsInv, CallsType
    <3> QED
      BY <1>1, <2>3, <3>1, <3>2 DEF CallsInv
  <2>5. Promise!Succeed(c) \/ Promise!Fail(c)
    <3> DEFINE shown == [d \in Calls |-> CASE answered[d] = 0 -> "none"
                                           [] answered[d] > 1 -> "twice"
                                           [] status[d] = "ok" -> "ok"
                                           [] OTHER -> "failed"]
               after == [d \in Calls |-> CASE answered'[d] = 0 -> "none"
                                           [] answered'[d] > 1 -> "twice"
                                           [] status'[d] = "ok" -> "ok"
                                           [] OTHER -> "failed"]
    <3>1. shown[c] = "none"
      BY <2>1
    <3>2. after[c] = IF now = "ok" THEN "ok" ELSE "failed"
      BY <2>1, <2>3
    <3>3. \A d \in Calls \ {c} : after[d] = shown[d]
      BY <2>3
    <3>4. after = [shown EXCEPT ![c] = IF now = "ok" THEN "ok" ELSE "failed"]
      <4> HIDE DEF shown, after
      <4>1. after = [d \in Calls |-> after[d]] /\ shown = [d \in Calls |-> shown[d]]
        BY DEF shown, after
      <4> QED
        BY <2>1, <3>2, <3>3, <4>1
    <3>5. now = "ok" => MessageOf(c) \in acknowledged
      BY <2>1
    <3>6. CASE now = "ok"
      BY <3>1, <3>4, <3>5, <3>6 DEF Promise!Succeed
    <3>7. CASE now # "ok"
      BY <3>1, <3>4, <3>7 DEF Promise!Fail
    <3> QED
      BY <3>6, <3>7
  <2> QED
    BY <1>1, <2>1, <2>4, <2>5 DEF Promise!Next
<1> QED
  BY <1>2, <1>3

-----------------------------------------------------------------------------
(* The steps.                                                              *)

LEMMA InitIInv == Init => IInv /\ Promise!Init
<1> SUFFICES ASSUME Init PROVE IInv /\ Promise!Init
  OBVIOUS
<1>1. /\ DOMAIN seqMap = {} /\ DOMAIN sockets = {} /\ DOMAIN socketMap = {}
  BY DEF Init
<1>2. PoolInv
  BY <1>1 DEF Init, PoolInv, PoolType, SocketsInUse, SeqIds
<1>3. CallsInv
  BY ConstantsAssumption DEF Init, CallsInv, CallsType
<1>4. NetInv
  BY ConstantsAssumption DEF Init, NetInv
<1>5. RegisteredIsTended
  BY DEF Init, RegisteredIsTended
<1>6. Promise!Init
  BY DEF Init, Promise!Init
<1> QED
  BY <1>2, <1>3, <1>4, <1>5, <1>6 DEF IInv

\* The copies on their way stay copies when sequence IDs are given out.
LEMMA CopiesGrow ==
    ASSUME maxSeqId \in Nat, maxSeqId' \in Nat, maxSeqId <= maxSeqId'
    PROVE  Copies \subseteq Copies'
<1>1. SeqIds \subseteq SeqIds'
  BY DEF SeqIds
<1> QED
  BY <1>1 DEF Copies

LEMMA SendMessageStep ==
    ASSUME IInv, NEW c \in Calls, SendMessage(c)
    PROVE  IInv' /\ [Promise!Next]_(Promise!vars)
<1> DEFINE m == MessageOf(c)
<1> USE DEF IInv
<1>1. /\ m \in Messages /\ c # None /\ status[c] = "none" /\ PerformSend(m, 0, seqMap)
      /\ status' = [status EXCEPT ![c] = "open"] /\ sendCalls' = [sendCalls EXCEPT ![m] = c]
      /\ UNCHANGED <<dest, answered, acks, acknowledged, errors>>
  BY ConstantsAssumption DEF SendMessage, Calls, MessageOf
<1>2. /\ 0 \in 0 .. MaxRetries - 1 /\ seqMap \in [DOMAIN seqMap -> Copy]
      /\ maxSeqId \in Nat
  BY ConstantsAssumption DEF PoolInv, PoolType
<1>3. /\ PoolInv' /\ maxSeqId' = maxSeqId + 1
      /\ DOMAIN seqMap' = DOMAIN seqMap \cup {maxSeqId + 1}
      /\ \A t \in DOMAIN seqMap : seqMap'[t] = seqMap[t]
      /\ seqMap'[maxSeqId + 1].message = m /\ seqMap'[maxSeqId + 1].timer
      /\ \E copy \in Copies' : wire' = wire \cup {copy} /\ copy.message = m
  <2> HIDE DEF m
  <2> QED
    BY <1>1, <1>2, SendKeeps DEF NetInv
<1>4. answered[c] = 0
  BY <1>1 DEF CallsInv
<1>5. /\ \A n \in Messages : sendCalls'[n] = IF n = m THEN c ELSE sendCalls[n]
      /\ \A d \in Calls : status'[d] = IF d = c THEN "open" ELSE status[d]
      /\ CallsType'
  BY <1>1 DEF CallsInv, CallsType
<1>6. CallsInv'
  <2>1. \A n \in Messages : sendCalls[n] # None => sendCalls[n] \in Calls \ {c}
    BY <1>1 DEF CallsInv, CallsType
  <2> QED
    BY <1>1, <1>4, <1>5, <2>1 DEF CallsInv
<1>7. NetInv'
  <2>1. Copies \subseteq Copies'
    BY <1>2, <1>3, CopiesGrow
  <2> QED
    BY <1>1, <1>3, <2>1 DEF NetInv
<1>8. RegisteredIsTended'
  <2> SUFFICES ASSUME NEW n \in Messages, sendCalls'[n] # None
               PROVE  \E t \in DOMAIN seqMap' : seqMap'[t].message = n /\ seqMap'[t].timer
    BY DEF RegisteredIsTended
  <2>1. CASE n = m
    BY <2>1, <1>3
  <2>2. CASE n # m
    <3>1. PICK t \in DOMAIN seqMap : seqMap[t].message = n /\ seqMap[t].timer
      BY <2>2, <1>5 DEF RegisteredIsTended
    <3> QED
      BY <3>1, <1>3
  <2> QED
    BY <2>1, <2>2
<1>9. UNCHANGED Promise!vars
  BY <1>1, <1>4, <1>5, NothingPromised
<1> QED
  BY <1>3, <1>6, <1>7, <1>8, <1>9

\* Whoever is left with a registered call after a clean-up has his timer still.
LEMMA CleanUpTends ==
    ASSUME IInv, dest' = dest, NEW m \in Messages, CleanUp(m),
           \A n \in Messages : sendCalls'[n] # None => n # m /\ sendCalls[n] # None
    PROVE  PoolInv' /\ RegisteredIsTended' /\ SeqIds' = SeqIds
<1> USE DEF IInv
<1>1. /\ PoolInv' /\ maxSeqId' = maxSeqId
      /\ DOMAIN seqMap' = {t \in DOMAIN seqMap : seqMap[t].message # m}
      /\ \A t \in DOMAIN seqMap' : seqMap'[t] = seqMap[t]
  BY CleanUpKeeps
<1>2. RegisteredIsTended'
  <2> SUFFICES ASSUME NEW n \in Messages, sendCalls'[n] # None
               PROVE  \E t \in DOMAIN seqMap' : seqMap'[t].message = n /\ seqMap'[t].timer
    BY DEF RegisteredIsTended
  <2>1. PICK t \in DOMAIN seqMap : seqMap[t].message = n /\ seqMap[t].timer
    BY DEF RegisteredIsTended
  <2> QED
    BY <2>1, <1>1
<1> QED
  BY <1>1, <1>2 DEF SeqIds

LEMMA ClientStep ==
    ASSUME IInv, NEW c \in Calls, ClientGoes(c) \/ Cancelled(c)
    PROVE  IInv' /\ [Promise!Next]_(Promise!vars)
<1> DEFINE m == MessageOf(c)
<1> USE DEF IInv
<1>0. m \in Messages
  BY DEF Calls, MessageOf
<1>1. CASE ClientGoes(c)
  <2>1. /\ status[c] = "open" /\ status' = [status EXCEPT ![c] = "gone"]
        /\ UNCHANGED <<dest, answered, sendCalls, logic, pool, network, errors>>
    BY <1>1 DEF ClientGoes
  <2>2. answered[c] = 0
    BY <2>1 DEF CallsInv
  <2>3. PoolInv' /\ NetInv' /\ RegisteredIsTended'
    BY <2>1 DEF PoolInv, PoolType, SocketsInUse, Socket, SeqIds, NetInv, Copies,
       RegisteredIsTended,
                logic, pool, network
  <2>4. CallsInv'
    BY <2>1, <2>2 DEF CallsInv, CallsType
  <2>5. UNCHANGED Promise!vars
    BY <2>1, <2>2, NothingPromised DEF network, CallsInv, CallsType
  <2> QED
    BY <2>3, <2>4, <2>5
<1>2. CASE Cancelled(c)
  <2>1. /\ status[c] = "gone" /\ status' = [status EXCEPT ![c] = "ended"]
        /\ CleanUp(m) /\ sendCalls' = [sendCalls EXCEPT ![m] = None]
        /\ UNCHANGED <<dest, answered, network, errors>>
    BY <1>2 DEF Cancelled
  <2>2. answered[c] = 0
    BY <2>1 DEF CallsInv
  <2>3. \A n \in Messages : sendCalls'[n] = IF n = m THEN None ELSE sendCalls[n]
    BY <2>1 DEF CallsInv, CallsType
  <2>4. PoolInv' /\ RegisteredIsTended' /\ SeqIds' = SeqIds
    <3> HIDE DEF m, IInv
    <3> QED
      BY <1>0, <2>1, <2>3, CleanUpTends
  <2>5. NetInv'
    BY <2>1, <2>4 DEF NetInv, Copies, network
  <2>6. CallsInv'
    <3>1. \A n \in Messages : sendCalls'[n] # None => sendCalls[n] \in Calls \ {c}
      BY <2>3 DEF CallsInv, CallsType
    <3>2. CallsType'
      BY <2>1, <1>0 DEF CallsInv, CallsType
    <3> QED
      BY <2>1, <2>2, <2>3, <3>1, <3>2 DEF CallsInv, CallsType
  <2>7. UNCHANGED Promise!vars
    BY <2>1, <2>2, NothingPromised DEF network, CallsInv, CallsType
  <2> QED
    BY <2>4, <2>5, <2>6, <2>7
<1> QED
  BY <1>1, <1>2

LEMMA TimerStep ==
    ASSUME IInv, NEW t \in SeqIds, Timer(t)
    PROVE  IInv' /\ [Promise!Next]_(Promise!vars)
<1> DEFINE m == seqMap[t].message
           count == seqMap[t].count
<1> USE DEF IInv
<1>1. /\ t \in DOMAIN seqMap /\ seqMap[t].timer /\ seqMap[t] \in Copy
      /\ UNCHANGED <<dest, acks, acknowledged, errors>> /\ maxSeqId \in Nat
  BY DEF Timer, PoolInv, PoolType
<1>2. m \in Messages /\ count \in 1 .. MaxRetries
  BY <1>1 DEF Copy
<1>3. CASE count >= MaxRetries
  <2>1. CleanUp(m) /\ Answer(m, "failed") /\ UNCHANGED wire
    BY <1>3 DEF Timer
  <2> HIDE DEF m
  <2>2. /\ CallsInv'
        /\ \A n \in Messages : sendCalls'[n] = IF n = m THEN None ELSE sendCalls[n]
        /\ [Promise!Next]_(Promise!vars)
    BY <1>1, <1>2, <2>1, AnswerKeeps
  <2>3. PoolInv' /\ RegisteredIsTended' /\ SeqIds' = SeqIds
    <3> HIDE DEF IInv
    <3> QED
      BY <1>1, <1>2, <2>1, <2>2, CleanUpTends
  <2>4. NetInv'
    BY <1>1, <2>1, <2>3 DEF NetInv, Copies
  <2> QED
    BY <2>2, <2>3, <2>4
<1>4. CASE ~(count >= MaxRetries)
  <2> DEFINE others == [seqMap EXCEPT ![t].timer = FALSE]
  <2>1. PerformSend(m, count, others) /\ UNCHANGED <<status, answered, sendCalls>>
    BY <1>4 DEF Timer
  <2>2. count \in 0 .. MaxRetries - 1
    BY <1>2, <1>4, ConstantsAssumption
  <2>3. /\ others \in [DOMAIN seqMap -> Copy]
        /\ \A u \in DOMAIN seqMap : others[u].message = seqMap[u].message
        /\ \A u \in DOMAIN seqMap \ {t} : others[u] = seqMap[u]
    <3>1. others[t] = [seqMap[t] EXCEPT !.timer = FALSE]
      BY <1>1
    <3>2. others[t] \in Copy /\ others[t].message = seqMap[t].message
      BY <1>1, <3>1 DEF Copy
    <3> QED
      BY <1>1, <3>2 DEF PoolInv, PoolType
  <2> HIDE DEF m, count, others
  <2>4. /\ PoolInv' /\ maxSeqId' = maxSeqId + 1
        /\ DOMAIN seqMap' = DOMAIN seqMap \cup {maxSeqId + 1}
        /\ \A u \in DOMAIN seqMap : seqMap'[u] = others[u]
        /\ seqMap'[maxSeqId + 1].message = m /\ seqMap'[maxSeqId + 1].timer
        /\ \E copy \in Copies' : wire' = wire \cup {copy} /\ copy.message = m
    BY <1>1, <1>2, <2>1, <2>2, <2>3, SendKeeps DEF NetInv
  <2>5. RegisteredIsTended'
    <3> SUFFICES ASSUME NEW n \in Messages, sendCalls'[n] # None
                 PROVE  \E u \in DOMAIN seqMap' : seqMap'[u].message = n /\ seqMap'[u].timer
      BY DEF RegisteredIsTended
    <3>1. CASE n = m
      BY <3>1, <2>4
    <3>2. CASE n # m
      <4>1. PICK u \in DOMAIN seqMap : seqMap[u].message = n /\ seqMap[u].timer
        BY <2>1 DEF RegisteredIsTended
      <4>2. u # t
        BY <3>2, <4>1 DEF m
      <4> QED
        BY <4>1, <4>2, <2>3, <2>4
    <3> QED
      BY <3>1, <3>2
  <2>6. NetInv'
    <3>1. Copies \subseteq Copies'
      BY <1>1, <2>4, CopiesGrow
    <3> QED
      BY <1>1, <2>4, <3>1 DEF NetInv
  <2>7. CallsInv' /\ UNCHANGED Promise!vars
    BY <1>1, <2>1, NothingPromised DEF CallsInv, CallsType
  <2> QED
    BY <2>4, <2>5, <2>6, <2>7
<1> QED
  BY <1>3, <1>4

LEMMA SocketErrorStep ==
    ASSUME IInv, NEW s \in SeqIds, SocketError(s)
    PROVE  IInv' /\ [Promise!Next]_(Promise!vars)
<1> USE DEF IInv
<1>1. /\ s \in DOMAIN sockets /\ sockets[s].owner \in Messages
      /\ errors < MaxErrors /\ errors' = errors + 1
      /\ Answer(sockets[s].owner, "failed")
      /\ UNCHANGED <<dest, logic, pool, network>>
  BY DEF SocketError, PoolInv, PoolType, Socket
<1>2. /\ CallsInv'
      /\ \A n \in Messages : sendCalls'[n] = IF n = sockets[s].owner THEN None ELSE sendCalls[n]
      /\ [Promise!Next]_(Promise!vars)
  BY <1>1, AnswerKeeps DEF network
<1>3. PoolInv' /\ RegisteredIsTended'
  <2>1. UNCHANGED <<maxSeqId, seqMap, sockets, seqIdList, socketMap>>
    BY <1>1 DEF logic, pool
  <2>2. PoolInv'
    BY <1>1, <2>1 DEF PoolInv, PoolType, SocketsInUse, Socket, SeqIds
  <2>3. RegisteredIsTended'
    BY <1>2, <2>1 DEF RegisteredIsTended
  <2> QED
    BY <2>2, <2>3
<1>4. NetInv'
  BY <1>1, ConstantsAssumption DEF NetInv, Copies, SeqIds, logic, network
<1> QED
  BY <1>2, <1>3, <1>4

LEMMA ReceiveStep ==
    ASSUME IInv, NEW copy \in wire \cup acks, Receive(copy)
    PROVE  IInv' /\ [Promise!Next]_(Promise!vars)
<1> USE DEF IInv
<1>1. /\ copy \in wire /\ copy \in Copies /\ copy.message \in Messages
      /\ wire' = wire \ {copy} /\ acks' = acks \cup {copy}
      /\ acknowledged' = acknowledged \cup {copy.message}
      /\ UNCHANGED <<dest, status, answered, sendCalls, logic, pool, errors>>
  BY DEF Receive, NetInv, Copies
<1>2. PoolInv' /\ RegisteredIsTended' /\ CallsInv'
  BY <1>1 DEF PoolInv, PoolType, SocketsInUse, Socket, SeqIds, RegisteredIsTended, logic, pool,
              CallsInv, CallsType
<1>3. NetInv'
  BY <1>1 DEF NetInv, Copies, SeqIds, logic
<1>4. Promise!Acknowledge(copy.message)
  BY <1>1 DEF Promise!Acknowledge
<1> QED
  BY <1>1, <1>2, <1>3, <1>4 DEF Promise!Next

LEMMA AckReceivedStep ==
    ASSUME IInv, NEW copy \in wire \cup acks, AckReceived(copy)
    PROVE  IInv' /\ [Promise!Next]_(Promise!vars)
<1> USE DEF IInv
<1>1. /\ copy \in acks /\ copy.message \in Messages /\ copy.message \in acknowledged
      /\ acks' = acks \ {copy} /\ UNCHANGED <<dest, wire, acknowledged, errors>>
  BY DEF AckReceived, NetInv, Copies
<1>2. CASE copy.socket \in DOMAIN sockets
  <2>1. CleanUp(copy.message) /\ Answer(copy.message, "ok")
    BY <1>2 DEF AckReceived
  <2>2. /\ CallsInv'
        /\ \A n \in Messages : sendCalls'[n] = IF n = copy.message THEN None ELSE sendCalls[n]
        /\ [Promise!Next]_(Promise!vars)
    BY <1>1, <2>1, AnswerKeeps
  <2>3. PoolInv' /\ RegisteredIsTended' /\ SeqIds' = SeqIds
    <3> HIDE DEF IInv
    <3> QED
      BY <1>1, <2>1, <2>2, CleanUpTends
  <2>4. NetInv'
    BY <1>1, <2>3 DEF NetInv, Copies
  <2> QED
    BY <2>2, <2>3, <2>4
<1>3. CASE copy.socket \notin DOMAIN sockets
  <2>1. UNCHANGED <<status, answered, sendCalls, logic, pool>>
    BY <1>3 DEF AckReceived
  <2>2. PoolInv' /\ RegisteredIsTended' /\ CallsInv'
    BY <1>1, <2>1 DEF PoolInv, PoolType, SocketsInUse, Socket, SeqIds, RegisteredIsTended,
       logic, pool,
                      CallsInv, CallsType
  <2>3. NetInv'
    BY <1>1, <2>1 DEF NetInv, Copies, SeqIds, logic
  <2>4. UNCHANGED Promise!vars
    BY <1>1, <2>1, NothingPromised
  <2> QED
    BY <2>2, <2>3, <2>4
<1> QED
  BY <1>2, <1>3

-----------------------------------------------------------------------------
(* The theorems.                                                           *)

LEMMA Steps == IInv /\ [Next]_vars => IInv' /\ [Promise!Next]_(Promise!vars)
<1> SUFFICES ASSUME IInv, [Next]_vars PROVE IInv' /\ [Promise!Next]_(Promise!vars)
  OBVIOUS
<1>1. ASSUME NEW c \in Calls, SendMessage(c) \/ ClientGoes(c) \/ Cancelled(c)
      PROVE  IInv' /\ [Promise!Next]_(Promise!vars)
  BY <1>1, SendMessageStep, ClientStep
<1>2. ASSUME NEW t \in SeqIds, Timer(t) \/ SocketError(t)
      PROVE  IInv' /\ [Promise!Next]_(Promise!vars)
  BY <1>2, TimerStep, SocketErrorStep
<1>3. ASSUME NEW copy \in wire \cup acks, Receive(copy) \/ AckReceived(copy)
      PROVE  IInv' /\ [Promise!Next]_(Promise!vars)
  BY <1>3, ReceiveStep, AckReceivedStep
<1>4. CASE UNCHANGED vars
  <2>1. UNCHANGED Promise!vars
    BY <1>4, NothingPromised DEF vars, network
  <2>2. IInv'
    BY <1>4 DEF vars, logic, pool, network, IInv, PoolInv, PoolType, SocketsInUse, Socket, SeqIds,
                RegisteredIsTended, CallsInv, CallsType, NetInv, Copies
  <2> QED
    BY <2>1, <2>2
<1> QED
  BY <1>1, <1>2, <1>3, <1>4 DEF Next

\* The strengthening holds in every state of the specification.
THEOREM Invariant == Spec => []IInv
<1>1. Init => IInv
  BY InitIInv
<1>2. IInv /\ [Next]_vars => IInv'
  BY Steps
<1> QED
  BY <1>1, <1>2, PTL DEF Spec

\* The variables keep their types, for any messages, receivers and calls.
THEOREM TypeCorrect == Spec => []TypeOK
<1>1. IInv => TypeOK
  BY DEF IInv, PoolInv, PoolType, CallsInv, CallsType, NetInv, TypeOK, Copy, Socket
<1> QED
  BY Invariant, <1>1, PTL

\* No socket is left behind, overfull or closed too early, and a registered call has
\* a timer, whatever is cancelled, answered late or called again (mq_send_socket.js,
\* mq_logic.js, server.js).
THEOREM SendingSound == Spec => []SendingIsSound
<1>1. IInv => SendingIsSound
  BY DEF IInv, PoolInv, SendingIsSound
<1> QED
  BY Invariant, <1>1, PTL

\* The service keeps its promise: every step of it answers one call at most, a call
\* that has no answer yet, and with success only for an acknowledged message.
THEOREM Implements == Spec => ImplementsSendCall
<1>1. Init => Promise!Init
  BY InitIInv
<1>2. IInv /\ [Next]_vars => [Promise!Next]_(Promise!vars)
  BY Steps
<1> QED
  BY <1>1, <1>2, Invariant, PTL DEF Spec, ImplementsSendCall, Promise!Spec

-----------------------------------------------------------------------------
(* Receiving: the module MqInbound.                                        *)

RemovedWhenEnded == removing \subseteq given \cup discarded

DownIsEmpty ==
    start = "down" =>
        /\ saving = {} /\ toRetry = {} /\ timers = {}
        /\ processing = Zero /\ handed = Zero

\* The places of a message in the process: it is being saved, waits for
\* Tendermint, is being processed or was handed over.
InboundPlaces(m) == (IF m \in saving THEN 1 ELSE 0) + (IF m \in toRetry THEN 1 ELSE 0)
                        + processing[m] + handed[m]

\* No copy of the message can be taken for a new message: copies are ignored, or
\* none is on its way and none will be sent.
Shut(m) == m \in timers \/ (outcome[m] # "open" /\ m \notin copies)

InOnePlace(m) == m \notin early => InboundPlaces(m) <= 1 /\ (InboundPlaces(m) > 0 => Shut(m))

InboundIInv == /\ InboundTypeOK /\ DownIsEmpty
               /\ RemovedWhenEnded /\ AckedIsKept
               /\ \A m \in Incoming : InOnePlace(m)

-----------------------------------------------------------------------------
(* Types and what a process that is down holds.                            *)

\* What Init establishes.
LEMMA InboundInitIInv ==
    InboundInit => InboundIInv
<1> SUFFICES ASSUME InboundInit PROVE InboundIInv
  OBVIOUS
<1>1. \A m \in Incoming : processing[m] = 0 /\ handed[m] = 0 /\ outcome[m] = "open"
  BY DEF InboundInit, Zero
<1>2. InboundTypeOK
  BY InboundAssumption, SMTT(30) DEF InboundInit, Zero, InboundTypeOK
<1>3. DownIsEmpty /\ RemovedWhenEnded /\ AckedIsKept
  BY <1>1 DEF InboundInit, DownIsEmpty, RemovedWhenEnded, AckedIsKept
<1>4. \A m \in Incoming : InOnePlace(m)
  BY <1>1 DEF InboundInit, InOnePlace, InboundPlaces
<1> QED
  BY <1>2, <1>3, <1>4 DEF InboundIInv

\* The sender and the network: Send(), GiveUp(), AckArrives(), Lose().
LEMMA SenderTypes ==
    ASSUME InboundTypeOK, NEW m \in Incoming,
           Send(m) \/ GiveUp(m) \/ AckArrives(m) \/ Lose(m)
    PROVE  InboundTypeOK'
<1> USE DEF InboundTypeOK, startup, memory, redis, history,
            bounds, sender, onWay
<1>1. CASE Send(m)
  <2>1. sends[m] + 1 \in 0 .. MaxSends /\ sends' = [sends EXCEPT ![m] = sends[m] + 1]
    BY <1>1, InboundAssumption DEF Send
  <2> QED
    BY <1>1, <2>1 DEF Send
<1>2. CASE GiveUp(m)
  BY <1>2 DEF GiveUp
<1>3. CASE AckArrives(m)
  BY <1>3 DEF AckArrives
<1>4. CASE Lose(m)
  <2>1. losses' \in 0 .. MaxLosses
    BY <1>4, InboundAssumption DEF Lose
  <2> QED
    BY <1>4, <2>1 DEF Lose
<1> QED
  BY <1>1, <1>2, <1>3, <1>4

\* onMessage() and the end of a timer.
LEMMA MessageTypes ==
    ASSUME InboundTypeOK, NEW m \in Incoming,
           Arrive(m) \/ Saved(m) \/ SaveFails(m)
           \/ TimerExpires(m)
    PROVE  InboundTypeOK'
<1> USE DEF InboundTypeOK, startup, memory, redis, history,
            bounds, sender, onWay
<1>1. CASE Arrive(m)
  BY <1>1 DEF Arrive
<1>2. CASE Saved(m)
  <2>1. saved' = [saved EXCEPT ![m] = saved[m] + 1] /\ saved[m] + 1 \in Nat
    BY <1>2 DEF Saved
  <2>2. processing' = processing \/ processing' = [processing EXCEPT ![m] = processing[m] + 1]
    BY <1>2 DEF Saved
  <2>3. processing[m] + 1 \in Nat
    OBVIOUS
  <2>4. saved' \in [Incoming -> Nat] /\ processing' \in [Incoming -> Nat]
    BY <2>1, <2>2, <2>3
  <2> QED
    BY <1>2, <2>4 DEF Saved
<1>3. CASE SaveFails(m)
  <2>1. failures' \in 0 .. MaxFailures
    BY <1>3, InboundAssumption DEF SaveFails
  <2> QED
    BY <1>3, <2>1 DEF SaveFails
<1>4. CASE TimerExpires(m)
  BY <1>4 DEF TimerExpires
<1> QED
  BY <1>1, <1>2, <1>3, <1>4

\* The end of processRawMessage() and the removal of the raw message.
LEMMA ProcessTypes ==
    ASSUME InboundTypeOK, NEW m \in Incoming,
           HandOver(m) \/ Discard(m) \/ RawRemoved(m)
    PROVE  InboundTypeOK'
<1> USE DEF InboundTypeOK, startup, memory, redis, history,
            bounds, sender, onWay
<1>1. ASSUME Ends(m)
      PROVE  processing' \in [Incoming -> Nat] /\ removing' \subseteq Incoming
  <2>1. processing' = [processing EXCEPT ![m] = processing[m] - 1] /\ processing[m] - 1 \in Nat
    BY <1>1 DEF Ends
  <2>2. removing' \subseteq Incoming
    BY <1>1 DEF Ends
  <2> QED
    BY <2>1, <2>2
<1>2. CASE HandOver(m)
  <2>1. handed' = [handed EXCEPT ![m] = handed[m] + 1] /\ handed[m] + 1 \in Nat
    BY <1>2 DEF HandOver
  <2>2. handed' \in [Incoming -> Nat]
    BY <2>1
  <2> QED
    BY <1>1, <1>2, <2>2 DEF HandOver
<1>3. CASE Discard(m)
  BY <1>1, <1>3 DEF Discard
<1>4. CASE RawRemoved(m)
  BY <1>4 DEF RawRemoved
<1> QED
  BY <1>2, <1>3, <1>4

\* A run of processRawMessage() more for the messages of a set.
LEMMA MoreRuns ==
    ASSUME InboundTypeOK, NEW S,
           processing' = [m \in Incoming |-> processing[m] + IF m \in S THEN 1 ELSE 0]
    PROVE  /\ processing' \in [Incoming -> Nat]
           /\ \A m \in Incoming : m \notin S => processing'[m] = processing[m]
           /\ \A m \in Incoming : m \in S => processing'[m] = processing[m] + 1
<1>1. \A m \in Incoming : processing[m] + (IF m \in S THEN 1 ELSE 0) \in Nat
  BY DEF InboundTypeOK
<1> QED
  BY <1>1 DEF InboundTypeOK

\* Outages, crashes and the start.
LEMMA NodeTypes ==
    ASSUME InboundTypeOK, DownIsEmpty,
           Outage \/ Ready \/ Crash \/ Subscribe
           \/ ReadBacklog \/ ProcessBacklog
    PROVE  InboundTypeOK'
<1> USE DEF InboundTypeOK, startup, memory, redis, history,
            bounds, sender, onWay
<1>1. CASE Outage
  <2>1. outages' \in 0 .. MaxOutages
    BY <1>1, InboundAssumption DEF Outage
  <2> QED
    BY <1>1, <2>1 DEF Outage
<1>2. CASE Ready
  BY <1>2, MoreRuns DEF Ready
<1>3. CASE Crash
  <2>1. crashes' \in 0 .. MaxCrashes
    BY <1>3, InboundAssumption DEF Crash
  <2> QED
    BY <1>3, <2>1 DEF Crash, Zero
<1>4. CASE Subscribe
  BY <1>4 DEF Subscribe, DownIsEmpty
<1>5. CASE ReadBacklog
  BY <1>5 DEF ReadBacklog
<1>6. CASE ProcessBacklog
  BY <1>6, MoreRuns DEF ProcessBacklog
<1> QED
  BY <1>1, <1>2, <1>3, <1>4, <1>5, <1>6

LEMMA TypeStep ==
    ASSUME InboundTypeOK, DownIsEmpty, [InboundNext]_inboundVars
    PROVE  InboundTypeOK'
<1>1. CASE UNCHANGED inboundVars
  BY <1>1 DEF inboundVars, InboundTypeOK, startup, memory, redis,
     history, bounds, sender, onWay
<1> QED
  BY <1>1, SenderTypes, MessageTypes, ProcessTypes, NodeTypes DEF InboundNext, Step

\* Nothing comes into a process that is down.
LEMMA DownStep ==
    ASSUME InboundTypeOK, DownIsEmpty, [InboundNext]_inboundVars
    PROVE  DownIsEmpty'
<1> SUFFICES ASSUME start' = "down"
             PROVE  /\ saving' = {} /\ toRetry' = {} /\ timers' = {}
                    /\ processing' = Zero /\ handed' = Zero
  BY DEF DownIsEmpty
<1> USE DEF startup, memory, redis, history, bounds,
            sender, onWay
<1>1. CASE Crash
  BY <1>1 DEF Crash
<1>2. CASE UNCHANGED <<start, saving, toRetry, timers, processing, handed>>
  BY <1>2 DEF DownIsEmpty
<1>3. CASE Subscribe \/ ReadBacklog \/ ProcessBacklog
  BY <1>3 DEF Subscribe, ReadBacklog, ProcessBacklog
<1>4. ASSUME NEW m \in Incoming,
             Arrive(m) \/ Saved(m) \/ SaveFails(m)
             \/ TimerExpires(m) \/ HandOver(m) \/ Discard(m)
      PROVE  FALSE
  <2>1. start = "down" => \A n \in Incoming : processing[n] = 0
    BY DEF DownIsEmpty, Zero
  <2> QED
    BY <1>4, <2>1 DEF DownIsEmpty, Arrive, Saved, SaveFails,
       TimerExpires, HandOver, Discard, Ends
<1>5. CASE Ready
  <2>1. start = "down" => toRetry = {} /\ processing = Zero
    BY DEF DownIsEmpty
  <2>2. start = "down" => processing' = Zero
    BY <1>5, <2>1 DEF Ready, Zero
  <2> QED
    BY <1>5, <2>2 DEF Ready, DownIsEmpty
<1>6. CASE Outage \/ UNCHANGED inboundVars
  BY <1>2, <1>6 DEF Outage, inboundVars
<1>7. ASSUME NEW m \in Incoming,
             Send(m) \/ GiveUp(m) \/ AckArrives(m) \/ Lose(m) \/ RawRemoved(m)
      PROVE  UNCHANGED <<start, saving, toRetry, timers, processing, handed>>
  BY <1>7 DEF Send, GiveUp, AckArrives, Lose, RawRemoved
<1> QED
  BY <1>1, <1>2, <1>3, <1>4, <1>5, <1>6, <1>7 DEF InboundNext, Step

-----------------------------------------------------------------------------
(* What was acknowledged is kept.                                          *)

\* A raw message goes only when its processing has ended, and what has ended
\* stays ended.
LEMMA KeptStep ==
    ASSUME InboundTypeOK, RemovedWhenEnded, AckedIsKept, [InboundNext]_inboundVars
    PROVE  RemovedWhenEnded' /\ AckedIsKept'
<1> USE DEF startup, memory, redis, history, bounds,
            sender, onWay
<1>1. ASSUME NEW m \in Incoming, Send(m) \/ GiveUp(m) \/ Lose(m)
      PROVE  /\ UNCHANGED <<raw, given, discarded, removing>> /\ acksOnWay' \subseteq acksOnWay
             /\ \A n \in Incoming : outcome'[n] = "acked" => outcome[n] = "acked"
  BY <1>1 DEF InboundTypeOK, Send, GiveUp, Lose
<1>2. ASSUME NEW m \in Incoming, AckArrives(m)
      PROVE  /\ UNCHANGED <<raw, given, discarded, removing>> /\ acksOnWay' \subseteq acksOnWay
             /\ \A n \in Incoming : outcome'[n] = "acked" => outcome[n] = "acked" \/ n \in acksOnWay
  BY <1>2 DEF InboundTypeOK, AckArrives
<1>3. ASSUME NEW m \in Incoming,
             Arrive(m) \/ SaveFails(m) \/ TimerExpires(m)
             \/ HandOver(m) \/ Discard(m)
      PROVE  /\ UNCHANGED <<raw, acksOnWay, outcome>>
             /\ given \subseteq given' /\ discarded \subseteq discarded'
             /\ removing' \subseteq removing \cup given' \cup discarded'
  BY <1>3 DEF Arrive, SaveFails, TimerExpires, HandOver,
     Discard, Ends
<1>4. ASSUME NEW m \in Incoming, Saved(m)
      PROVE  /\ UNCHANGED <<outcome, given, discarded, removing>>
             /\ acksOnWay' = acksOnWay \cup {m} /\ raw' = raw \cup {m}
  BY <1>4 DEF Saved
<1>5. ASSUME NEW m \in Incoming, RawRemoved(m)
      PROVE  /\ UNCHANGED <<outcome, acksOnWay, given, discarded>> /\ m \in removing
             /\ raw' = raw \ {m} /\ removing' \subseteq removing
  BY <1>5 DEF RawRemoved
<1>6. CASE Outage \/ Ready \/ Crash \/ Subscribe
           \/ ReadBacklog \/ ProcessBacklog
           \/ UNCHANGED inboundVars
  <2>1. UNCHANGED <<raw, acksOnWay, outcome, given, discarded>> /\ removing' \subseteq removing
    BY <1>6 DEF Outage, Ready, Crash, Subscribe,
       ReadBacklog, ProcessBacklog, inboundVars
  <2> QED
    BY <2>1 DEF RemovedWhenEnded, AckedIsKept
<1>7. CASE \E m \in Incoming : Send(m) \/ GiveUp(m) \/ Lose(m)
  BY <1>1, <1>7 DEF RemovedWhenEnded, AckedIsKept
<1>8. CASE \E m \in Incoming : AckArrives(m)
  BY <1>2, <1>8 DEF RemovedWhenEnded, AckedIsKept
<1>9. CASE \E m \in Incoming :
               Arrive(m) \/ SaveFails(m) \/ TimerExpires(m)
               \/ HandOver(m) \/ Discard(m)
  BY <1>3, <1>9 DEF RemovedWhenEnded, AckedIsKept
<1>10. CASE \E m \in Incoming : Saved(m)
  BY <1>4, <1>10 DEF RemovedWhenEnded, AckedIsKept
<1>11. CASE \E m \in Incoming : RawRemoved(m)
  BY <1>5, <1>11 DEF RemovedWhenEnded, AckedIsKept
<1> QED
  BY <1>6, <1>7, <1>8, <1>9, <1>10, <1>11 DEF InboundNext, Step

-----------------------------------------------------------------------------
(* A message is in one place.                                              *)

\* The places of a message are counted in natural numbers.
LEMMA PlacesType ==
    ASSUME InboundTypeOK, NEW n \in Incoming
    PROVE  InboundPlaces(n) \in Nat
BY DEF InboundTypeOK, InboundPlaces

\* No place more for the message, and it stays as shut out as it was.
LEMMA NoPlaceMore ==
    ASSUME InboundTypeOK, InboundTypeOK', NEW n \in Incoming, InOnePlace(n),
           early \subseteq early',
           n \notin early' => InboundPlaces(n)' <= InboundPlaces(n), Shut(n) => Shut(n)'
    PROVE  InOnePlace(n)'
<1>1. InboundPlaces(n) \in Nat /\ InboundPlaces(n)' \in Nat
  BY DEF InboundTypeOK, InboundPlaces
<1> HIDE DEF InboundPlaces, Shut
<1> QED
  BY <1>1 DEF InOnePlace

\* Nothing of the message itself changes.
LEMMA Untouched ==
    ASSUME InboundTypeOK, InboundTypeOK', NEW n \in Incoming, InOnePlace(n),
           early \subseteq early',
           n \in saving' <=> n \in saving, n \in toRetry' <=> n \in toRetry,
           processing'[n] = processing[n], handed'[n] = handed[n],
           Shut(n) => Shut(n)'
    PROVE  InOnePlace(n)'
<1>1. InboundPlaces(n)' = InboundPlaces(n) /\ InboundPlaces(n) \in Nat
  BY DEF InboundTypeOK, InboundPlaces
<1> HIDE DEF InboundPlaces, Shut
<1> QED
  BY <1>1, NoPlaceMore

\* The sender and the network: once its outcome is known, a message is not sent.
LEMMA PlacesOfSender ==
    ASSUME InboundTypeOK, InboundTypeOK', NEW n \in Incoming, InOnePlace(n), NEW m \in Incoming,
           Send(m) \/ GiveUp(m) \/ AckArrives(m) \/ Lose(m)
    PROVE  InOnePlace(n)'
<1> USE DEF startup, memory, redis, history, bounds,
            sender, onWay
<1>1. UNCHANGED <<early, saving, toRetry, timers, processing, handed>>
  BY DEF Send, GiveUp, AckArrives, Lose
<1>2. Shut(n) => Shut(n)'
  BY <1>1 DEF InboundTypeOK, Shut, Send, GiveUp, AckArrives, Lose
<1> QED
  BY <1>1, <1>2, Untouched

\* A copy that is taken for a new message is of one that is in no place, or came
\* early.
LEMMA PlacesOfArrive ==
    ASSUME InboundTypeOK, InboundTypeOK', NEW n \in Incoming, InOnePlace(n),
           NEW m \in Incoming, Arrive(m)
    PROVE  InOnePlace(n)'
<1>1. /\ UNCHANGED <<toRetry, processing, handed, outcome>> /\ early \subseteq early'
      /\ copies' = copies \ {m} /\ m \in copies
  BY DEF Arrive, sender
<1>2. CASE n # m \/ m \in timers
  <2>1. (n \in saving' <=> n \in saving) /\ (n \in timers => n \in timers')
    BY <1>2 DEF Arrive
  <2>2. Shut(n) => Shut(n)'
    BY <1>1, <2>1 DEF Shut
  <2> QED
    BY <1>1, <2>1, <2>2, Untouched
<1>3. CASE n = m /\ m \notin timers
  <2>1. /\ saving' = saving \cup {n} /\ n \in timers'
        /\ n \notin early' => n \notin early
    BY <1>3 DEF Arrive
  <2>2. ~Shut(n) /\ Shut(n)' /\ n \notin saving
    BY <1>1, <1>3, <2>1 DEF Shut, InboundTypeOK
  <2>3. InboundPlaces(n)' = InboundPlaces(n) + 1 /\ InboundPlaces(n) \in Nat
    BY <1>1, <2>1, <2>2 DEF InboundPlaces, InboundTypeOK
  <2>4. n \notin early => InboundPlaces(n) = 0
    BY <2>2, <2>3 DEF InOnePlace
  <2> HIDE DEF InboundPlaces, Shut
  <2> QED
    BY <2>1, <2>2, <2>3, <2>4 DEF InOnePlace
<1> QED
  BY <1>2, <1>3

\* The steps of a message in the process: from one place to the next, or out.
LEMMA PlacesOfProcess ==
    ASSUME InboundTypeOK, InboundTypeOK', NEW n \in Incoming, InOnePlace(n), NEW m \in Incoming,
           Saved(m) \/ SaveFails(m) \/ HandOver(m)
           \/ Discard(m) \/ RawRemoved(m)
    PROVE  InOnePlace(n)'
<1> USE DEF startup, memory, redis, history, bounds,
            sender, onWay
<1>1. UNCHANGED <<early, timers, outcome, copies>>
  BY DEF Saved, SaveFails, HandOver, Discard, RawRemoved
<1>2. Shut(n) => Shut(n)'
  BY <1>1 DEF Shut
<1>3. CASE n # m
  <2>1. /\ n \in saving' <=> n \in saving
        /\ n \in toRetry' <=> n \in toRetry
        /\ processing'[n] = processing[n] /\ handed'[n] = handed[n]
    BY <1>3 DEF InboundTypeOK, Saved, SaveFails, HandOver,
       Discard, RawRemoved, Ends
  <2> QED
    BY <1>1, <1>2, <2>1, Untouched
<1>4. CASE n = m
  <2>1. CASE Saved(n)
    <3>1. /\ n \in saving /\ n \notin saving' /\ handed' = handed
          /\ \/ /\ processing' = [processing EXCEPT ![n] = processing[n] + 1]
                /\ toRetry' = toRetry
             \/ processing' = processing /\ n \in toRetry'
      BY <2>1 DEF Saved
    <3>2. InboundPlaces(n)' <= InboundPlaces(n)
      BY <3>1 DEF InboundTypeOK, InboundPlaces
    <3> HIDE DEF InboundPlaces, Shut
    <3> QED
      BY <1>1, <1>2, <3>2, NoPlaceMore
  <2>2. CASE SaveFails(n) \/ RawRemoved(n)
    <3>1. /\ n \in saving' => n \in saving
          /\ UNCHANGED <<toRetry, processing, handed>>
      BY <2>2 DEF SaveFails, RawRemoved
    <3>2. InboundPlaces(n)' <= InboundPlaces(n)
      BY <3>1 DEF InboundTypeOK, InboundPlaces
    <3> HIDE DEF InboundPlaces, Shut
    <3> QED
      BY <1>1, <1>2, <3>2, NoPlaceMore
  <2>3. CASE HandOver(n) \/ Discard(n)
    <3>1. /\ UNCHANGED <<saving, toRetry>>
          /\ processing[n] > 0 /\ processing' = [processing EXCEPT ![n] = processing[n] - 1]
          /\ handed' = handed \/ handed' = [handed EXCEPT ![n] = handed[n] + 1]
      BY <2>3 DEF HandOver, Discard, Ends
    <3>2. processing'[n] = processing[n] - 1 /\ handed'[n] <= handed[n] + 1
      BY <3>1 DEF InboundTypeOK
    <3>3. InboundPlaces(n)' <= InboundPlaces(n)
      BY <3>1, <3>2 DEF InboundTypeOK, InboundPlaces
    <3> HIDE DEF InboundPlaces, Shut
    <3> QED
      BY <1>1, <1>2, <3>3, NoPlaceMore
  <2> QED
    BY <1>4, <2>1, <2>2, <2>3
<1> QED
  BY <1>3, <1>4

\* A timer ends when no copy can come any more.
LEMMA PlacesOfTimer ==
    ASSUME InboundTypeOK, InboundTypeOK', NEW n \in Incoming, InOnePlace(n),
           NEW m \in Incoming, TimerExpires(m)
    PROVE  InOnePlace(n)'
<1>1. UNCHANGED <<early, saving, toRetry, processing, handed, outcome, copies>>
  BY DEF TimerExpires, startup, sender, onWay
<1>2. Shut(n) => Shut(n)'
  BY <1>1 DEF TimerExpires, Shut
<1> QED
  BY <1>1, <1>2, Untouched

\* Tendermint comes and goes, the process stops and starts.
LEMMA PlacesOfNode ==
    ASSUME InboundTypeOK, InboundTypeOK', DownIsEmpty, NEW n \in Incoming, InOnePlace(n),
           Outage \/ Ready \/ Crash \/ Subscribe
           \/ ReadBacklog \/ ProcessBacklog
    PROVE  InOnePlace(n)'
<1> USE DEF startup, memory, redis, history, bounds,
            sender, onWay
<1>1. CASE Outage \/ ReadBacklog
  <2>1. UNCHANGED <<early, saving, toRetry, timers, processing, handed, outcome, copies>>
    BY <1>1 DEF Outage, ReadBacklog
  <2>2. Shut(n) => Shut(n)'
    BY <2>1 DEF Shut
  <2> QED
    BY <2>1, <2>2, Untouched
<1>2. CASE Ready
  <2>1. /\ UNCHANGED <<early, saving, timers, handed, outcome, copies>> /\ toRetry' = {}
        /\ n \notin toRetry => processing'[n] = processing[n]
        /\ n \in toRetry => processing'[n] = processing[n] + 1
    BY <1>2, MoreRuns DEF Ready
  <2>2. InboundPlaces(n)' <= InboundPlaces(n)
    BY <2>1 DEF InboundPlaces, InboundTypeOK
  <2>3. Shut(n) => Shut(n)'
    BY <2>1 DEF Shut
  <2> HIDE DEF InboundPlaces, Shut
  <2> QED
    BY <2>1, <2>2, <2>3, NoPlaceMore
<1>3. CASE Crash \/ Subscribe
  <2>1. /\ saving' = {} /\ toRetry' = {} /\ processing' = Zero /\ handed' = Zero
    BY <1>3 DEF Crash, Subscribe, DownIsEmpty
  <2>2. InboundPlaces(n)' = 0
    BY <2>1 DEF InboundPlaces, Zero
  <2> HIDE DEF InboundPlaces, Shut
  <2> QED
    BY <2>2 DEF InOnePlace
<1>4. CASE ProcessBacklog
  <2>1. /\ UNCHANGED <<saving, toRetry, timers, handed, outcome, copies>>
        /\ early' = early \cup backlog
        /\ n \notin backlog => processing'[n] = processing[n]
    BY <1>4, MoreRuns DEF ProcessBacklog
  <2>2. Shut(n) => Shut(n)'
    BY <2>1 DEF Shut
  <2>3. n \notin early' => InboundPlaces(n)' <= InboundPlaces(n)
    BY <2>1 DEF InboundPlaces, InboundTypeOK
  <2> HIDE DEF InboundPlaces, Shut
  <2> QED
    BY <2>1, <2>2, <2>3, NoPlaceMore
<1> QED
  BY <1>1, <1>2, <1>3, <1>4

LEMMA PlacesStep ==
    ASSUME InboundTypeOK, InboundTypeOK', DownIsEmpty, NEW n \in Incoming, InOnePlace(n),
           [InboundNext]_inboundVars
    PROVE  InOnePlace(n)'
<1>1. CASE UNCHANGED inboundVars
  BY <1>1 DEF inboundVars, startup, memory, redis, sender,
     onWay, InOnePlace, InboundPlaces, Shut
<1> QED
  BY <1>1, PlacesOfSender, PlacesOfArrive, PlacesOfProcess, PlacesOfTimer, PlacesOfNode
     DEF InboundNext, Step

-----------------------------------------------------------------------------
(* The theorems.                                                           *)

\* The inductive invariant of the inbound messages holds in every state.
THEOREM InboundInvariant ==
    InboundSpec => []InboundIInv
<1>1. ASSUME InboundIInv, [InboundNext]_inboundVars PROVE InboundIInv'
  <2>1. InboundTypeOK' /\ DownIsEmpty'
    BY <1>1, TypeStep, DownStep DEF InboundIInv
  <2>2. RemovedWhenEnded' /\ AckedIsKept'
    BY <1>1, KeptStep DEF InboundIInv
  <2>3. \A m \in Incoming : InOnePlace(m)'
    BY <1>1, <2>1, PlacesStep DEF InboundIInv
  <2> QED
    BY <2>1, <2>2, <2>3 DEF InboundIInv
<1> QED
  BY <1>1, InboundInitIInv, PTL DEF InboundSpec

\* Every variable keeps its type, through failed writes, outages and crashes.
THEOREM InboundTypeCorrect ==
    InboundSpec => []InboundTypeOK
  BY InboundInvariant, PTL DEF InboundIInv

\* What was acknowledged to the sender is in Redis until processRawMessage()
\* has ended with it.
THEOREM AcknowledgedIsKept ==
    InboundSpec => []AckedIsKept
  BY InboundInvariant, PTL DEF InboundIInv

\* One process hands a message over once, unless it came before the backlog was
\* processed or in it.
THEOREM OnlyOnce ==
    InboundSpec => []HandedOnce
<1>1. InboundIInv => HandedOnce
  <2> SUFFICES ASSUME InboundIInv, NEW m \in Incoming \ early PROVE handed[m] <= 1
    BY DEF HandedOnce
  <2>1. InboundPlaces(m) <= 1
    BY DEF InboundIInv, InOnePlace
  <2> QED
    BY <2>1 DEF InboundIInv, InboundTypeOK, InboundPlaces
<1> QED
  BY <1>1, InboundInvariant, PTL

=============================================================================
