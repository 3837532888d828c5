------------------------------- MODULE MqSend -------------------------------
(***************************************************************************)
(* The sending half of the message queue service, mq-server: sendMessage() *)
(* of server.js, the retries of MQLogic, and the sockets of MQSendSocket,  *)
(* which several messages to one destination share and which are closed    *)
(* with their last message.  Its client, mq/grpc_client.js of the main     *)
(* server, calls again with the same message ID when a call has failed, or *)
(* is lost with the connection; in that case the service notices late.     *)
(* Every handler runs to its end before the next one begins.               *)
(***************************************************************************)
EXTENDS Integers, FiniteSets, FiniteSetsExt, Functions

CONSTANTS
    Messages,       \* messages to send, by their IDs
    Dests,          \* addresses of receivers
    MaxRetries,     \* copies of a message that are sent for one call
    Limit,          \* maxConcurrentMessagesPerMqSocket
    None,           \* no call
    MaxCalls,       \* bound: calls of the client for one message
    MaxCallsInAll,  \* bound: calls of the client for all messages
    MaxErrors       \* bound: errors of a socket

ASSUME ConstantsAssumption ==
    /\ {MaxRetries, Limit, MaxCalls, MaxCallsInAll} \subseteq Nat \ {0}
    /\ MaxErrors \in Nat
    /\ None \notin Messages \X (1 .. MaxCalls)

\* The n-th call for a message.
Calls == Messages \X (1 .. MaxCalls)
MessageOf(c) == c[1]

VARIABLES
    dest,       \* where a message goes to
    status,     \* calls, as the client sees them; "gone": it does not wait any more
    answered,   \* how often the service has answered a call
    sendCalls,  \* the call to answer for a message
    maxSeqId,
    seqMap,     \* copies sent, by sequence ID: message, retry count, timer set
    sockets,    \* open sockets, by the copy they were opened for: destination,
                \* message they were opened for, users
    seqIdList,  \* copies that have a place on a socket
    socketMap,  \* the socket of such a copy
    wire,       \* copies on their way
    acks,       \* acknowledgements on their way
    acknowledged, \* messages the receiver has acknowledged
    errors

logic == <<maxSeqId, seqMap>>
pool == <<sockets, seqIdList, socketMap>>
network == <<wire, acks, acknowledged>>
vars == <<dest, status, answered, sendCalls, logic, pool, network, errors>>

SeqIds == 1 .. maxSeqId

Init ==
    /\ dest \in [Messages -> Dests]
    /\ status = [c \in Calls |-> "none"]
    /\ answered = [c \in Calls |-> 0]
    /\ sendCalls = [m \in Messages |-> None]
    /\ maxSeqId = 0 /\ seqMap = << >>
    /\ sockets = << >> /\ socketMap = << >>
    /\ seqIdList = [m \in Messages |-> {}]
    /\ wire = {} /\ acks = {} /\ acknowledged = {}
    /\ errors = 0

-----------------------------------------------------------------------------
(* MQSendSocket                                                            *)

HasRoom(s) == Cardinality(sockets[s].users) < Limit

\* The first socket to the destination that has room, or a new one.
SocketFor(m, seqId) ==
    LET free == {s \in DOMAIN sockets : sockets[s].dest = dest[m] /\ HasRoom(s)}
    IN  IF free = {} THEN seqId ELSE Min(free)

SocketSend(m, seqId) ==
    LET s == SocketFor(m, seqId)
        new == [dest |-> dest[m], owner |-> m, users |-> {seqId}]
    IN  /\ sockets' = IF s \in DOMAIN sockets
                      THEN [sockets EXCEPT ![s].users = @ \cup {seqId}]
                      ELSE [t \in DOMAIN sockets \cup {s} |-> IF t = s THEN new ELSE sockets[t]]
        /\ socketMap' = [t \in DOMAIN socketMap \cup {seqId} |->
                            IF t = seqId THEN s ELSE socketMap[t]]
        /\ seqIdList' = [seqIdList EXCEPT ![m] = @ \cup {seqId}]
        /\ wire' = wire \cup {[seqId |-> seqId, message |-> m, socket |-> s]}

\* Mutant: only the last copy leaves its socket.
PlacesLast(m) == IF seqIdList[m] = {} THEN {} ELSE {Max(seqIdList[m])}

\* The copies that leave their sockets when a message is done with.
Places(m) == seqIdList[m]

\* cleanUp(): the copies of a message leave their sockets, and a socket without
\* copies is closed.
SocketCleanUp(m) ==
    LET left == [s \in DOMAIN sockets |->
                    [sockets[s] EXCEPT !.users = @ \ Places(m)]]
    IN  /\ sockets' = Restrict(left, {s \in DOMAIN left : left[s].users # {}})
        /\ socketMap' = Restrict(socketMap, DOMAIN socketMap \ Places(m))
        /\ seqIdList' = [seqIdList EXCEPT ![m] = {}]

-----------------------------------------------------------------------------
(* MQLogic                                                                 *)

PerformSend(m, retryCount, others) ==
    LET seqId == maxSeqId + 1 IN
    /\ maxSeqId' = seqId
    /\ seqMap' = [t \in DOMAIN others \cup {seqId} |->
                     IF t = seqId THEN [message |-> m, count |-> retryCount + 1, timer |-> TRUE]
                                  ELSE others[t]]
    /\ SocketSend(m, seqId)

\* The copies of a message are forgotten, if there are any also by the sockets.
CleanUp(m) ==
    LET mine == {t \in DOMAIN seqMap : seqMap[t].message = m} IN
    /\ seqMap' = Restrict(seqMap, DOMAIN seqMap \ mine)
    /\ IF mine = {} THEN UNCHANGED pool ELSE SocketCleanUp(m)
    /\ UNCHANGED maxSeqId

-----------------------------------------------------------------------------
(* server.js                                                               *)

\* Mutant: the call is answered and kept.
AnswerKept(m, what) ==
    LET c == sendCalls[m] IN
    /\ IF c = None THEN UNCHANGED <<status, answered>>
       ELSE /\ answered' = [answered EXCEPT ![c] = @ + 1]
            /\ status' = [status EXCEPT ![c] = IF @ = "gone" THEN "ended" ELSE what]
    /\ UNCHANGED sendCalls

\* The callback of the call for a message, if there is one, is called.
Answer(m, what) ==
    LET c == sendCalls[m] IN
    /\ IF c = None THEN UNCHANGED <<status, answered>>
       ELSE /\ answered' = [answered EXCEPT ![c] = @ + 1]
            /\ status' = [status EXCEPT ![c] = IF @ = "gone" THEN "ended" ELSE what]
    /\ sendCalls' = [sendCalls EXCEPT ![m] = None]

\* The client calls, for the first time or after the last call has failed.
SendMessage(c) ==
    LET m == MessageOf(c) IN
    /\ Cardinality({d \in Calls : status[d] # "none"}) < MaxCallsInAll
    /\ status[c] = "none"
    /\ c[2] > 1 => status[<<m, c[2] - 1>>] \in {"failed", "gone", "ended"}
    /\ status' = [status EXCEPT ![c] = "open"]
    /\ sendCalls' = [sendCalls EXCEPT ![m] = c]
    /\ PerformSend(m, 0, seqMap)
    /\ UNCHANGED <<dest, answered, acks, acknowledged, errors>>

\* The client does not wait any more: deadline, or connection lost.
ClientGoes(c) ==
    /\ status[c] = "open"
    /\ status' = [status EXCEPT ![c] = "gone"]
    /\ UNCHANGED <<dest, answered, sendCalls, logic, pool, network, errors>>

\* 'cancelled': sending stops and the call is forgotten, even if it is a later
\* call for the message.
Cancelled(c) ==
    /\ status[c] = "gone"
    /\ status' = [status EXCEPT ![c] = "ended"]
    /\ CleanUp(MessageOf(c))
    /\ sendCalls' = [sendCalls EXCEPT ![MessageOf(c)] = None]
    /\ UNCHANGED <<dest, answered, network, errors>>

\* Mutant: the failure is not reported.
TimerSilent(t) ==
    /\ t \in DOMAIN seqMap /\ seqMap[t].timer
    /\ LET m == seqMap[t].message count == seqMap[t].count IN
       /\ IF count >= MaxRetries
          THEN CleanUp(m) /\ UNCHANGED wire
          ELSE PerformSend(m, count, [seqMap EXCEPT ![t].timer = FALSE])
       /\ UNCHANGED <<status, answered, sendCalls>>
    /\ UNCHANGED <<dest, acks, acknowledged, errors>>

\* _retry(): a minute after a copy was sent, send another one, or fail.
Timer(t) ==
    /\ t \in DOMAIN seqMap /\ seqMap[t].timer
    /\ LET m == seqMap[t].message count == seqMap[t].count IN
       IF count >= MaxRetries
       THEN CleanUp(m) /\ Answer(m, "failed") /\ UNCHANGED wire
       ELSE /\ PerformSend(m, count, [seqMap EXCEPT ![t].timer = FALSE])
            /\ UNCHANGED <<status, answered, sendCalls>>
    /\ UNCHANGED <<dest, acks, acknowledged, errors>>

\* An error of a socket is reported for the message it was opened for; the
\* retries go on.
SocketError(s) ==
    /\ errors < MaxErrors
    /\ errors' = errors + 1
    /\ s \in DOMAIN sockets
    /\ Answer(sockets[s].owner, "failed")
    /\ UNCHANGED <<dest, logic, pool, network>>

\* The receiver gets a copy and acknowledges it.
Receive(copy) ==
    /\ copy \in wire
    /\ wire' = wire \ {copy}
    /\ acks' = acks \cup {copy}
    /\ acknowledged' = acknowledged \cup {copy.message}
    /\ UNCHANGED <<dest, status, answered, sendCalls, logic, pool, errors>>

\* The acknowledgement comes in on the socket of the copy: the message is done
\* with and the call has succeeded.
AckReceived(copy) ==
    /\ copy \in acks
    /\ acks' = acks \ {copy}
    /\ IF copy.socket \in DOMAIN sockets
       THEN CleanUp(copy.message) /\ Answer(copy.message, "ok")
       ELSE UNCHANGED <<status, answered, sendCalls, logic, pool>>
    /\ UNCHANGED <<dest, wire, acknowledged, errors>>

Next ==
    \/ \E c \in Calls : SendMessage(c) \/ ClientGoes(c) \/ Cancelled(c)
    \/ \E t \in SeqIds : Timer(t) \/ SocketError(t)
    \/ \E copy \in wire \cup acks : Receive(copy) \/ AckReceived(copy)

Spec == Init /\ [][Next]_vars

\* Timers fire, and the service notices that a client is gone.
Fairness ==
    /\ \A t \in 1 .. (MaxRetries * MaxCallsInAll) : WF_vars(Timer(t))
    /\ \A c \in Calls : WF_vars(Cancelled(c))

FairSpec == Spec /\ Fairness

-----------------------------------------------------------------------------
(* Properties.                                                             *)

Copies == [seqId : SeqIds, message : Messages, socket : SeqIds]

\* The type invariant.
TypeOK ==
    /\ dest \in [Messages -> Dests]
    /\ status \in [Calls -> {"none", "open", "ok", "failed", "gone", "ended"}]
    /\ answered \in [Calls -> Nat]
    /\ sendCalls \in [Messages -> Calls \cup {None}]
    /\ maxSeqId \in Nat
    /\ seqMap \in [DOMAIN seqMap -> [message : Messages, count : 1 .. MaxRetries, timer : BOOLEAN]]
    /\ sockets \in [DOMAIN sockets -> [dest : Dests, owner : Messages,
                                    users : SUBSET SeqIds]]
    /\ socketMap \in [DOMAIN socketMap -> DOMAIN sockets]
    /\ DOMAIN seqMap \cup DOMAIN sockets \subseteq SeqIds
    /\ seqIdList \in [Messages -> SUBSET SeqIds]
    /\ wire \subseteq Copies /\ acks \subseteq Copies
    /\ acknowledged \subseteq Messages
    /\ errors \in 0 .. MaxErrors

\* No socket is left behind and none is closed too early: an open socket is used
\* by copies of messages to its destination that are still being sent, at most
\* Limit of them, and every copy being sent is on one open socket, the one
\* socketMap says.
SocketsInUse ==
    /\ \A s \in DOMAIN sockets :
           /\ sockets[s].users # {}
           /\ Cardinality(sockets[s].users) <= Limit
           /\ \A t \in sockets[s].users :
                  t \in DOMAIN seqMap /\ dest[seqMap[t].message] = sockets[s].dest
    /\ \A t \in DOMAIN seqMap :
           {s \in DOMAIN sockets : t \in sockets[s].users} = {socketMap[t]}

\* A call that the service has registered is tended: a timer runs for its message,
\* which will send another copy or report the failure; so no call waits for its
\* deadline, except one that was forgotten because an earlier call for the
\* message was cancelled.
RegisteredIsTended ==
    \A m \in Messages : sendCalls[m] # None =>
        \E t \in DOMAIN seqMap : seqMap[t].message = m /\ seqMap[t].timer

\* The records of the service are sound: its sockets and its calls agree with what is
\* being sent (mq_send_socket.js, mq_logic.js).
SendingIsSound == SocketsInUse /\ RegisteredIsTended

\* The calls keep what the service promises.
Promise == INSTANCE SendCall WITH
    answer <- [c \in Calls |-> CASE answered[c] = 0 -> "none"
                                 [] answered[c] > 1 -> "twice"
                                 [] status[c] = "ok" -> "ok"
                                 [] OTHER -> "failed"]

ImplementsSendCall == Promise!Spec

\* A call gets its answer without the client having to stop waiting, unless it was
\* forgotten because an earlier call for the message was cancelled.
CallsAreAnswered ==
    \A c \in Calls : status[c] = "open" ~> status[c] # "open" \/ sendCalls[MessageOf(c)] = None

=============================================================================
