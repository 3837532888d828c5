------------------------------- MODULE AsNode -------------------------------
(***************************************************************************)
(* An AS and one request with data requests for its services: core/as.     *)
(* The message of the RP is checked and a callback asks the client for the *)
(* data of each service; data comes as the answer of the callback or by a  *)
(* call of its own, is signed on the blockchain and sent to the RP.  As in *)
(* module IdpNode, the message and the updates are tasks of one queue, and *)
(* data is handled beside it.  With them, the registration of a service,   *)
(* which says where its callback goes.                                     *)
(***************************************************************************)
EXTENDS Responder

CONSTANTS
    Services,       \* services of the request that the message names
    Calls,          \* calls of the client with data
    ServiceOf,      \* the service of each call
    Registered,     \* services with a callback URL at the start
    MaxCalls        \* bound: calls that register a service

ASSUME ConstantsAssumption ==
    /\ IsFiniteSet(Services) /\ IsFiniteSet(Calls) /\ Services \cap Calls = {}
    /\ ServiceOf \in [Calls -> Services]
    /\ None \notin Services \cup Calls /\ Registered \subseteq Services /\ MaxCalls \in Nat
    /\ MaxFailures \in Nat /\ MaxCrashes \in Nat

\* Data is named by the service whose callback it answers, or by its call.
Data == Services \cup Calls
Of(d) == IF d \in Services THEN d ELSE ServiceOf[d]

VARIABLES
    signed,         \* chain: for each service, the data this node has signed
    url,            \* Redis: services with a callback URL
    registration,   \* the step of a call that registers each service
    salt,           \* Redis: initialSalt is stored
    rpId,           \* Redis: services whose data request is known
    asking,         \* Redis: services whose callback is not answered yet
    asked,          \* services whose client was sent a callback
    turnedDown,     \* services whose client answered with an error
    aside,          \* data that is processed while its sender waits (synchronous)
    salted          \* data that was salted with the salt of the request

chain == <<status, signed, unseen>>
service == <<url, registration>>
redis == <<salt, rpId, asking, asked, turnedDown>>
data == <<step, aside, salted, sent, told>>
vars == <<chain, service, redis, queue, data, missed, failures, crashes>>

Init ==
    /\ status = "open" /\ signed = [s \in Services |-> None] /\ unseen = FALSE
    /\ url = Registered
    /\ registration = [s \in Services |-> "none"]
    /\ salt = FALSE /\ rpId = {}
    /\ queue = <<"read">>
    /\ asking = {} /\ asked = {} /\ turnedDown = {}
    /\ step = [d \in Data |-> "none"]
    /\ aside = {} /\ salted = {} /\ sent = {}
    /\ told = [d \in Data |-> {}]
    /\ missed = FALSE
    /\ failures = 0 /\ crashes = 0

-----------------------------------------------------------------------------
(* registerOrUpdateASService(): the transaction, then the URL.             *)

Registers(s, at, next) == /\ registration[s] = at
                          /\ registration' = [registration EXCEPT ![s] = next]

Register(s) ==
    /\ Cardinality({t \in Services : registration[t] # "none"}) < MaxCalls
    /\ Registers(s, "none", "tx")
    /\ UNCHANGED <<chain, url, redis, queue, data, missed, failures, crashes>>

\* The result of RegisterServiceDestination or UpdateServiceDestination, and
\* registerOrUpdateASServiceInternalAsyncAfterBlockchain().
RegisterResult(s) ==
    /\ \/ Registers(s, "tx", "success") /\ url' = url \cup {s} /\ UNCHANGED failures
       \/ Registers(s, "tx", "failure") /\ Fails /\ UNCHANGED url
    /\ UNCHANGED <<chain, redis, queue, data, missed, crashes>>

-----------------------------------------------------------------------------
(* The message and the blocks.                                             *)

\* The RP closes the request, or it is timed out.
End ==
    /\ status = "open"
    /\ status' = "over" /\ unseen' = TRUE
    /\ UNCHANGED <<signed, service, redis, queue, data, missed, failures, crashes>>

\* processMessage() up to its read of the chain.
ReadRequest ==
    /\ At("read")
    /\ IF status = "open" THEN Becomes("store") ELSE queue' = Tail(queue)
    /\ UNCHANGED <<chain, service, redis, data, missed, failures, crashes>>

\* The salt is stored before the message is checked.
StoreSalt ==
    /\ At("store")
    /\ salt' = TRUE
    /\ Becomes("check")
    /\ UNCHANGED <<chain, service, rpId, asking, asked, turnedDown, data, missed, failures,
                   crashes>>

\* getDataAndSendBackToRP(): for each service with a URL, the RP is noted and a
\* callback sent that is tried again until it is answered or the request is over.
AskForData ==
    /\ At("check")
    /\ rpId' = rpId \cup (Services \cap url)
    /\ asking' = asking \cup (Services \cap url)
    /\ asked' = asked \cup (Services \cap url)
    /\ queue' = Tail(queue)
    /\ UNCHANGED <<chain, service, salt, turnedDown, data, missed, failures, crashes>>

\* The checks of the message fail: the request, its parameters, its receiver, the
\* answers of the IdPs or their signatures.
RefuseMessage ==
    /\ At("check") /\ Fails
    /\ queue' = Tail(queue)
    /\ UNCHANGED <<chain, service, redis, data, missed, crashes>>

\* processTasksInBlocks() for the block with the end.
SeeEnd ==
    /\ unseen
    /\ unseen' = FALSE
    /\ queue' = IF salt THEN Append(queue, "cleanUp") ELSE queue
    /\ missed' = (missed \/ ~salt)
    /\ UNCHANGED <<status, signed, service, redis, data, failures, crashes>>

\* Mutant: only the salt is forgotten.
CleanUpSalt ==
    /\ At("cleanUp")
    /\ salt' = FALSE
    /\ queue' = Tail(queue)
    /\ UNCHANGED <<chain, service, rpId, asking, asked, turnedDown, data, missed, failures,
                   crashes>>

\* processRequestUpdate() for the end.
CleanUp ==
    /\ At("cleanUp")
    /\ salt' = FALSE
    /\ rpId' = rpId \ Services
    /\ queue' = Tail(queue)
    /\ UNCHANGED <<chain, service, asking, asked, turnedDown, data, missed, failures, crashes>>

\* The task throws, at its read of the chain.
CleanUpFails ==
    /\ At("cleanUp") /\ Fails
    /\ queue' = Tail(queue)
    /\ missed' = TRUE
    /\ UNCHANGED <<chain, service, redis, data, crashes>>

-----------------------------------------------------------------------------
(* Data.                                                                   *)

\* Whoever waits for the data gets the error; else it is the client that is told:
\* the error callback for the answer of a callback, the result for a call.
TellError(d) == Tell(d, IF d \in aside THEN "error" ELSE "failure")

\* Mutant: an answer that defers the data takes the data request with it.
AnswerForgets(s, code) ==
    /\ s \in asking
    /\ asking' = asking \ {s}
    /\ rpId' = IF code # 200 THEN rpId \ {s} ELSE rpId
    /\ turnedDown' = IF code = 500 THEN turnedDown \cup {s} ELSE turnedDown
    /\ IF code = 200
       THEN To(s, "read") /\ aside' \in {aside, aside \cup {s}}
       ELSE UNCHANGED <<step, aside>>
    /\ UNCHANGED <<chain, service, salt, asked, queue, salted, sent, told, missed, failures,
                   crashes>>

\* afterGotDataFromCallback(): 204 defers the data to a call; an error ends the data
\* request; data without a reference ID is processed synchronously.
Answer(s, code) ==
    /\ s \in asking
    /\ asking' = asking \ {s}
    /\ rpId' = IF code \notin {200, 204} THEN rpId \ {s} ELSE rpId
    /\ turnedDown' = IF code \notin {200, 204} THEN turnedDown \cup {s} ELSE turnedDown
    /\ IF code = 200
       THEN To(s, "read") /\ aside' \in {aside, aside \cup {s}}
       ELSE UNCHANGED <<step, aside>>
    /\ UNCHANGED <<chain, service, salt, asked, queue, salted, sent, told, missed, failures,
                   crashes>>

\* The callback is not tried again when the request is over.
StopAsking(s) ==
    /\ s \in asking /\ status = "over"
    /\ asking' = asking \ {s}
    /\ UNCHANGED <<chain, service, salt, rpId, asked, turnedDown, queue, data, missed, failures,
                   crashes>>

\* The client sends data by a call of its own.
SendData(d) ==
    /\ d \in Calls
    /\ Goes(d, "none", "read")
    /\ UNCHANGED <<chain, service, redis, queue, aside, salted, sent, told, missed, failures,
                   crashes>>

\* Data that is refused by processDataForRP(): an error of the call, or the error
\* callback for an answer.
Refuse(d) == To(d, "refused") /\ IF d \in Services THEN Tell(d, "error") ELSE UNCHANGED told

\* processDataForRP() up to its read of the chain, which may be over by then.
ReadForData(d) ==
    /\ step[d] = "read"
    /\ IF status = "open" THEN To(d, "look") /\ UNCHANGED told ELSE Refuse(d)
    /\ UNCHANGED <<chain, service, redis, queue, aside, salted, sent, missed, failures, crashes>>

\* The rest of it: the data request has to be known, and the data valid.
LookUp(d, isValid) ==
    /\ step[d] = "look"
    /\ IF Of(d) \in rpId /\ isValid THEN To(d, "salt") /\ UNCHANGED told ELSE Refuse(d)
    /\ UNCHANGED <<chain, service, redis, queue, aside, salted, sent, missed, failures, crashes>>

\* processDataForRPInternalAsync(): the salt is read anew, and may be gone.
Sign(d) ==
    /\ \/ /\ Goes(d, "salt", "tx")
          /\ salted' = IF salt THEN salted \cup {d} ELSE salted
          /\ UNCHANGED <<told, failures>>
       \/ Goes(d, "salt", "done") /\ TellError(d) /\ Fails /\ UNCHANGED salted
    /\ UNCHANGED <<chain, service, redis, queue, aside, sent, missed, crashes>>

\* Mutant: the function called with the result does not look at the error.
SignIgnored(d) ==
    /\ Goes(d, "tx", "handler")
    /\ IF status = "open" /\ signed[Of(d)] = None
       THEN signed' = [signed EXCEPT ![Of(d)] = d]
       ELSE UNCHANGED signed
    /\ UNCHANGED <<status, unseen, service, redis, queue, aside, salted, sent, told, missed,
                   failures, crashes>>

\* SignData on the chain: once for a service, while the request is open.
SignResult(d) ==
    /\ IF status = "open" /\ signed[Of(d)] = None
       THEN /\ signed' = [signed EXCEPT ![Of(d)] = d]
            /\ Goes(d, "tx", "handler")
            /\ UNCHANGED told
       ELSE Goes(d, "tx", "done") /\ TellError(d) /\ UNCHANGED signed
    /\ UNCHANGED <<status, unseen, service, redis, queue, aside, salted, sent, missed,
                   failures, crashes>>

\* The transaction whose sender was lost with the process.
SignForNobody(d) ==
    /\ Goes(d, "orphan", "lost")
    /\ signed' = IF status = "open" /\ signed[Of(d)] = None
                 THEN [signed EXCEPT ![Of(d)] = d] ELSE signed
    /\ UNCHANGED <<status, unseen, service, redis, queue, aside, salted, sent, told, missed,
                   failures, crashes>>

\* sendDataToRP().
Send(d) ==
    /\ Goes(d, "handler", "sent")
    /\ sent' = sent \cup {d}
    /\ UNCHANGED <<chain, service, redis, queue, aside, salted, told, missed, failures, crashes>>

\* Mutant: the RP's address is missing and nobody hears of it.
SendFailsSilently(d) ==
    /\ Goes(d, "handler", "done") /\ Fails
    /\ UNCHANGED <<chain, service, redis, queue, aside, salted, sent, told, missed, crashes>>

\* The RP's address is missing, or the message cannot be made.
SendFails(d) ==
    /\ Goes(d, "handler", "done") /\ Fails
    /\ TellError(d)
    /\ UNCHANGED <<chain, service, redis, queue, aside, salted, sent, missed, crashes>>

\* The client is told, unless it waits, and the data request forgotten.
Finish(d) ==
    /\ Goes(d, "sent", "done")
    /\ IF d \in aside THEN UNCHANGED told ELSE Tell(d, "success")
    /\ rpId' = rpId \ {Of(d)}
    /\ UNCHANGED <<chain, service, salt, asking, asked, turnedDown, queue, aside, salted,
                   sent, missed, failures, crashes>>

-----------------------------------------------------------------------------
(* The process stops and starts again.  What waits in the process for a    *)
(* transaction is lost with it; what is called with the result is not.     *)
AfterCrash(d) ==
    CASE step[d] \in {"read", "look", "salt"} -> "lost"
      [] step[d] = "tx" /\ d \in aside -> "orphan"
      [] step[d] \in {"handler", "sent"} /\ d \in aside -> "lost"
      [] step[d] \in {"handler", "sent"} -> "handler"
      [] OTHER -> step[d]
Crash ==
    /\ crashes < MaxCrashes
    /\ crashes' = crashes + 1
    /\ queue' = <<>>
    /\ missed' = (missed \/ \E i \in 1 .. Len(queue) : queue[i] = "cleanUp")
    /\ step' = [d \in Data |-> AfterCrash(d)]
    /\ UNCHANGED <<chain, service, redis, aside, salted, sent, told, failures>>

Tasks == ReadRequest \/ StoreSalt \/ AskForData \/ CleanUp
Processing(d) == \/ ReadForData(d) \/ LookUp(d, TRUE) \/ Sign(d) \/ SignResult(d)
                 \/ SignForNobody(d) \/ Send(d) \/ Finish(d)

Next == \/ \E s \in Services : \/ Register(s) \/ RegisterResult(s) \/ StopAsking(s)
                               \/ \E code \in {200, 204, 500} : Answer(s, code)
        \/ End \/ SeeEnd \/ Tasks \/ RefuseMessage \/ CleanUpFails
        \/ \E d \in Data : SendData(d) \/ Processing(d) \/ LookUp(d, FALSE) \/ SendFails(d)
        \/ Crash

\* What is ready runs; the RP, the client and failures are free.
Fairness == /\ WF_vars(Tasks) /\ WF_vars(SeeEnd)
            /\ \A s \in Services : WF_vars(RegisterResult(s)) /\ WF_vars(StopAsking(s))
            /\ \A d \in Data : WF_vars(Processing(d))

Spec == Init /\ [][Next]_vars /\ Fairness

-----------------------------------------------------------------------------
(* Properties.                                                             *)

TypeOK ==
    /\ status \in {"open", "over"}
    /\ signed \in [Services -> Data \cup {None}]
    /\ unseen \in BOOLEAN /\ salt \in BOOLEAN /\ missed \in BOOLEAN
    /\ url \subseteq Services
    /\ registration \in [Services -> {"none", "tx", "success", "failure"}]
    /\ rpId \subseteq Services /\ asked \subseteq Services /\ turnedDown \subseteq Services
    /\ asking \subseteq asked
    /\ queue \in Seq({"read", "store", "check", "cleanUp"})
    /\ step \in [Data -> {"none", "read", "look", "salt", "tx", "handler", "sent", "done",
                          "refused", "orphan", "lost"}]
    /\ aside \subseteq Data /\ salted \subseteq Data /\ sent \subseteq Data
    /\ told \in [Data -> SUBSET {"success", "failure", "error"}]
    /\ failures \in 0 .. MaxFailures /\ crashes \in 0 .. MaxCrashes

\* Of the data that comes for a service by the callback and by calls, the RP is sent
\* what is signed on the chain and no other, and never with the salt missing that the
\* clean-up takes away between the checks and the signature; the client is told of a
\* success only for what was sent (processDataForRPInternalAsync()).
OnlySignedIsSent ==
    \A d \in Data : /\ d \in sent => signed[Of(d)] = d /\ d \in salted
                    /\ "success" \in told[d] => d \in sent

\* As long as the request is open, nothing is signed for a service and its client has
\* not answered with an error, the data that was asked for can still be sent: a
\* deferred answer, refused data or a failed transaction leaves the data request known
\* (afterGotDataFromCallback(), processDataForRP()).
DataCanStillCome ==
    \A s \in asked : status = "open" /\ signed[s] = None /\ s \notin turnedDown => s \in rpId

\* Data that was accepted is reported in the end, as a result, as an error or to
\* whoever waits for it, also when the process stops while the transaction or its
\* result is on its way; a stop before the transaction, or while someone waits for it
\* in the process, loses it (processDataForRPInternalAsyncAfterBlockchain()).
EveryDataIsReported ==
    \A d \in Data : step[d] = "salt" ~> \/ told[d] # {} \/ step[d] = "lost"
                                        \/ d \in aside /\ step[d] = "done"

\* A request that is over is forgotten, its salt and its data requests, unless its end
\* came when the salt was not stored yet or the task was lost (processTasksInBlocks(),
\* processRequestUpdate()).
EndIsSeen == status = "over" ~> missed \/ (~salt /\ rpId = {} /\ asking = {})
=============================================================================
