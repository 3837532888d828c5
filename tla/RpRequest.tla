----------------------------- MODULE RpRequest ------------------------------
(***************************************************************************)
(* One request, seen by the relying party (RP) that made it: core/rp.  The *)
(* identity providers (IdPs) answer on the blockchain and send the RP a    *)
(* message each; the RP checks every answer, asks the authoritative        *)
(* sources (ASes) for data, acknowledges the data, tells the client of     *)
(* every change, closes the request when it is complete and forgets it     *)
(* when it has ended.  All this happens in tasks of one queue (module      *)
(* RequestQueue), which run one after the other but come in any order:     *)
(* messages wait for their block (module BlockWait), updates come with     *)
(* blocks, several answers can share a block.                              *)
(***************************************************************************)
EXTENDS Integers, Sequences, FiniteSets

CONSTANTS
    Idps,           \* IdPs asked; min_idp is their number
    Ases,           \* ASes asked for data, where the request asks for data
    MaxFailures     \* bound: tasks that fail half-way

ASSUME ConstantsAssumption ==
    /\ IsFiniteSet(Idps) /\ Idps # {}
    /\ IsFiniteSet(Ases) /\ Ases # {}
    /\ Idps \cap Ases = {}
    /\ MaxFailures \in Nat

VARIABLES
    request,    \* what is asked and what the answers are worth; never changes
    chain,      \* the states of the request at the heights where it changed
    seen,       \* processTasksInBlocks() has handled the heights 1 .. seen
    delivered,  \* IdPs and ASes whose message has become a task
    tasks,      \* the queue of the request
    cached,     \* requestData and the other records of the request exist
    accessors,  \* responsePrivateDataList: IdPs whose accessor is stored
    checked,    \* idpResponseValidList: IdPs whose answer has been checked
    dataRequests, \* data requests sent to the ASes: what was checked by then
    acked,      \* ASes for which a SetDataReceived transaction was sent
    stored,     \* ASes whose data is stored for the client
    closing,    \* response_valid_lists of the CloseRequest transactions sent
    reported,   \* tasks that sent a request_status callback to the client
    failures    \* tasks that failed, for the bound

cache == <<cached, accessors, checked>>
sent == <<dataRequests, acked, closing, reported>>
vars == <<request, chain, seen, delivered, tasks, cache, sent, stored, failures>>

Request == [mode : {1, 3}, ases : {{}, Ases}, accepting : SUBSET Idps, genuine : SUBSET Idps]

\* The request on the chain, as getRequestDetail() returns it.
Detail == [answered : SUBSET Idps, signed : SUBSET Ases, received : SUBSET Ases,
           closed : BOOLEAN, timedOut : BOOLEAN]

ResponseTask(i, h) == [kind |-> "response", from |-> i, height |-> h]
DataTask(a) == [kind |-> "data", from |-> a, height |-> 0]
UpdateTask(h) == [kind |-> "update", from |-> "block", height |-> h]

Init ==
    /\ request \in Request
    /\ chain = <<[answered |-> {}, signed |-> {}, received |-> {},
                  closed |-> FALSE, timedOut |-> FALSE]>>
    /\ seen = 0
    /\ delivered = {}
    /\ tasks = <<>>
    /\ cached = TRUE
    /\ accessors = {} /\ checked = {}
    /\ dataRequests = <<>>
    /\ acked = {} /\ stored = {}
    /\ closing = {}
    /\ reported = {}
    /\ failures = 0

Latest == chain[Len(chain)]
Ended(detail) == detail.closed \/ detail.timedOut

\* IdP i answered in the block of height h.
AnsweredIn(i, h) ==
    /\ h \in DOMAIN chain
    /\ i \in chain[h].answered
    /\ h > 1 => i \notin chain[h - 1].answered

-----------------------------------------------------------------------------
(* The status of the request, getDetailedRequestStatus().                  *)

Confirmed(d) == d.answered # {} /\ d.answered \subseteq request.accepting

Completed(d) ==
    IF request.ases = {} THEN d.answered = Idps /\ Confirmed(d)
                         ELSE d.signed = request.ases /\ d.received = request.ases

\* isAllIdpResponsesValid() of a list, where the mode asks for it.  Only the
\* answers in the list are looked at.
ListValid(list) == request.mode = 1 \/ list \subseteq request.genuine

\* isAllIdpRespondedAndValid(): status 'confirmed' is not 'completed'.
MayAskAs(d, list) ==
    /\ Confirmed(d) /\ ~Completed(d)
    /\ d.answered = Idps
    /\ ~Ended(d)
    /\ d.signed = {}
    /\ ListValid(list)

\* The request is closed without the client asking for it.
MayClose(d, list) == Completed(d) /\ ~Ended(d) /\ ListValid(list)

-----------------------------------------------------------------------------
(* The blockchain, the other nodes and the network.                        *)

\* A block with the answers of R, the signatures of S, the acknowledgements of
\* D, and at the end perhaps a transaction that closes the request or lets it
\* time out.
Block(R, S, D, end) ==
    LET d == Latest IN
    /\ ~Ended(d)
    /\ R \subseteq Idps \ d.answered
    /\ S \subseteq IF dataRequests # <<>> /\ d.answered = Idps
                   THEN request.ases \ d.signed ELSE {}
    /\ D \subseteq acked \ d.received
    /\ end = "close" => closing # {}
    /\ R # {} \/ S # {} \/ D # {} \/ end # "open"
    /\ chain' = Append(chain, [answered |-> d.answered \cup R, signed |-> d.signed \cup S,
                               received |-> d.received \cup D,
                               closed |-> end = "close", timedOut |-> end = "timeout"])
    /\ UNCHANGED <<request, seen, delivered, tasks, cache, sent, stored, failures>>

NewBlock == \E R \in SUBSET Idps, S, D \in SUBSET Ases, end \in {"open", "close", "timeout"} :
                Block(R, S, D, end)

\* The message of an IdP or an AS, sent when its transaction is on the chain,
\* becomes a task of the request.
Deliver ==
    /\ \/ \E i \in Latest.answered \ delivered, h \in DOMAIN chain :
              /\ AnsweredIn(i, h)
              /\ delivered' = delivered \cup {i}
              /\ tasks' = Append(tasks, ResponseTask(i, h))
       \/ \E a \in Latest.signed \ delivered :
              /\ delivered' = delivered \cup {a}
              /\ tasks' = Append(tasks, DataTask(a))
    /\ UNCHANGED <<request, chain, seen, cache, sent, stored, failures>>

\* processTasksInBlocks(): a block that changed the request becomes a task if
\* the request is still known.
SeeBlock ==
    /\ seen < Len(chain)
    /\ seen' = seen + 1
    /\ tasks' = IF cached THEN Append(tasks, UpdateTask(seen + 1)) ELSE tasks
    /\ UNCHANGED <<request, chain, delivered, cache, sent, stored, failures>>

-----------------------------------------------------------------------------
(* The tasks.                                                              *)

Takes(kind) == tasks # <<>> /\ Head(tasks).kind = kind /\ tasks' = Tail(tasks)

\* callbackToClient() with type request_status.
Report == reported' = reported \cup {Head(tasks)}

\* Mutant: the request is read as it is now.
DetailNow(h) == Latest

\* Mutant: the request is read at the height before.
DetailBefore(h) == chain[IF h = 1 THEN 1 ELSE h - 1]

\* getRequestDetail({requestId, height}): as of the height of the task.
DetailAt(h) == chain[h]

\* common.closeRequest(), not waited for, reads the list again and sends it.
AutoClose(d, list) == closing' = IF MayClose(d, list) THEN closing \cup {checked'} ELSE closing

\* sendRequestToAS(), if the request asks for data.
AskAs(d, list) ==
    dataRequests' = IF MayAskAs(d, list) /\ request.ases # {}
                    THEN Append(dataRequests, [height |-> Head(tasks).height, checked |-> checked'])
                    ELSE dataRequests

StoreAccessor == accessors' = IF request.mode = 3 THEN accessors \cup {Head(tasks).from}
                                                  ELSE accessors

\* Mutant: only the answer of the message is looked at.
ProcessResponseAlone ==
    LET t == Head(tasks) d == DetailAt(t.height) list == {t.from} IN
    /\ Takes("response")
    /\ IF ~cached THEN UNCHANGED <<accessors, checked, dataRequests, closing, reported>>
       ELSE /\ StoreAccessor
            /\ IF Ended(d) THEN UNCHANGED <<checked, dataRequests, closing, reported>>
               ELSE /\ checked' = checked \cup {t.from}
                    /\ Report
                    /\ AskAs(d, list)
                    /\ AutoClose(d, list)
    /\ UNCHANGED <<request, chain, seen, delivered, cached, acked, stored, failures>>

\* rp.processMessage() of an IdP's message: store the accessor, check the answer
\* and append it to the list, tell the client, then go on with the request.
ProcessResponse ==
    LET t == Head(tasks) d == DetailAt(t.height) list == checked \cup {t.from} IN
    /\ Takes("response")
    /\ IF ~cached THEN UNCHANGED <<accessors, checked, dataRequests, closing, reported>>
       ELSE /\ StoreAccessor
            /\ IF Ended(d) THEN UNCHANGED <<checked, dataRequests, closing, reported>>
               ELSE /\ checked' = list
                    /\ Report
                    /\ AskAs(d, list)
                    /\ AutoClose(d, list)
    /\ UNCHANGED <<request, chain, seen, delivered, cached, acked, stored, failures>>

\* ... that throws: on a failed query before the answer is checked, or on a
\* failed send after it.
FailResponse ==
    /\ failures < MaxFailures
    /\ cached
    /\ Takes("response")
    /\ StoreAccessor
    /\ \/ UNCHANGED checked
       \/ ~Ended(DetailAt(Head(tasks).height)) /\ checked' = checked \cup {Head(tasks).from}
    /\ failures' = failures + 1
    /\ UNCHANGED <<request, chain, seen, delivered, cached, sent, stored>>

\* rp.processMessage() of an AS's message, processAsData(): the signature is on
\* the chain, so SetDataReceived is sent.
ProcessData ==
    /\ Takes("data")
    /\ acked' = acked \cup {Head(tasks).from}
    /\ UNCHANGED <<request, chain, seen, delivered, cache, dataRequests, closing, reported,
                   stored, failures>>

\* processAsDataAfterSetDataReceived()
StoreData ==
    /\ \E a \in Latest.received \ stored : stored' = stored \cup {a}
    /\ UNCHANGED <<request, chain, seen, delivered, tasks, cache, sent, failures>>

\* Mutant: any change after the last answer is taken for an answer.
IdpAnswerWide(d) == d.answered # {} /\ ~Ended(d)

\* The change is an answer, which processMessage() reports.
IdpAnswer(d) ==
    /\ d.answered # {} /\ ~Ended(d)
    /\ d.answered # Idps \/ d.signed = {}

\* rp.processRequestUpdate()
ProcessUpdate ==
    LET d == DetailAt(Head(tasks).height) IN
    /\ Takes("update")
    /\ IF Ended(d) THEN cached' = FALSE /\ accessors' = {} /\ checked' = {}
                   ELSE UNCHANGED cache
    /\ IF IdpAnswer(d) THEN UNCHANGED <<reported, closing>>
                       ELSE Report /\ AutoClose(d, checked)
    /\ UNCHANGED <<request, chain, seen, delivered, dataRequests, acked, stored, failures>>

\* ... that throws on a failed query.
FailUpdate ==
    /\ failures < MaxFailures
    /\ Takes("update")
    /\ failures' = failures + 1
    /\ UNCHANGED <<request, chain, seen, delivered, cache, sent, stored>>

Next == \/ NewBlock \/ Deliver \/ SeeBlock
        \/ ProcessResponse \/ FailResponse \/ ProcessData \/ StoreData
        \/ ProcessUpdate \/ FailUpdate

Spec == Init /\ [][Next]_vars

\* The transactions of this RP get into blocks, messages are sent until they
\* arrive, the node goes on with blocks and tasks.  No IdP has to answer, no AS
\* has to sign, no request has to time out.
Fairness ==
    /\ WF_vars(\E R \in SUBSET Idps, S, D \in SUBSET Ases :
                   Block(R, S, D, "close"))
    /\ \A a \in Ases : WF_vars(\E R \in SUBSET Idps, S, D \in SUBSET Ases,
                                  end \in {"open", "close", "timeout"} :
                                   a \in D /\ Block(R, S, D, end))
    /\ WF_vars(Deliver) /\ WF_vars(SeeBlock)
    /\ WF_vars(ProcessResponse) /\ WF_vars(ProcessData) /\ WF_vars(StoreData)
    /\ WF_vars(ProcessUpdate)

FairSpec == Spec /\ Fairness

-----------------------------------------------------------------------------
(* Properties.                                                             *)

Heights == Nat \ {0}

Task == [kind : {"response"}, from : Idps, height : Heights]
            \cup [kind : {"data"}, from : Ases, height : {0}]
            \cup [kind : {"update"}, from : {"block"}, height : Heights]

\* The type invariant.
TypeOK ==
    /\ request \in Request
    /\ chain \in Seq(Detail) /\ chain # <<>>
    /\ seen \in 0 .. Len(chain)
    /\ delivered \subseteq Idps \cup Ases
    /\ tasks \in Seq(Task)
    /\ cached \in BOOLEAN
    /\ accessors \subseteq Idps /\ checked \subseteq Idps
    /\ dataRequests \in Seq([height : Heights, checked : SUBSET Idps])
    /\ acked \subseteq Ases /\ stored \subseteq Ases
    /\ closing \subseteq SUBSET Idps
    /\ reported \subseteq Task
    /\ failures \in 0 .. MaxFailures

\* A request that has ended is forgotten for good: no message or block that
\* comes after the clean-up of processRequestUpdate() leaves a record behind.
ForgottenForGood == ~cached => accessors = {} /\ checked = {}

\* The client is told of a change either as an answer, by processMessage(), or
\* as any other change, by processRequestUpdate(), never by both.
ReportedOnce ==
    \A h \in DOMAIN chain : UpdateTask(h) \in reported =>
        \A i \in Idps : ResponseTask(i, h) \notin reported

\* Data is asked for once, in whatever order the messages come; only answers
\* that complete the request in one and the same block can each ask for it.
DataRequestsBounded ==
    dataRequests # <<>> =>
        \E h \in DOMAIN chain :
            /\ chain[h].answered = Idps
            /\ \A k \in DOMAIN dataRequests : dataRequests[k].height = h
            /\ Len(dataRequests) <= Cardinality({i \in Idps : AnsweredIn(i, h)})

\* An answer that was found invalid in mode 3 keeps the RP from asking for data
\* and from closing the request, whatever comes after it.
KnownInvalidStops ==
    request.mode = 3 =>
        /\ \A k \in DOMAIN dataRequests : dataRequests[k].checked \subseteq request.genuine
        /\ \A list \in closing : list \subseteq request.genuine

\* The RP handles a request soundly, in whatever order messages and blocks come
\* (processMessage(), processRequestUpdate()).
RequestIsSound == ForgottenForGood /\ ReportedOnce /\ KnownInvalidStops

AllGood == request.accepting = Idps /\ (request.mode = 3 => request.genuine = Idps)

\* rp/index.js:123, "Send request to AS only when all IdP responses' IAL are
\* valid in mode 3".
AskAsOnlyWhenAllValid ==
    dataRequests # <<>> /\ request.mode = 3 => request.genuine = Idps

\* When all IdPs have accepted and all answers are valid, the RP asks for the
\* data, in whatever order the messages come.
GoodAnswersBringData ==
    AllGood /\ request.ases # {} /\ Latest.answered = Idps
        ~> dataRequests # <<>> \/ Ended(Latest) \/ failures > 0

\* A request whose answers are valid and whose data, if it asks for any, is
\* signed gets completed and closed, without a call of the client.
CompleteLeadsToClose ==
    AllGood /\ Latest.answered = Idps /\ Latest.signed = request.ases
        ~> Ended(Latest) \/ failures > 0

\* A request that was closed or timed out is forgotten.
EndedIsForgotten == Ended(Latest) ~> ~cached \/ failures > 0

\* In the end every answer and every other change of the request has been
\* reported to the client, as long as the request is known.
EveryChangeReported ==
    []<>(\/ ~cached \/ failures > 0
         \/ /\ \A h \in DOMAIN chain, i \in Idps :
                   AnsweredIn(i, h) => ResponseTask(i, h) \in reported
            /\ \A h \in DOMAIN chain : \E t \in reported : t.height = h)

\* A request moves on to its end: answers bring data, and data brings the close
\* (sendRequestToAS(), closeRequest()).
RequestMoves == GoodAnswersBringData /\ CompleteLeadsToClose

\* Every change is seen to: the client hears of it, and the end brings the clean-up
\* (processRequestUpdate()).
ChangesAreSeen == EndedIsForgotten /\ EveryChangeReported

=============================================================================
