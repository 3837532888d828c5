------------------------------ MODULE IdpNode -------------------------------
(***************************************************************************)
(* An IdP and one consent request: core/idp.  The message with the request *)
(* and the updates that blocks bring are tasks of one queue (module        *)
(* RequestQueue); which updates become tasks is decided outside the queue, *)
(* when the block is read, by what is stored then.  The answers that the   *)
(* client gives go to the blockchain, and from the function called with    *)
(* the result (module ExpectedTx) to the RP.                               *)
(*                                                                         *)
(* The request is on the chain when its message is handled (module         *)
(* BlockWait).  A block holds one transaction of the request.              *)
(***************************************************************************)
EXTENDS Responder

CONSTANTS
    Answers,        \* calls of createResponse() for the request
    Offer,          \* what each answer has: levels, group of its accessor, signature
    Asked,          \* the request on the chain: mode, minima
    Onboarded       \* the identity at this IdP: modes, level and group

Levels == 1 .. 3
ASSUME IdpAssumption ==
    /\ IsFiniteSet(Answers) /\ None \notin Answers
    /\ Asked \in [mode : 1 .. 3, ial : Levels, aal : Levels]
    /\ Onboarded \in [modes : SUBSET (1 .. 3), ial : Levels, group : {"this", "other"}]
    /\ Offer \in [Answers -> [ial : Levels, aal : Levels, signed : BOOLEAN,
                              group : {"this", "other", "none"}]]
    /\ MaxFailures \in Nat /\ MaxCrashes \in Nat

VARIABLES
    recorded,       \* chain: the answer of this node, or None
    blocks,         \* chain: the transactions of the request, one a block
    valid,          \* the message agrees with the chain and is for this node
    stored,         \* Redis: requestReceivedFromMQ
    given,          \* callbacks of the message: "incoming", "error"
    shown           \* heights whose status was shown to the client

idpChain == <<status, recorded, blocks>>
client == <<sent, told>>
callbacks == <<given, shown>>
idpVars == <<idpChain, unseen, valid, stored, queue, step, client, callbacks, missed,
             failures, crashes>>

Kinds == {"response", "CloseRequest", "TimeOutRequest"}
Ends == {"CloseRequest", "TimeOutRequest"}
MessageTask(at) == [height |-> 0, at |-> at]
Task == {MessageTask(at) : at \in {"read", "store", "check"}}
        \cup [height : Nat \ {0}, at : {"update", "updateAndCleanUp"}]

IdpInit ==
    /\ status = "open" /\ recorded = None /\ blocks = <<>>
    /\ unseen = {}
    /\ valid \in BOOLEAN
    /\ stored = FALSE
    /\ queue = <<MessageTask("read")>>
    /\ step = [a \in Answers |-> "none"]
    /\ sent = {}
    /\ told = [a \in Answers |-> {}]
    /\ given = {} /\ shown = {}
    /\ missed = FALSE
    /\ failures = 0 /\ crashes = 0

-----------------------------------------------------------------------------
(* The chain.                                                              *)

NewBlock(kind) == /\ blocks' = Append(blocks, kind)
                  /\ unseen' = unseen \cup {Len(blocks) + 1}

\* The RP closes the request, or it is timed out.
EndRequest(kind) ==
    /\ status = "open"
    /\ status' = kind
    /\ NewBlock(kind)
    /\ UNCHANGED <<recorded, valid, stored, queue, step, client, callbacks, missed,
                   failures, crashes>>

-----------------------------------------------------------------------------
(* The message and the blocks.                                             *)

\* processMessage() up to its read of the chain: a request that is over is left.
ReadIncoming ==
    /\ At(MessageTask("read"))
    /\ IF status = "open" THEN Becomes(MessageTask("store")) ELSE queue' = Tail(queue)
    /\ UNCHANGED <<idpChain, unseen, valid, stored, step, client, callbacks, missed, failures,
                   crashes>>

\* The message is stored before it is checked.
StoreRequest ==
    /\ At(MessageTask("store"))
    /\ stored' = TRUE
    /\ Becomes(MessageTask("check"))
    /\ UNCHANGED <<idpChain, unseen, valid, step, client, callbacks, missed, failures, crashes>>

\* The checks against the chain; the client gets the request or an error.
CheckRequest ==
    /\ At(MessageTask("check"))
    /\ given' = given \cup {IF valid THEN "incoming" ELSE "error"}
    /\ queue' = Tail(queue)
    /\ UNCHANGED <<idpChain, unseen, valid, stored, step, client, shown, missed, failures,
                   crashes>>

\* Mutant: only a close ends a request.
UpdateTaskOnClose(h) ==
    [height |-> h, at |-> IF blocks[h] = "CloseRequest" THEN "updateAndCleanUp" ELSE "update"]

\* The task for the block at height h.
UpdateTask(h) ==
    [height |-> h, at |-> IF blocks[h] \in Ends THEN "updateAndCleanUp" ELSE "update"]

\* processTasksInBlocks(): blocks of one call are handled side by side.
SeeBlock(h) ==
    /\ h \in unseen
    /\ unseen' = unseen \ {h}
    /\ queue' = IF stored THEN Append(queue, UpdateTask(h)) ELSE queue
    /\ missed' = (missed \/ (blocks[h] \in Ends /\ ~stored))
    /\ UNCHANGED <<idpChain, valid, stored, step, client, callbacks, failures, crashes>>

\* processRequestUpdate(): the status at that height for the client.
Update ==
    /\ queue # <<>> /\ Head(queue).height > 0
    /\ shown' = shown \cup {Head(queue).height}
    /\ stored' = (stored /\ Head(queue).at # "updateAndCleanUp")
    /\ queue' = Tail(queue)
    /\ UNCHANGED <<idpChain, unseen, valid, step, client, given, missed, failures, crashes>>

\* A task that throws is over, and what it had to do is not done.
TaskFails ==
    /\ queue # <<>> /\ Fails
    /\ queue' = Tail(queue)
    /\ missed' = (missed \/ Head(queue).at = "updateAndCleanUp")
    /\ given' = IF Head(queue).height = 0 THEN given \cup {"error"} ELSE given
    /\ UNCHANGED <<idpChain, unseen, valid, stored, step, client, shown, crashes>>

-----------------------------------------------------------------------------
(* The answers.                                                            *)

\* The checks of createResponse() against the chain.
AnswerMeets(answer) ==
    /\ answer.ial >= Asked.ial /\ answer.aal >= Asked.aal
    /\ Asked.mode \in {2, 3} =>
           /\ Asked.mode \in Onboarded.modes
           /\ answer.group = Onboarded.group
           /\ answer.ial = Onboarded.ial
           /\ answer.signed

\* createResponse() up to its read of what is stored, which may be over by then.
CreateResponse(a) ==
    /\ Goes(a, "none", IF status = "open" THEN "look" ELSE "refused")
    /\ UNCHANGED <<idpChain, unseen, valid, stored, queue, client, callbacks, missed, failures,
                   crashes>>

\* The rest of createResponse(): the client has its answer, the call goes on.
LookUpRequest(a) ==
    /\ Goes(a, "look", IF stored /\ AnswerMeets(Offer[a]) THEN "internal" ELSE "refused")
    /\ UNCHANGED <<idpChain, unseen, valid, stored, queue, client, callbacks, missed, failures,
                   crashes>>

\* createResponseInternal().
Internal(a) ==
    /\ \/ Goes(a, "internal", "tx") /\ UNCHANGED <<told, failures>>
       \/ Goes(a, "internal", "done") /\ Tell(a, "failure") /\ Fails
    /\ UNCHANGED <<idpChain, unseen, valid, stored, queue, sent, callbacks, missed, crashes>>

\* Mutant: the function called with the result does not look at the error.
TxIgnored(a) ==
    /\ Goes(a, "tx", "handler")
    /\ IF status = "open" /\ recorded = None
       THEN /\ recorded' = a
            /\ NewBlock("response")
       ELSE UNCHANGED <<recorded, blocks, unseen>>
    /\ UNCHANGED <<status, valid, stored, queue, client, callbacks, missed, failures, crashes>>

\* CreateIdpResponse on the chain: one answer of a node, while the request is open.
\* createResponseAfterBlockchain() begins, or tells the client of the error.
TxResult(a) ==
    /\ IF status = "open" /\ recorded = None
       THEN /\ recorded' = a
            /\ NewBlock("response")
            /\ Goes(a, "tx", "handler")
            /\ UNCHANGED told
       ELSE /\ Goes(a, "tx", "done")
            /\ Tell(a, "failure")
            /\ UNCHANGED <<recorded, blocks, unseen>>
    /\ UNCHANGED <<status, valid, stored, queue, sent, callbacks, missed, failures, crashes>>

\* sendResponseToRP().
SendResponse(a) ==
    /\ Goes(a, "handler", "sent")
    /\ sent' = sent \cup {a}
    /\ UNCHANGED <<idpChain, unseen, valid, stored, queue, told, callbacks, missed, failures,
                   crashes>>

\* Mutant: the RP's address is missing and nobody hears of it.
ResponseFailsSilently(a) ==
    /\ Goes(a, "handler", "done") /\ Fails
    /\ UNCHANGED <<idpChain, unseen, valid, stored, queue, client, callbacks, missed, crashes>>

\* The RP's address is missing, or the message cannot be made.
ResponseFails(a) ==
    /\ Goes(a, "handler", "done") /\ Fails
    /\ Tell(a, "failure")
    /\ UNCHANGED <<idpChain, unseen, valid, stored, queue, sent, callbacks, missed, crashes>>

ReportResponse(a) ==
    /\ Goes(a, "sent", "done")
    /\ Tell(a, "success")
    /\ UNCHANGED <<idpChain, unseen, valid, stored, queue, sent, callbacks, missed, failures,
                   crashes>>

-----------------------------------------------------------------------------
(* The process stops and starts again: tasks and calls are lost, the       *)
(* transactions are not, and a result is applied again unless its function *)
(* had ended.  Blocks that were not handled are read again.                *)
AnswerAfterCrash(at) == CASE at \in {"look", "internal"} -> "lost"
                          [] at \in {"handler", "sent"} -> "handler"
                          [] OTHER -> at
IdpCrash ==
    /\ crashes < MaxCrashes
    /\ crashes' = crashes + 1
    /\ queue' = <<>>
    /\ missed' = (missed \/ \E i \in 1 .. Len(queue) : queue[i].at = "updateAndCleanUp")
    /\ step' = [a \in Answers |-> AnswerAfterCrash(step[a])]
    /\ UNCHANGED <<idpChain, unseen, valid, stored, client, callbacks, failures>>

IdpTasks == ReadIncoming \/ StoreRequest \/ CheckRequest \/ Update
Answering(a) == \/ LookUpRequest(a) \/ Internal(a) \/ TxResult(a) \/ SendResponse(a)
                \/ ReportResponse(a)

IdpNext == \/ \E kind \in Ends : EndRequest(kind)
           \/ IdpTasks \/ TaskFails \/ \E h \in unseen : SeeBlock(h)
           \/ \E a \in Answers : CreateResponse(a) \/ Answering(a) \/ ResponseFails(a)
           \/ IdpCrash

\* What is ready runs; the RP, the client and failures are free.
IdpFairness == /\ WF_idpVars(IdpTasks)
               /\ WF_idpVars(\E h \in unseen : SeeBlock(h))
               /\ \A a \in Answers : WF_idpVars(Answering(a))

IdpSpec == IdpInit /\ [][IdpNext]_idpVars /\ IdpFairness

-----------------------------------------------------------------------------
(* Properties.                                                             *)

IdpTypeOK ==
    /\ status \in {"open"} \cup Ends
    /\ recorded \in Answers \cup {None}
    /\ blocks \in Seq(Kinds)
    /\ unseen \subseteq 1 .. Len(blocks)
    /\ valid \in BOOLEAN /\ stored \in BOOLEAN /\ missed \in BOOLEAN
    /\ queue \in Seq(Task)
    /\ step \in [Answers -> {"none", "look", "refused", "internal", "tx", "handler", "sent",
                             "done", "lost"}]
    /\ sent \subseteq Answers
    /\ told \in [Answers -> SUBSET {"success", "failure"}]
    /\ given \subseteq {"incoming", "error"} /\ shown \subseteq 1 .. Len(blocks)
    /\ failures \in 0 .. MaxFailures /\ crashes \in 0 .. MaxCrashes

\* Of the answers that race with each other and with the end of the request, the RP
\* gets the one that is on the chain and no other, and the client is told of a
\* success only for an answer that the RP was sent; what is told of one that never
\* reached the chain is a failure (createResponseAfterBlockchain()).
OnlyRecordedIsSent ==
    \A a \in Answers : /\ a \in sent => recorded = a
                       /\ "success" \in told[a] => a \in sent
                       /\ step[a] = "done" /\ recorded # a => told[a] = {"failure"}

\* An answer that the call has accepted is reported to the client in the end, also
\* when the process stops while the transaction or its result is on its way; only a
\* stop before the transaction is kept loses it (createResponseInternal()).
EveryAnswerIsReported ==
    \A a \in Answers : step[a] = "internal" ~> told[a] # {} \/ step[a] = "lost"

\* A request that is over is forgotten, and a client that was given it is shown its
\* end, unless the block came when the request was not stored yet or the task was
\* lost (processTasksInBlocks(), processRequestUpdate()).
EndIsShown ==
    status # "open" ~> \/ missed
                       \/ /\ ~stored
                          /\ "incoming" \in given => \E h \in shown : blocks[h] \in Ends
=============================================================================
