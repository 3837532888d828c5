------------------------------ MODULE Identity -------------------------------
(***************************************************************************)
(* The identity operations of an identity provider (IdP): core/identity.   *)
(* A client asks, under a reference ID of its own, for an identity to be   *)
(* created, changed or given up.  Where the identity is protected (mode 3) *)
(* the IdP makes a consent request, as an RP would, and changes the        *)
(* identity only after another IdP has answered it and it is closed.       *)
(*                                                                         *)
(* Every operation is a chain of tasks: transactions, their callbacks,     *)
(* messages, handlers of blocks.  The chains of the calls that use the     *)
(* same reference ID share the records kept under it; this module has one  *)
(* reference ID and the calls made with it.                                *)
(***************************************************************************)
EXTENDS Integers, FiniteSets

CONSTANTS
    Ops,            \* calls of the client with the reference ID
    Plans,          \* what the client may ask for in the calls; None: no call
    Identities,     \* how the identity may be registered at the start
    None,           \* no record
    MaxFailures     \* bound: queries, sends and transactions that fail

Kinds == {"RegisterIdentity", "AddIdentity", "AddAccessor", "RevokeAccessor",
          "RevokeAndAddAccessor", "RevokeIdentityAssociation",
          "UpdateIdentityModeList", "UpdateIal"}

ASSUME ConstantsAssumption ==
    /\ IsFiniteSet(Ops) /\ None \notin Ops
    /\ Plans \subseteq [Ops -> Kinds \cup {None}] /\ None \notin Kinds
    /\ Identities \subseteq [here : {{}, {2}, {2, 3}}, others : {{}, {2}, {2, 3}}]
    /\ MaxFailures \in Nat

VARIABLES
    identity,       \* modes of the identity: at this IdP, at the others
    kind,           \* what each call asks for; never changes
    called,         \* calls that have been made
    consents,       \* operations that have a request_id: consent is needed
    requestOf,      \* identityRequestData of the reference ID
    callbackUrl,    \* the callback URL of the reference ID
    mapping,        \* the request ID of the reference ID
    requestData,    \* consent requests whose requestData is stored
    saved,          \* operations whose identity data is stored by request ID
    consent,        \* the consent request of an operation on the chain
    checked,        \* consent requests whose answer is in the valid list
    jobs,           \* the steps each operation has before it
    effect,         \* operations whose transaction is on the chain
    told,           \* the results the client was told of an operation
    errored,        \* operations with an error sent to the error callback
    robbed,         \* operations whose records another call changed
    failures        \* failures so far, for the bound

records == <<requestOf, callbackUrl, mapping, robbed>>
chain == <<identity, consent, effect>>
vars == <<kind, called, consents, records, requestData, saved, chain, checked,
          jobs, told, errored, failures>>

Request == [state : {"none", "open", "closed", "timedOut"},
            answer : {"none", "accept", "reject", "forged"},
            listed : BOOLEAN,      \* closed with the answer in the valid list
            asked : BOOLEAN]       \* the IdPs have the request

\* The steps of the chains: the tasks of the node, and the transactions that are
\* on their way ("request", "closing", "closingRefused", "tx").
Steps == {"check", "start", "request", "announce", "save", "answer", "closing",
          "closingRefused", "block", "ended", "tellEnded", "clearEnded", "refused",
          "tellRefused", "clearRefused", "apply", "tx", "done", "failed"}

Init ==
    /\ identity \in Identities
    /\ kind \in Plans
    /\ called = {}
    /\ consents = {}
    /\ requestOf = None /\ callbackUrl = None /\ mapping = None
    /\ requestData = {} /\ saved = {}
    /\ consent = [o \in Ops |-> [state |-> "none", answer |-> "none",
                                 listed |-> FALSE, asked |-> FALSE]]
    /\ checked = {}
    /\ jobs = [o \in Ops |-> {}]
    /\ effect = {}
    /\ told = [o \in Ops |-> {}]
    /\ errored = {} /\ robbed = {}
    /\ failures = 0

-----------------------------------------------------------------------------
(* Tasks and records.                                                      *)

Does(o, step) == step \in jobs[o]
Begins(o, step) == jobs' = [jobs EXCEPT ![o] = @ \cup {step}]

\* The task of o is over, and its next ones begin.
Goes(o, step, next) == /\ Does(o, step)
                       /\ jobs' = [jobs EXCEPT ![o] = (@ \ {step}) \cup next]

Tell(o, what) == told' = [told EXCEPT ![o] = @ \cup what]

\* The records under the reference ID become r, u and m; another operation
\* whose record is lost in this is robbed.
SetRecords(o, r, u, m) ==
    /\ requestOf' = r /\ callbackUrl' = u /\ mapping' = m
    /\ robbed' = robbed \cup {p \in Ops \ {o} : \/ (requestOf = p /\ r # p)
                                                \/ (callbackUrl = p /\ u # p)
                                                \/ (mapping = p /\ m # p)}

\* notifyError(): an error without a reference ID goes to the error callback.
NotifyError(o) == errored' = errored \cup {o}

Fail == failures < MaxFailures /\ failures' = failures + 1

-----------------------------------------------------------------------------
(* The call: checks, then the records.                                     *)

\* A refused call removes what is stored under the reference ID, unless the
\* reason is a duplicate.
Refuse(o) == /\ Goes(o, "check", {})
             /\ SetRecords(o, None, None, mapping)
             /\ UNCHANGED consents

\* An accepted one overwrites it; `need': a consent request is needed.
Accept(o, need) ==
    /\ Goes(o, "check", {"start"})
    /\ SetRecords(o, o, o, mapping)
    /\ consents' = IF need THEN consents \cup {o} ELSE consents

\* The checks of a call against the chain: it is applicable or not, and may be
\* refused in any case (unknown namespace, IAL too high, accessor known ...).
Checked(o, k, applicable, need) ==
    /\ Does(o, "check") /\ kind[o] = k
    /\ \/ Refuse(o)
       \/ applicable /\ Accept(o, need)
    /\ UNCHANGED <<kind, called, requestData, saved, chain, checked, told, errored, failures>>

\* The call asks for the records of the reference ID.  A call that finds some is
\* refused, and changes nothing.
Call(o) ==
    /\ kind[o] # None /\ o \notin called
    /\ called' = called \cup {o}
    /\ IF requestOf # None /\ kind[o] # "UpdateIal" THEN UNCHANGED jobs ELSE Begins(o, "check")
    /\ UNCHANGED <<kind, consents, records, requestData, saved, chain, checked,
                   told, errored, failures>>

\* addAccessor() checks the key before it looks for a duplicate, and removes the
\* records when the key is bad.
CallWithBadKey(o) ==
    /\ kind[o] = "AddAccessor" /\ o \notin called
    /\ called' = called \cup {o}
    /\ SetRecords(o, None, None, mapping)
    /\ UNCHANGED <<kind, consents, requestData, saved, chain, checked, jobs,
                   told, errored, failures>>

Protected(modes) == 3 \in modes

\* An identity is created in mode 2 without consent, and in mode 3 with the
\* consent of the IdPs that have it.
ConsentToCreate(mode) == mode = 3 /\ identity.others # {}

CheckCreateIdentity(o) ==
    \E mode \in {2, 3} :
        Checked(o, "RegisterIdentity", identity.here = {}, ConsentToCreate(mode))
CheckAddIdentity(o) ==
    Checked(o, "AddIdentity", identity.here # {},
            Protected(identity.here) \/ Protected(identity.others))
CheckAddAccessor(o) ==
    Checked(o, "AddAccessor", identity.here # {}, Protected(identity.here))
CheckRevokeAccessor(o) ==
    Checked(o, "RevokeAccessor", identity.here # {}, Protected(identity.here))
CheckRevokeAndAddAccessor(o) ==
    Checked(o, "RevokeAndAddAccessor", identity.here # {}, Protected(identity.here))
CheckRevokeIdentityAssociation(o) ==
    Checked(o, "RevokeIdentityAssociation", identity.here # {}, Protected(identity.here))
CheckUpgradeIdentityMode(o) ==
    Checked(o, "UpdateIdentityModeList", identity.here = {2}, TRUE)

\* updateIal() keeps no records: it sends its transaction.
UpdateIal(o) ==
    /\ kind[o] = "UpdateIal"
    /\ \/ Goes(o, "check", {})
       \/ identity.here # {} /\ Goes(o, "check", {"tx"})
    /\ UNCHANGED <<kind, called, consents, records, requestData, saved, chain, checked,
                   told, errored, failures>>

-----------------------------------------------------------------------------
(* The consent request.                                                    *)

\* The clean-up of an operation whose consent request was not made.
GiveUp(o) ==
    /\ Tell(o, {"requestFailed"})
    /\ saved' = saved \ {o}

\* ...InternalAsync(): without consent the transaction is sent at once.  A
\* consent request is refused when the reference ID has a request.
Start(o, k) ==
    /\ kind[o] = k
    /\ IF o \notin consents
       THEN /\ Goes(o, "start", {"apply"})
            /\ UNCHANGED <<records, requestData, saved, told>>
       ELSE IF mapping # None
       THEN /\ Goes(o, "start", {})
            /\ SetRecords(o, None, None, mapping)
            /\ GiveUp(o)
            /\ UNCHANGED requestData
       ELSE /\ Goes(o, "start", {"request"})
            /\ SetRecords(o, requestOf, callbackUrl, o)
            /\ requestData' = requestData \cup {o}
            /\ UNCHANGED <<saved, told>>
    /\ UNCHANGED <<kind, called, consents, chain, checked, errored, failures>>

StartCreateIdentity(o) == Start(o, "RegisterIdentity")
StartAddIdentity(o) == Start(o, "AddIdentity")
StartAddAccessor(o) == Start(o, "AddAccessor")
StartRevokeAccessor(o) == Start(o, "RevokeAccessor")
StartRevokeAndAddAccessor(o) == Start(o, "RevokeAndAddAccessor")
StartRevokeIdentityAssociation(o) == Start(o, "RevokeIdentityAssociation")
StartUpgradeIdentityMode(o) == Start(o, "UpdateIdentityModeList")

\* The request is not made: common/create_request.js removes its records, then
\* the operation its own.
RequestFails(o, step) ==
    /\ Fail
    /\ Goes(o, step, {})
    /\ SetRecords(o, None, None, None)
    /\ requestData' = requestData \ {o}
    /\ GiveUp(o)

\* The transaction of the consent request.
RequestOnChain(o) ==
    /\ \/ /\ Goes(o, "request", {"announce"})
          /\ consent' = [consent EXCEPT ![o].state = "open"]
          /\ UNCHANGED <<records, requestData, saved, told, failures>>
       \/ /\ RequestFails(o, "request")
          /\ UNCHANGED consent
    /\ UNCHANGED <<kind, called, consents, identity, checked, effect, errored>>

\* Its callback sends the request to the IdPs and tells the client.
Announce(o) ==
    /\ \/ /\ Goes(o, "announce", {"save"})
          /\ consent' = [consent EXCEPT ![o].asked = TRUE]
          /\ UNCHANGED <<records, requestData, saved, told, failures>>
       \/ /\ RequestFails(o, "announce")
          /\ UNCHANGED consent
    /\ UNCHANGED <<kind, called, consents, identity, checked, effect, errored>>

\* ...AfterCreateRequestBlockchain() saves the identity data after that.
Save(o, k) ==
    /\ kind[o] = k
    /\ Goes(o, "save", {})
    /\ saved' = saved \cup {o}
    /\ UNCHANGED <<kind, called, consents, records, requestData, chain, checked, told, errored,
                   failures>>

SaveCreateIdentity(o) == Save(o, "RegisterIdentity")
SaveAddIdentity(o) == Save(o, "AddIdentity")
SaveAddAccessor(o) == Save(o, "AddAccessor")
SaveRevokeAccessor(o) == Save(o, "RevokeAccessor")
SaveRevokeAndAddAccessor(o) == Save(o, "RevokeAndAddAccessor")
SaveRevokeIdentityAssociation(o) == Save(o, "RevokeIdentityAssociation")
SaveUpgradeIdentityMode(o) == Save(o, "UpdateIdentityModeList")

\* An IdP answers in a block, and its message becomes a task.
IdpAnswers(o) ==
    /\ consent[o].state = "open" /\ consent[o].asked /\ consent[o].answer = "none"
    /\ \E a \in {"accept", "reject", "forged"} : consent' = [consent EXCEPT ![o].answer = a]
    /\ Begins(o, "answer")
    /\ UNCHANGED <<kind, called, consents, records, requestData, saved, identity, checked, effect,
                   told, errored, failures>>

\* Mutant: whatever the IdP answered, if the signature is good.
AcceptedIfSigned(o) == consent[o].answer # "forged"

\* The answer allows the operation.
Accepted(o) == consent[o].answer = "accept"

\* onReceiveIdpResponseForIdentity(): the answer is checked and the request
\* closed, to go on or to tell the client.  closeRequest() is not waited for.
HandleAnswer(o) ==
    /\ IF o \notin requestData
       THEN Goes(o, "answer", {}) /\ UNCHANGED checked
       ELSE /\ Goes(o, "answer", {IF Accepted(o) THEN "closing" ELSE "closingRefused"})
            /\ checked' = checked \cup {o}
    /\ UNCHANGED <<kind, called, consents, records, requestData, saved, chain, told,
                   errored, failures>>

\* The consent request is closed by a transaction with the valid list, and the
\* handler of the block comes to see it.
Closed(o) == consent' = [consent EXCEPT ![o].state = "closed", ![o].listed = o \in checked]

CloseOnChain(o) ==
    /\ IF consent[o].state = "open"
       THEN /\ \/ Goes(o, "closing", {"block", "apply"})
               \/ Goes(o, "closingRefused", {"block", "refused"})
            /\ Closed(o)
            /\ UNCHANGED errored
       ELSE /\ Goes(o, "closing", {}) \/ Goes(o, "closingRefused", {})
            /\ NotifyError(o)
            /\ UNCHANGED consent
    /\ UNCHANGED <<kind, called, consents, records, requestData, saved, identity, checked, effect,
                   told, failures>>

\* The client closes the consent request itself, or it times out.
EndOnChain(o) ==
    /\ consent[o].state = "open" /\ consent[o].asked
    /\ \/ Closed(o)
       \/ consent' = [consent EXCEPT ![o].state = "timedOut"]
    /\ Begins(o, "block")
    /\ UNCHANGED <<kind, called, consents, records, requestData, saved, identity, checked, effect,
                   told, errored, failures>>

\* Mutant: a request closed with a valid answer is told to the client as ended.
CloseIsNeverValid(o) == consent[o].state # "closed"

\* isCreateIdentityRequestValid(): an answer was listed as valid when the request
\* was closed; what it says is not looked at.
CloseIsValid(o) == consent[o].listed /\ consent[o].answer \in {"accept", "reject"}

\* The block in which the consent request ended: a request that is still known,
\* and was not closed with a valid answer, becomes a task.
SeeBlock(o) ==
    /\ Goes(o, "block", IF /\ o \in requestData
                           /\ consent[o].state = "closed" => ~CloseIsValid(o)
                        THEN {"ended"} ELSE {})
    /\ UNCHANGED <<kind, called, consents, records, requestData, saved, chain, checked,
                   told, errored, failures>>

\* processIdentityRequest() reads the records, and fails when one is missing ...
ReadEnded(o) ==
    /\ Goes(o, "ended", IF o \in requestData /\ requestOf # None
                        THEN {IF callbackUrl # None THEN "tellEnded" ELSE "clearEnded"}
                        ELSE {})
    /\ UNCHANGED <<kind, called, consents, records, requestData, saved, chain, checked,
                   told, errored, failures>>

\* ... tells the client, and removes them.  The callback URL stays.
TellEnded(o) ==
    /\ \/ Goes(o, "tellEnded", {}) /\ Tell(o, {"failure"})
       \/ Goes(o, "clearEnded", {}) /\ UNCHANGED told
    /\ SetRecords(o, None, callbackUrl, None)
    /\ requestData' = requestData \ {o}
    /\ saved' = saved \ {o}
    /\ UNCHANGED <<kind, called, consents, chain, checked, errored, failures>>

\* Mutant: missing identity data is only logged.
ReadRefusedSilently(o) ==
    /\ Goes(o, "refused", IF o \in saved /\ o \in requestData
                          THEN {IF callbackUrl # None THEN "tellRefused" ELSE "clearRefused"}
                          ELSE {})
    /\ UNCHANGED <<kind, called, consents, records, requestData, saved, chain, checked, told,
                   errored, failures>>

\* afterCloseFailedIdentityConsentRequest(), likewise in two steps.
ReadRefused(o) ==
    /\ IF o \in saved /\ o \in requestData
       THEN /\ Goes(o, "refused", {IF callbackUrl # None THEN "tellRefused" ELSE "clearRefused"})
            /\ UNCHANGED errored
       ELSE Goes(o, "refused", {}) /\ NotifyError(o)
    /\ UNCHANGED <<kind, called, consents, records, requestData, saved, chain, checked,
                   told, failures>>

TellRefused(o) ==
    /\ \/ Goes(o, "tellRefused", {}) /\ Tell(o, {"failure"})
       \/ Goes(o, "clearRefused", {}) /\ UNCHANGED told
    /\ SetRecords(o, None, None, mapping)
    /\ UNCHANGED <<kind, called, consents, requestData, saved, chain, checked, errored, failures>>

-----------------------------------------------------------------------------
(* The operation itself.                                                   *)

\* ...AfterCloseConsentRequest(): with the identity data given (no consent) or
\* stored, the transaction is sent.  Without it, or when that fails, the error
\* is reported without the reference ID.
Apply(o, k) ==
    /\ kind[o] = k
    /\ \/ /\ o \in consents => o \in saved
          /\ Goes(o, "apply", {"tx"})
          /\ UNCHANGED <<errored, failures>>
       \/ /\ IF o \in consents => o \in saved THEN Fail ELSE UNCHANGED failures
          /\ Goes(o, "apply", {})
          /\ NotifyError(o)
    /\ UNCHANGED <<kind, called, consents, records, requestData, saved, chain, checked, told>>

ApplyCreateIdentity(o) == Apply(o, "RegisterIdentity")
ApplyAddIdentity(o) == Apply(o, "AddIdentity")
ApplyAddAccessor(o) == Apply(o, "AddAccessor")
ApplyRevokeAccessor(o) == Apply(o, "RevokeAccessor")
ApplyRevokeAndAddAccessor(o) == Apply(o, "RevokeAndAddAccessor")
ApplyRevokeIdentityAssociation(o) == Apply(o, "RevokeIdentityAssociation")
ApplyUpgradeIdentityMode(o) == Apply(o, "UpdateIdentityModeList")

\* What the transaction of an operation makes of the identity.
Changed(o) ==
    CASE kind[o] = "RegisterIdentity" -> {[identity EXCEPT !.here = m] : m \in {{2}, {2, 3}}}
      [] kind[o] = "RevokeIdentityAssociation" -> {[identity EXCEPT !.here = {}]}
      [] kind[o] = "UpdateIdentityModeList" -> {[identity EXCEPT !.here = {2, 3}]}
      [] OTHER -> {identity}

\* It is on the chain, or the chain refuses it.
TxOnChain(o) ==
    /\ \/ /\ Goes(o, "tx", {"done"})
          /\ identity' \in Changed(o)
          /\ effect' = effect \cup {o}
       \/ /\ Goes(o, "tx", {"failed"})
          /\ UNCHANGED <<identity, effect>>
    /\ UNCHANGED <<kind, called, consents, records, requestData, saved, consent, checked, told,
                   errored, failures>>

\* Mutant: the records are removed only when the operation succeeded.
ReportAndKeep(o, result) ==
    /\ IF callbackUrl = None THEN UNCHANGED told ELSE Tell(o, {result})
    /\ IF result = "success"
       THEN SetRecords(o, None, None, None) /\ requestData' = requestData \ {o}
       ELSE UNCHANGED <<records, requestData>>

\* afterIdentityOperationSuccess(): the client is told at the callback URL of
\* the reference ID, and the records go.
Report(o, result) ==
    /\ IF callbackUrl = None THEN UNCHANGED told ELSE Tell(o, {result})
    /\ SetRecords(o, None, None, None)
    /\ requestData' = requestData \ {o}

\* ...AfterCloseConsentAndBlockchain(): on success the identity data goes first.
Finish(o, k) ==
    /\ kind[o] = k
    /\ \/ Goes(o, "done", {}) /\ saved' = saved \ {o} /\ Report(o, "success")
       \/ Goes(o, "failed", {}) /\ UNCHANGED saved /\ Report(o, "failure")
    /\ UNCHANGED <<kind, called, consents, chain, checked, errored, failures>>

FinishCreateIdentity(o) == Finish(o, "RegisterIdentity")
FinishAddIdentity(o) == Finish(o, "AddIdentity")
FinishAddAccessor(o) == Finish(o, "AddAccessor")
FinishRevokeAccessor(o) == Finish(o, "RevokeAccessor")
FinishRevokeAndAddAccessor(o) == Finish(o, "RevokeAndAddAccessor")
FinishRevokeIdentityAssociation(o) == Finish(o, "RevokeIdentityAssociation")
FinishUpgradeIdentityMode(o) == Finish(o, "UpdateIdentityModeList")

\* updateIal() was given the callback URL by the call.
FinishUpdateIal(o) ==
    /\ kind[o] = "UpdateIal"
    /\ \/ Goes(o, "done", {}) /\ Tell(o, {"success"})
       \/ Goes(o, "failed", {}) /\ Tell(o, {"failure"})
    /\ UNCHANGED <<kind, called, consents, records, requestData, saved, chain, checked,
                   errored, failures>>

-----------------------------------------------------------------------------

\* What the node does of itself.
Own(o) ==
    \/ CheckCreateIdentity(o) \/ CheckAddIdentity(o) \/ CheckAddAccessor(o)
    \/ CheckRevokeAccessor(o) \/ CheckRevokeAndAddAccessor(o)
    \/ CheckRevokeIdentityAssociation(o) \/ CheckUpgradeIdentityMode(o) \/ UpdateIal(o)
    \/ StartCreateIdentity(o) \/ StartAddIdentity(o) \/ StartAddAccessor(o)
    \/ StartRevokeAccessor(o) \/ StartRevokeAndAddAccessor(o)
    \/ StartRevokeIdentityAssociation(o) \/ StartUpgradeIdentityMode(o)
    \/ Announce(o)
    \/ SaveCreateIdentity(o) \/ SaveAddIdentity(o) \/ SaveAddAccessor(o)
    \/ SaveRevokeAccessor(o) \/ SaveRevokeAndAddAccessor(o)
    \/ SaveRevokeIdentityAssociation(o) \/ SaveUpgradeIdentityMode(o)
    \/ HandleAnswer(o) \/ SeeBlock(o)
    \/ ReadEnded(o) \/ TellEnded(o) \/ ReadRefused(o) \/ TellRefused(o)
    \/ ApplyCreateIdentity(o) \/ ApplyAddIdentity(o) \/ ApplyAddAccessor(o)
    \/ ApplyRevokeAccessor(o) \/ ApplyRevokeAndAddAccessor(o)
    \/ ApplyRevokeIdentityAssociation(o) \/ ApplyUpgradeIdentityMode(o)
    \/ FinishCreateIdentity(o) \/ FinishAddIdentity(o) \/ FinishAddAccessor(o)
    \/ FinishRevokeAccessor(o) \/ FinishRevokeAndAddAccessor(o)
    \/ FinishRevokeIdentityAssociation(o) \/ FinishUpgradeIdentityMode(o)
    \/ FinishUpdateIal(o)

\* What the blockchain does with the transactions it has.
OnChain(o) == RequestOnChain(o) \/ CloseOnChain(o) \/ TxOnChain(o)

Next == \E o \in Ops : Call(o) \/ CallWithBadKey(o) \/ IdpAnswers(o) \/ EndOnChain(o)
                       \/ Own(o) \/ OnChain(o)

Spec == Init /\ [][Next]_vars

\* Tasks run, transactions get into blocks, and a request that is open times out
\* in the end.
Fairness == \A o \in Ops : WF_vars(Own(o)) /\ WF_vars(OnChain(o)) /\ WF_vars(EndOnChain(o))

FairSpec == Spec /\ Fairness

-----------------------------------------------------------------------------
(* Properties.                                                             *)

\* The variables keep their types.
TypeOK ==
    /\ identity \in [here : SUBSET {2, 3}, others : SUBSET {2, 3}]
    /\ kind \in Plans /\ called \subseteq Ops
    /\ consents \subseteq Ops
    /\ {requestOf, callbackUrl, mapping} \subseteq Ops \cup {None}
    /\ requestData \subseteq Ops /\ saved \subseteq Ops /\ checked \subseteq Ops
    /\ consent \in [Ops -> Request]
    /\ jobs \in [Ops -> SUBSET Steps]
    /\ effect \subseteq Ops
    /\ told \in [Ops -> SUBSET {"requestFailed", "success", "failure"}]
    /\ errored \subseteq Ops /\ robbed \subseteq Ops
    /\ failures \in 0 .. MaxFailures

\* A protected identity is changed only with the consent of another IdP: the
\* request was answered "accept" with a good signature and closed before
\* (onReceiveIdpResponseForIdentity, ...AfterCloseConsentRequest).
ConsentRespected ==
    \A o \in effect \cap consents : /\ consent[o].state = "closed"
                                    /\ consent[o].answer = "accept"
                                    /\ consent[o].listed

\* The client is told the truth, whoever ends the consent request and in
\* whatever order the transaction, the block and the answer are handled: success
\* when the operation is on the chain, failure only when it is not and never
\* will be (afterIdentityOperationSuccess, processIdentityRequest).
ResultsAreTrue ==
    \A o \in Ops :
        /\ "success" \in told[o] => o \in effect
        /\ told[o] \cap {"failure", "requestFailed"} # {} =>
               /\ o \notin effect
               /\ \A s \in {"apply", "tx", "done"} : ~Does(o, s)
               /\ consent[o].state = "open" => ~Does(o, "closing")

\* An operation is in progress.
InProgress(o) == jobs[o] # {} \/ consent[o].state = "open"

\* The reference ID is taken only while an operation is in progress with it, or
\* after an error that was sent to the error callback: no chain of tasks ends
\* without either removing the record or reporting why not.
TakenOnlyInProgress == requestOf # None => InProgress(requestOf) \/ requestOf \in errored

\* Every operation that was begun ends with a result for the client or an error
\* to the error callback, unless another call with the same reference ID has
\* changed its records or the client was told that there is no consent request.
Ended(o) == told[o] \cap {"success", "failure", "requestFailed"} # {}
            \/ o \in errored \/ o \in robbed
EveryOperationEnds == \A o \in Ops : Does(o, "start") ~> Ended(o)

\* 'Request for this reference ID is in progress' (ndid-error/type.js:486) is the
\* reason a call is refused for; so once no operation is in progress and the
\* record of the reference ID is gone, no request is left under it.
FreeReferenceIsFree ==
    (\A o \in Ops : ~InProgress(o)) /\ requestOf = None => mapping = None

=============================================================================
