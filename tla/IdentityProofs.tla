--------------------------- MODULE IdentityProofs ---------------------------
(***************************************************************************)
(* Safety of Identity for any calls with the reference ID.  The records    *)
(* are shared by the calls, the chain of tasks of an operation is its own, *)
(* so that the strengthening speaks of one operation at a time (OpInv):    *)
(* how far its consent request has come says which tasks it may still      *)
(* have.                                                                   *)
(***************************************************************************)
EXTENDS Identity, TLAPS

\* The variables that OpInv is about keep their types.
Typed ==
    /\ jobs \in [Ops -> SUBSET Steps] /\ consent \in [Ops -> Request]
    /\ told \in [Ops -> SUBSET {"requestFailed", "success", "failure"}]
    /\ called \subseteq Ops /\ consents \subseteq Ops /\ effect \subseteq Ops
    /\ checked \subseteq Ops /\ requestOf \in Ops \cup {None}

\* An operation before its consent request.
Early(o) ==
    /\ o \notin called => /\ jobs[o] = {} /\ o \notin consents /\ o \notin effect
                          /\ told[o] = {}
    /\ Does(o, "check") => jobs[o] = {"check"} /\ o \notin consents
    /\ Does(o, "request") => o \in consents /\ consent[o].state = "none"
    /\ \A s \in {"check", "start", "request"} :
           Does(o, s) => jobs[o] = {s} /\ o \notin effect /\ told[o] = {}
    /\ Does(o, "start") => consent[o].state = "none"

\* Its consent request: who has it, and what its answer and its end lead to.
Asked(o) ==
    /\ consent[o].state = "none" => /\ o \in consents => jobs[o] \subseteq {"start", "request"}
                                    /\ ~consent[o].asked
    /\ consent[o].state # "none" => o \in consents
    /\ ~consent[o].asked => /\ consent[o].answer = "none"
                            /\ consent[o].state \in {"none", "open"}
    /\ consent[o].state = "open" /\ ~consent[o].asked => jobs[o] \subseteq {"announce"}
    /\ Does(o, "announce") => /\ consent[o].state = "open" /\ ~consent[o].asked
                              /\ told[o] = {} /\ o \notin effect
    /\ Does(o, "closing") => consent[o].answer = "accept" /\ o \in checked
    /\ \A s \in {"closingRefused", "refused", "tellRefused", "clearRefused"} :
           Does(o, s) => consent[o].answer \in {"reject", "forged"}
    /\ Does(o, "answer") \/ o \in checked => consent[o].answer # "none"
    /\ \A s \in {"refused", "tellRefused", "clearRefused"} :
           Does(o, s) => consent[o].state = "closed"
    /\ Does(o, "block") => consent[o].state \in {"closed", "timedOut"}
    /\ \A s \in {"ended", "tellEnded", "clearEnded"} :
           Does(o, s) => \/ consent[o].state = "timedOut"
                         \/ consent[o].state = "closed" /\ ~CloseIsValid(o)

Acts == {"apply", "tx", "done", "failed"}

\* The operation itself is one task at a time, and needs its consent.
Acting(o) ==
    /\ \A s, t \in Acts : Does(o, s) /\ Does(o, t) => s = t
    /\ o \in effect => jobs[o] \cap Acts \subseteq {"done"}
    /\ Does(o, "done") => o \in effect
    /\ o \in consents /\ (o \in effect \/ jobs[o] \cap Acts # {}) =>
           consent[o].state = "closed" /\ consent[o].answer = "accept" /\ consent[o].listed

\* What the client was told.
Told(o) ==
    /\ "success" \in told[o] => o \in effect
    /\ told[o] \cap {"failure", "requestFailed"} # {} =>
           /\ o \notin effect /\ jobs[o] \cap {"apply", "tx", "done"} = {}
           /\ consent[o].state = "open" => ~consent[o].asked

\* While the reference ID is its own, something will free it.
Holding(o) ==
    requestOf = o =>
        /\ kind[o] # "UpdateIal"
        /\ o \notin errored =>
               /\ consent[o].state = "none" => jobs[o] \cap ({"start", "request"} \cup Acts) # {}
               /\ consent[o].state # "none" \/ Does(o, "request") => o \in requestData
               /\ consent[o].state = "open" /\ o \in checked =>
                      jobs[o] \cap {"closing", "closingRefused"} # {}
               /\ consent[o].state = "closed" /\ CloseIsValid(o) =>
                      jobs[o] \cap ({"closing", "closingRefused", "refused", "tellRefused",
                                     "clearRefused"} \cup Acts) # {}
               /\ consent[o].state \in {"closed", "timedOut"} =>
                      \/ consent[o].state = "closed" /\ CloseIsValid(o)
                      \/ jobs[o] \cap {"block", "ended", "tellEnded", "clearEnded"} # {}

OpInv(o) == Early(o) /\ Asked(o) /\ Acting(o) /\ Told(o) /\ Holding(o)
IInv == Typed /\ \A o \in Ops : OpInv(o)

-----------------------------------------------------------------------------
(* Helpers.                                                                *)

\* What a step of one operation leaves to the others.
Others(o) ==
    /\ kind' = kind /\ requestOf' \in {requestOf, None, o}
    /\ \A p \in Ops \ {o} :
           /\ UNCHANGED <<jobs[p], consent[p], told[p]>>
           /\ (p \in called') <=> (p \in called)
           /\ (p \in consents') <=> (p \in consents)
           /\ (p \in effect') <=> (p \in effect)
           /\ (p \in checked') <=> (p \in checked)
           /\ (p \in errored') <=> (p \in errored)
           /\ (p \in requestData') <=> (p \in requestData)

Kept(o) == Typed' /\ Others(o) /\ OpInv(o)'

\* What Init establishes.
LEMMA InitIInv == Init => IInv
<1> SUFFICES ASSUME Init PROVE IInv
  OBVIOUS
<1>1. Typed
  BY DEF Init, Typed, Request
<1>2. ASSUME NEW o \in Ops PROVE OpInv(o)
  <2>1. /\ jobs[o] = {} /\ told[o] = {} /\ consent[o].state = "none" /\ ~consent[o].asked
        /\ consent[o].answer = "none"
        /\ o \notin consents /\ o \notin effect /\ o \notin checked /\ requestOf # o
    BY ConstantsAssumption DEF Init
  <2> QED
    BY <2>1 DEF OpInv, Early, Asked, Acting, Acts, Told, Holding, Does
<1> QED
  BY <1>1, <1>2 DEF IInv

\* The steps of one operation keep what is said of the others.
LEMMA KeptIsEnough == ASSUME IInv, NEW o \in Ops, Kept(o) PROVE IInv'
<1>1. ASSUME NEW p \in Ops, p # o PROVE OpInv(p)'
  <2>1. /\ UNCHANGED <<jobs[p], consent[p], told[p]>> /\ kind' = kind
        /\ (p \in called') <=> (p \in called)
        /\ (p \in consents') <=> (p \in consents)
        /\ (p \in effect') <=> (p \in effect)
        /\ (p \in checked') <=> (p \in checked)
        /\ (p \in errored') <=> (p \in errored)
        /\ (p \in requestData') <=> (p \in requestData)
        /\ requestOf' = p => requestOf = p
    BY <1>1, ConstantsAssumption DEF Kept, Others
  <2>2. Early(p)' /\ Acting(p)' /\ Told(p)'
    BY <2>1 DEF IInv, OpInv, Early, Acting, Told, Does
  <2>3. Asked(p)' /\ Holding(p)'
    BY <2>1 DEF IInv, OpInv, Asked, Holding, Does, CloseIsValid
  <2> QED
    BY <2>2, <2>3 DEF OpInv
<1> QED
  BY <1>1 DEF IInv, Kept

\* The tasks after a task is over.
LEMMA TaskOver ==
    ASSUME Typed, NEW o \in Ops, NEW step, NEW next \in SUBSET Steps, Goes(o, step, next)
    PROVE  /\ step \in jobs[o] /\ jobs' \in [Ops -> SUBSET Steps]
           /\ jobs'[o] = (jobs[o] \ {step}) \cup next
           /\ \A p \in Ops \ {o} : jobs'[p] = jobs[p]
  BY DEF Typed, Goes, Does

\* The tasks when one begins.
LEMMA TaskBegins ==
    ASSUME Typed, NEW o \in Ops, NEW step \in Steps, Begins(o, step)
    PROVE  /\ jobs' \in [Ops -> SUBSET Steps] /\ jobs'[o] = jobs[o] \cup {step}
           /\ \A p \in Ops \ {o} : jobs'[p] = jobs[p]
  BY DEF Typed, Begins

\* What the client was told.
LEMMA TellTypes ==
    ASSUME Typed, NEW o \in Ops, NEW what \in SUBSET {"requestFailed", "success", "failure"},
           Tell(o, what)
    PROVE  /\ told' \in [Ops -> SUBSET {"requestFailed", "success", "failure"}]
           /\ told'[o] = told[o] \cup what
           /\ \A p \in Ops \ {o} : told'[p] = told[p]
  BY DEF Typed, Tell

-----------------------------------------------------------------------------
(* The steps of an operation.                                              *)

\* A call is made.
LEMMA CallStep ==
    ASSUME Typed, NEW o \in Ops, OpInv(o), Call(o) \/ CallWithBadKey(o)
    PROVE  Kept(o)
<1>0. Early(o) /\ Asked(o) /\ Acting(o) /\ Told(o) /\ Holding(o)
  BY DEF OpInv
<1>1. /\ o \notin called /\ called' = called \cup {o}
      /\ requestOf' \in {requestOf, None}
      /\ UNCHANGED <<kind, consents, requestData, consent, effect, checked, told, errored>>
      /\ jobs' = jobs \/ Begins(o, "check")
  BY DEF Call, CallWithBadKey, SetRecords, records, chain
<1>2. "check" \in Steps
  BY DEF Steps
<1>3. /\ jobs' \in [Ops -> SUBSET Steps] /\ jobs'[o] \in {{}, {"check"}}
      /\ \A p \in Ops \ {o} : jobs'[p] = jobs[p]
  BY <1>0, <1>1, <1>2, TaskBegins DEF Typed, Early
<1>4. /\ jobs[o] = {} /\ o \notin consents /\ o \notin effect /\ told[o] = {} /\ None # o
      /\ consent[o].state = "none" /\ o \notin consents' /\ requestOf' = o => o \in errored
  BY <1>0, <1>1, ConstantsAssumption DEF Early, Asked, Holding
<1>5. Typed' /\ Others(o)
  BY <1>0, <1>1, <1>3, <1>4 DEF Typed, Others
<1>6. Early(o)'
  BY <1>0, <1>1, <1>3, <1>4 DEF Early, Does
<1>7. Asked(o)'
  BY <1>0, <1>1, <1>3, <1>4 DEF Asked, Does, CloseIsValid
<1>8. Acting(o)'
  BY <1>0, <1>1, <1>3, <1>4 DEF Acting, Acts, Does
<1>9. Told(o)'
  BY <1>0, <1>1, <1>3, <1>4 DEF Told, Acts, Does
<1>10. Holding(o)'
  BY <1>0, <1>1, <1>3, <1>4 DEF Holding, Acts, Does, CloseIsValid
<1> QED
  BY <1>5, <1>6, <1>7, <1>8, <1>9, <1>10 DEF Kept, OpInv

\* A call is checked.
LEMMA CheckedStep ==
    ASSUME Typed, NEW o \in Ops, OpInv(o), NEW k \in Kinds \ {"UpdateIal"}, NEW applicable, NEW need,
           Checked(o, k, applicable, need)
    PROVE  Kept(o)
<1>0. Early(o) /\ Asked(o) /\ Acting(o) /\ Told(o) /\ Holding(o)
  BY DEF OpInv
<1>1. /\ "check" \in jobs[o] /\ kind[o] # "UpdateIal"
      /\ UNCHANGED <<kind, called, requestData, consent, effect, checked, told, errored>>
      /\ \/ Goes(o, "check", {}) /\ requestOf' = None /\ consents' = consents
         \/ /\ Goes(o, "check", {"start"}) /\ requestOf' = o
            /\ consents' \in {consents, consents \cup {o}}
  BY DEF Checked, Refuse, Accept, SetRecords, Does, chain
<1>2. {} \in SUBSET Steps /\ {"start"} \in SUBSET Steps
  BY DEF Steps
<1>3. /\ jobs[o] = {"check"} /\ o \notin consents /\ o \notin effect /\ told[o] = {} /\ None # o
      /\ consent[o].state = "none" /\ ~consent[o].asked /\ consent[o].answer = "none" /\ o \in called
  BY <1>0, <1>1, ConstantsAssumption DEF Early, Asked, Does
<1>4. /\ jobs' \in [Ops -> SUBSET Steps] /\ \A p \in Ops \ {o} : jobs'[p] = jobs[p]
      /\ \/ jobs'[o] = {} /\ requestOf' = None /\ consents' = consents
         \/ /\ jobs'[o] = {"start"} /\ requestOf' = o
            /\ consents' \in {consents, consents \cup {o}}
  BY <1>1, <1>2, <1>3, TaskOver
<1>5. Typed' /\ Others(o)
  BY <1>0, <1>1, <1>3, <1>4 DEF Typed, Others
<1>6. Early(o)'
  BY <1>0, <1>1, <1>3, <1>4 DEF Early, Does
<1>7. Asked(o)'
  BY <1>0, <1>1, <1>3, <1>4 DEF Asked, Does, CloseIsValid
<1>8. Acting(o)'
  BY <1>0, <1>1, <1>3, <1>4 DEF Acting, Acts, Does
<1>9. Told(o)'
  BY <1>0, <1>1, <1>3, <1>4 DEF Told, Acts, Does
<1>10. Holding(o)'
  BY <1>0, <1>1, <1>3, <1>4 DEF Holding, Acts, Does, CloseIsValid
<1> QED
  BY <1>5, <1>6, <1>7, <1>8, <1>9, <1>10 DEF Kept, OpInv

\* updateIal() sends its transaction, or does nothing.
LEMMA UpdateIalStep ==
    ASSUME Typed, NEW o \in Ops, OpInv(o), UpdateIal(o)
    PROVE  Kept(o)
<1>0. Early(o) /\ Asked(o) /\ Acting(o) /\ Told(o) /\ Holding(o)
  BY DEF OpInv
<1>1. /\ "check" \in jobs[o] /\ kind[o] = "UpdateIal"
      /\ UNCHANGED <<kind, called, consents, requestOf, requestData, consent, effect, checked, told,
                     errored>>
      /\ Goes(o, "check", {}) \/ Goes(o, "check", {"tx"})
  BY DEF UpdateIal, Goes, Does, chain, records
<1>2. {} \in SUBSET Steps /\ {"tx"} \in SUBSET Steps
  BY DEF Steps
<1>3. /\ jobs[o] = {"check"} /\ o \notin consents /\ o \notin effect /\ told[o] = {} /\ None # o
      /\ consent[o].state = "none" /\ ~consent[o].asked /\ o \in called /\ requestOf # o
  BY <1>0, <1>1, ConstantsAssumption DEF Early, Asked, Does, Holding
<1>4. /\ jobs' \in [Ops -> SUBSET Steps] /\ \A p \in Ops \ {o} : jobs'[p] = jobs[p]
      /\ jobs'[o] \in {{}, {"tx"}}
  BY <1>1, <1>2, <1>3, TaskOver
<1>5. Typed' /\ Others(o)
  BY <1>0, <1>1, <1>3, <1>4 DEF Typed, Others
<1>6. Early(o)'
  BY <1>0, <1>1, <1>3, <1>4 DEF Early, Does
<1>7. Asked(o)'
  BY <1>0, <1>1, <1>3, <1>4 DEF Asked, Does, CloseIsValid
<1>8. Acting(o)'
  BY <1>0, <1>1, <1>3, <1>4 DEF Acting, Acts, Does
<1>9. Told(o)'
  BY <1>0, <1>1, <1>3, <1>4 DEF Told, Acts, Does
<1>10. Holding(o)'
  BY <1>0, <1>1, <1>3, <1>4 DEF Holding, Acts, Does, CloseIsValid
<1> QED
  BY <1>5, <1>6, <1>7, <1>8, <1>9, <1>10 DEF Kept, OpInv

\* The operation begins, with a consent request or without.
LEMMA StartStep ==
    ASSUME Typed, NEW o \in Ops, OpInv(o), NEW k, Start(o, k)
    PROVE  Kept(o)
<1>0. Early(o) /\ Asked(o) /\ Acting(o) /\ Told(o) /\ Holding(o)
  BY DEF OpInv
<1>1. /\ "start" \in jobs[o]
      /\ UNCHANGED <<kind, called, consents, consent, effect, checked, errored>>
  BY DEF Start, Goes, Does, chain
<1>2. \/ /\ o \notin consents /\ Goes(o, "start", {"apply"})
         /\ UNCHANGED <<requestOf, requestData, told>>
      \/ /\ o \in consents /\ Goes(o, "start", {}) /\ requestOf' = None
         /\ Tell(o, {"requestFailed"}) /\ UNCHANGED requestData
      \/ /\ o \in consents /\ Goes(o, "start", {"request"}) /\ UNCHANGED <<requestOf, told>>
         /\ requestData' = requestData \cup {o}
  BY DEF Start, GiveUp, SetRecords, records
<1>3. /\ {} \in SUBSET Steps /\ {"apply"} \in SUBSET Steps /\ {"request"} \in SUBSET Steps
      /\ {"requestFailed"} \in SUBSET {"requestFailed", "success", "failure"}
  BY DEF Steps
<1>4. /\ jobs[o] = {"start"} /\ o \notin effect /\ told[o] = {} /\ None # o /\ o \in called
      /\ consent[o].state = "none" /\ ~consent[o].asked /\ consent[o].answer = "none"
  BY <1>0, <1>1, ConstantsAssumption DEF Early, Asked, Does
<1>5. /\ jobs' \in [Ops -> SUBSET Steps] /\ \A p \in Ops \ {o} : jobs'[p] = jobs[p]
      /\ told' \in [Ops -> SUBSET {"requestFailed", "success", "failure"}]
      /\ \A p \in Ops \ {o} : told'[p] = told[p]
      /\ \/ /\ o \notin consents /\ jobs'[o] = {"apply"} /\ requestOf' = requestOf
            /\ requestData' = requestData /\ told'[o] = {}
         \/ /\ o \in consents /\ jobs'[o] = {} /\ requestOf' = None /\ told'[o] = {"requestFailed"}
            /\ requestData' = requestData
         \/ /\ o \in consents /\ jobs'[o] = {"request"} /\ requestOf' = requestOf /\ told'[o] = {}
            /\ requestData' = requestData \cup {o}
  <2>1. CASE o \notin consents /\ Goes(o, "start", {"apply"}) /\ UNCHANGED <<requestOf, requestData, told>>
    BY <1>3, <1>4, <2>1, TaskOver DEF Typed
  <2>2. CASE /\ o \in consents /\ Goes(o, "start", {}) /\ requestOf' = None
             /\ Tell(o, {"requestFailed"}) /\ UNCHANGED requestData
    BY <1>3, <1>4, <2>2, TaskOver, TellTypes
  <2>3. CASE /\ o \in consents /\ Goes(o, "start", {"request"}) /\ UNCHANGED <<requestOf, told>>
             /\ requestData' = requestData \cup {o}
    BY <1>3, <1>4, <2>3, TaskOver DEF Typed
  <2> QED
    BY <1>2, <2>1, <2>2, <2>3
<1>6. Typed' /\ Others(o)
  BY <1>0, <1>1, <1>4, <1>5 DEF Typed, Others
<1>7. Early(o)'
  BY <1>0, <1>1, <1>4, <1>5 DEF Early, Does
<1>8. Asked(o)'
  BY <1>0, <1>1, <1>4, <1>5 DEF Asked, Does, CloseIsValid
<1>9. Acting(o)'
  BY <1>0, <1>1, <1>4, <1>5 DEF Acting, Acts, Does
<1>10. Told(o)'
  BY <1>0, <1>1, <1>4, <1>5 DEF Told, Acts, Does
<1>11. Holding(o)'
  BY <1>0, <1>1, <1>4, <1>5 DEF Holding, Acts, Does, CloseIsValid
<1> QED
  BY <1>6, <1>7, <1>8, <1>9, <1>10, <1>11 DEF Kept, OpInv

\* The consent request is not made.
LEMMA FailsStep ==
    ASSUME Typed, NEW o \in Ops, OpInv(o), NEW step \in {"request", "announce"},
           RequestFails(o, step),
           UNCHANGED <<kind, called, consents, consent, checked, effect, errored>>
    PROVE  Kept(o)
<1>0. Early(o) /\ Asked(o) /\ Acting(o) /\ Told(o) /\ Holding(o)
  BY DEF OpInv
<1>1. /\ step \in jobs[o] /\ Goes(o, step, {}) /\ requestOf' = None
      /\ requestData' = requestData \ {o} /\ Tell(o, {"requestFailed"})
  BY DEF RequestFails, GiveUp, SetRecords, Goes, Does
<1>2. /\ {} \in SUBSET Steps
      /\ {"requestFailed"} \in SUBSET {"requestFailed", "success", "failure"}
  OBVIOUS
<1>3. /\ jobs[o] = {step} /\ o \notin effect /\ told[o] = {} /\ None # o /\ o \in called
      /\ ~consent[o].asked
  BY <1>0, <1>1, ConstantsAssumption DEF Early, Asked, Does
<1>4. /\ jobs' \in [Ops -> SUBSET Steps] /\ \A p \in Ops \ {o} : jobs'[p] = jobs[p]
      /\ jobs'[o] = {}
  BY <1>1, <1>2, <1>3, TaskOver
<1>5. /\ told' \in [Ops -> SUBSET {"requestFailed", "success", "failure"}]
      /\ \A p \in Ops \ {o} : told'[p] = told[p]
      /\ told'[o] = {"requestFailed"}
  BY <1>1, <1>2, <1>3, TellTypes
<1>6. Typed' /\ Others(o)
  BY <1>0, <1>1, <1>3, <1>4, <1>5 DEF Typed, Others
<1>7. Early(o)'
  BY <1>0, <1>1, <1>3, <1>4, <1>5 DEF Early, Does
<1>8. Asked(o)'
  BY <1>0, <1>1, <1>3, <1>4, <1>5 DEF Asked, Does, CloseIsValid
<1>9. Acting(o)'
  BY <1>0, <1>1, <1>3, <1>4, <1>5 DEF Acting, Acts, Does
<1>10. Told(o)'
  BY <1>0, <1>1, <1>3, <1>4, <1>5 DEF Told, Acts, Does
<1>11. Holding(o)'
  BY <1>0, <1>1, <1>3, <1>4, <1>5 DEF Holding, Acts, Does, CloseIsValid
<1> QED
  BY <1>6, <1>7, <1>8, <1>9, <1>10, <1>11 DEF Kept, OpInv

\* The consent request is on the chain, and goes to the IdPs.
LEMMA RequestStep ==
    ASSUME Typed, NEW o \in Ops, OpInv(o), RequestOnChain(o) \/ Announce(o)
    PROVE  Kept(o)
<1>0. Early(o) /\ Asked(o) /\ Acting(o) /\ Told(o) /\ Holding(o)
  BY DEF OpInv
<1>1. UNCHANGED <<kind, called, consents, checked, effect, errored>>
  BY DEF RequestOnChain, Announce
<1>2. CASE RequestFails(o, "request") /\ UNCHANGED consent
  BY <1>1, <1>2, FailsStep
<1>3. CASE RequestFails(o, "announce") /\ UNCHANGED consent
  BY <1>1, <1>3, FailsStep
<1>4. CASE /\ Goes(o, "request", {"announce"}) /\ consent' = [consent EXCEPT ![o].state = "open"]
           /\ UNCHANGED <<records, requestData, told>>
  <2>1. {"announce"} \in SUBSET Steps /\ consent[o] \in Request
    BY DEF Steps, Typed
  <2>2. /\ jobs[o] = {"request"} /\ o \in consents /\ o \notin effect /\ told[o] = {}
        /\ consent[o].state = "none" /\ ~consent[o].asked /\ consent[o].answer = "none"
        /\ o \in called /\ o \notin checked
    BY <1>0, <1>4 DEF Early, Asked, Does, Goes
  <2>3. /\ jobs' \in [Ops -> SUBSET Steps] /\ \A p \in Ops \ {o} : jobs'[p] = jobs[p]
        /\ jobs'[o] = {"announce"}
    BY <1>4, <2>1, <2>2, TaskOver
  <2>4. /\ consent' \in [Ops -> Request] /\ \A p \in Ops \ {o} : consent'[p] = consent[p]
        /\ consent'[o].state = "open" /\ ~consent'[o].asked /\ consent'[o].answer = "none"
    BY <1>4, <2>1, <2>2 DEF Typed, Request
  <2>5. UNCHANGED <<requestOf, requestData, told>>
    BY <1>4 DEF records
  <2>6. requestOf = o /\ o \notin errored => o \in requestData /\ kind[o] # "UpdateIal"
    BY <1>0, <2>2 DEF Holding, Does
  <2>7. requestOf = o => kind[o] # "UpdateIal"
    BY <1>0 DEF Holding
  <2>8. Typed' /\ Others(o)
    BY <1>0, <1>1, <2>2, <2>3, <2>4, <2>5, <2>6, <2>7 DEF Typed, Others
  <2>9. Early(o)'
    BY <1>0, <1>1, <2>2, <2>3, <2>4, <2>5, <2>6, <2>7 DEF Early, Does
  <2>10. Asked(o)'
    BY <1>0, <1>1, <2>2, <2>3, <2>4, <2>5, <2>6, <2>7 DEF Asked, Does, CloseIsValid
  <2>11. Acting(o)'
    BY <1>0, <1>1, <2>2, <2>3, <2>4, <2>5, <2>6, <2>7 DEF Acting, Acts, Does
  <2>12. Told(o)'
    BY <1>0, <1>1, <2>2, <2>3, <2>4, <2>5, <2>6, <2>7 DEF Told, Acts, Does
  <2>13. Holding(o)'
    BY <1>0, <1>1, <2>2, <2>3, <2>4, <2>5, <2>6, <2>7 DEF Holding, Acts, Does, CloseIsValid
  <2> QED
    BY <2>8, <2>9, <2>10, <2>11, <2>12, <2>13 DEF Kept, OpInv
<1>5. CASE /\ Goes(o, "announce", {"save"}) /\ consent' = [consent EXCEPT ![o].asked = TRUE]
           /\ UNCHANGED <<records, requestData, told>>
  <2>1. {"save"} \in SUBSET Steps /\ consent[o] \in Request
    BY DEF Steps, Typed
  <2>2. /\ jobs[o] = {"announce"} /\ o \in consents /\ o \notin effect /\ told[o] = {}
        /\ consent[o].state = "open" /\ ~consent[o].asked /\ consent[o].answer = "none"
        /\ o \in called
    BY <1>0, <1>5 DEF Early, Asked, Does, Goes
  <2>3. /\ jobs' \in [Ops -> SUBSET Steps] /\ \A p \in Ops \ {o} : jobs'[p] = jobs[p]
        /\ jobs'[o] = {"save"}
    BY <1>5, <2>1, <2>2, TaskOver
  <2>4. /\ consent' \in [Ops -> Request] /\ \A p \in Ops \ {o} : consent'[p] = consent[p]
        /\ consent'[o].state = "open" /\ consent'[o].asked /\ consent'[o].answer = "none"
    BY <1>5, <2>1, <2>2 DEF Typed, Request
  <2>5. UNCHANGED <<requestOf, requestData, told>>
    BY <1>5 DEF records
  <2>6. requestOf = o => kind[o] # "UpdateIal" /\ (o \in errored \/ o \in requestData)
                         /\ (o \in checked => o \in errored)
    BY <1>0, <2>2 DEF Holding
  <2>7. Typed' /\ Others(o)
    BY <1>0, <1>1, <2>2, <2>3, <2>4, <2>5, <2>6 DEF Typed, Others
  <2>8. Early(o)'
    BY <1>0, <1>1, <2>2, <2>3, <2>4, <2>5, <2>6 DEF Early, Does
  <2>9. Asked(o)'
    BY <1>0, <1>1, <2>2, <2>3, <2>4, <2>5, <2>6 DEF Asked, Does, CloseIsValid
  <2>10. Acting(o)'
    BY <1>0, <1>1, <2>2, <2>3, <2>4, <2>5, <2>6 DEF Acting, Acts, Does
  <2>11. Told(o)'
    BY <1>0, <1>1, <2>2, <2>3, <2>4, <2>5, <2>6 DEF Told, Acts, Does
  <2>12. Holding(o)'
    BY <1>0, <1>1, <2>2, <2>3, <2>4, <2>5, <2>6 DEF Holding, Acts, Does, CloseIsValid
  <2> QED
    BY <2>7, <2>8, <2>9, <2>10, <2>11, <2>12 DEF Kept, OpInv
<1> QED
  BY <1>2, <1>3, <1>4, <1>5 DEF RequestOnChain, Announce

\* The identity data is saved.
LEMMA SaveStep ==
    ASSUME Typed, NEW o \in Ops, OpInv(o), NEW k, Save(o, k)
    PROVE  Kept(o)
<1>0. Early(o) /\ Asked(o) /\ Acting(o) /\ Told(o) /\ Holding(o)
  BY DEF OpInv
<1>1. /\ Goes(o, "save", {}) /\ {} \in SUBSET Steps
      /\ UNCHANGED <<kind, called, consents, requestOf, requestData, consent, effect, checked, told,
                     errored>>
  BY DEF Save, records, chain
<1>2. /\ "save" \in jobs[o] /\ jobs'[o] = jobs[o] \ {"save"}
      /\ jobs' \in [Ops -> SUBSET Steps] /\ \A p \in Ops \ {o} : jobs'[p] = jobs[p]
  BY <1>1, TaskOver
<1>3. Typed' /\ Others(o)
  BY <1>0, <1>1, <1>2 DEF Typed, Others
<1>4. Early(o)'
  BY <1>0, <1>1, <1>2 DEF Early, Does
<1>5. Asked(o)'
  BY <1>0, <1>1, <1>2 DEF Asked, Does, CloseIsValid
<1>6. Acting(o)'
  BY <1>0, <1>1, <1>2 DEF Acting, Acts, Does
<1>7. Told(o)'
  BY <1>0, <1>1, <1>2 DEF Told, Acts, Does
<1>8. Holding(o)'
  BY <1>0, <1>1, <1>2 DEF Holding, Acts, Does, CloseIsValid
<1> QED
  BY <1>3, <1>4, <1>5, <1>6, <1>7, <1>8 DEF Kept, OpInv

\* An IdP answers.
LEMMA AnswersStep ==
    ASSUME Typed, NEW o \in Ops, OpInv(o), IdpAnswers(o)
    PROVE  Kept(o)
<1>0. Early(o) /\ Asked(o) /\ Acting(o) /\ Told(o) /\ Holding(o)
  BY DEF OpInv
<1>1. /\ Begins(o, "answer") /\ "answer" \in Steps /\ consent[o] \in Request
      /\ UNCHANGED <<kind, called, consents, requestOf, requestData, effect, checked, told, errored>>
      /\ consent[o].state = "open" /\ consent[o].asked /\ consent[o].answer = "none"
  BY DEF IdpAnswers, records, Steps, Typed
<1>2. /\ jobs'[o] = jobs[o] \cup {"answer"}
      /\ jobs' \in [Ops -> SUBSET Steps] /\ \A p \in Ops \ {o} : jobs'[p] = jobs[p]
  BY <1>1, TaskBegins
<1>3. /\ consent' \in [Ops -> Request] /\ \A p \in Ops \ {o} : consent'[p] = consent[p]
      /\ consent'[o].state = "open" /\ consent'[o].asked /\ consent'[o].answer # "none"
  BY <1>1 DEF Typed, Request, IdpAnswers
<1>4. /\ o \in consents /\ o \notin checked
      /\ o \in called
      /\ \A s \in {"check", "start", "request", "closing", "closingRefused", "refused", "tellRefused",
                   "clearRefused", "answer", "announce", "block", "ended", "tellEnded",
                   "clearEnded"} : s \notin jobs[o]
  BY <1>0, <1>1 DEF Asked, Early, Does
<1>5. Typed' /\ Others(o)
  BY <1>0, <1>1, <1>2, <1>3, <1>4 DEF Typed, Others
<1>6. Early(o)'
  BY <1>0, <1>1, <1>2, <1>3, <1>4 DEF Early, Does
<1>7. Asked(o)'
  BY <1>0, <1>1, <1>2, <1>3, <1>4 DEF Asked, Does, CloseIsValid
<1>8. Acting(o)'
  BY <1>0, <1>1, <1>2, <1>3, <1>4 DEF Acting, Acts, Does
<1>9. Told(o)'
  BY <1>0, <1>1, <1>2, <1>3, <1>4 DEF Told, Acts, Does
<1>10. Holding(o)'
  BY <1>0, <1>1, <1>2, <1>3, <1>4 DEF Holding, Acts, Does, CloseIsValid
<1> QED
  BY <1>5, <1>6, <1>7, <1>8, <1>9, <1>10 DEF Kept, OpInv

\* The answer is checked and the request to be closed.
LEMMA HandleStep ==
    ASSUME Typed, NEW o \in Ops, OpInv(o), HandleAnswer(o)
    PROVE  Kept(o)
<1>0. Early(o) /\ Asked(o) /\ Acting(o) /\ Told(o) /\ Holding(o)
  BY DEF OpInv
<1>1. UNCHANGED <<kind, called, consents, requestOf, requestData, consent, effect, told, errored>>
  BY DEF HandleAnswer, records, chain
<1>2. CASE o \notin requestData
  <2>1. Goes(o, "answer", {}) /\ UNCHANGED checked /\ {} \in SUBSET Steps
    BY <1>2 DEF HandleAnswer
  <2>2. /\ "answer" \in jobs[o] /\ jobs'[o] = jobs[o] \ {"answer"}
        /\ jobs' \in [Ops -> SUBSET Steps] /\ \A p \in Ops \ {o} : jobs'[p] = jobs[p]
    BY <2>1, TaskOver
  <2>3. Typed' /\ Others(o)
    BY <1>0, <1>1, <2>1, <2>2 DEF Typed, Others
  <2>4. Early(o)'
    BY <1>0, <1>1, <2>1, <2>2 DEF Early, Does
  <2>5. Asked(o)'
    BY <1>0, <1>1, <2>1, <2>2 DEF Asked, Does, CloseIsValid
  <2>6. Acting(o)'
    BY <1>0, <1>1, <2>1, <2>2 DEF Acting, Acts, Does
  <2>7. Told(o)'
    BY <1>0, <1>1, <2>1, <2>2 DEF Told, Acts, Does
  <2>8. Holding(o)'
    BY <1>0, <1>1, <2>1, <2>2 DEF Holding, Acts, Does, CloseIsValid
  <2> QED
    BY <2>3, <2>4, <2>5, <2>6, <2>7, <2>8 DEF Kept, OpInv
<1>3. CASE o \in requestData
  <2>1. PICK next \in {"closing", "closingRefused"} :
            /\ Goes(o, "answer", {next}) /\ (next = "closing" <=> consent[o].answer = "accept")
    BY <1>3 DEF HandleAnswer, Accepted
  <2>2. {next} \in SUBSET Steps /\ checked' = checked \cup {o} /\ consent[o].answer \in {"none", "accept", "reject", "forged"}
    BY <1>3 DEF HandleAnswer, Steps, Typed, Request
  <2>3. /\ "answer" \in jobs[o] /\ jobs'[o] = (jobs[o] \ {"answer"}) \cup {next}
        /\ jobs' \in [Ops -> SUBSET Steps] /\ \A p \in Ops \ {o} : jobs'[p] = jobs[p]
    BY <2>1, <2>2, TaskOver
  <2>4. /\ consent[o].answer # "none" /\ consent[o].asked /\ consent[o].state # "none"
        /\ o \in called /\ o \in consents
        /\ \A s \in {"check", "start", "request", "announce"} : s \notin jobs[o]
    BY <1>0, <2>3 DEF Asked, Early, Does
  <2>5. Typed' /\ Others(o)
    BY <1>0, <1>1, <2>1, <2>2, <2>3, <2>4 DEF Typed, Others
  <2>6. Early(o)'
    BY <1>0, <1>1, <2>1, <2>2, <2>3, <2>4 DEF Early, Does
  <2>7. Asked(o)'
    BY <1>0, <1>1, <2>1, <2>2, <2>3, <2>4 DEF Asked, Does, CloseIsValid
  <2>8. Acting(o)'
    BY <1>0, <1>1, <2>1, <2>2, <2>3, <2>4 DEF Acting, Acts, Does
  <2>9. Told(o)'
    BY <1>0, <1>1, <2>1, <2>2, <2>3, <2>4 DEF Told, Acts, Does
  <2>10. Holding(o)'
    BY <1>0, <1>1, <2>1, <2>2, <2>3, <2>4 DEF Holding, Acts, Does, CloseIsValid
  <2> QED
    BY <2>5, <2>6, <2>7, <2>8, <2>9, <2>10 DEF Kept, OpInv
<1> QED
  BY <1>2, <1>3

\* The transaction that closes the consent request.
LEMMA CloseStep ==
    ASSUME Typed, NEW o \in Ops, OpInv(o), CloseOnChain(o)
    PROVE  Kept(o)
<1>0. Early(o) /\ Asked(o) /\ Acting(o) /\ Told(o) /\ Holding(o)
  BY DEF OpInv
<1>1. UNCHANGED <<kind, called, consents, requestOf, requestData, checked, effect, told>>
  BY DEF CloseOnChain, records
<1>2. CASE consent[o].state # "open"
  <2>1. PICK step \in {"closing", "closingRefused"} : Goes(o, step, {}) /\ {} \in SUBSET Steps
    BY <1>2 DEF CloseOnChain
  <2>2. UNCHANGED consent /\ errored' = errored \cup {o}
    BY <1>2 DEF CloseOnChain, NotifyError
  <2>3. /\ step \in jobs[o] /\ jobs'[o] = jobs[o] \ {step}
        /\ jobs' \in [Ops -> SUBSET Steps] /\ \A p \in Ops \ {o} : jobs'[p] = jobs[p]
    BY <2>1, TaskOver
  <2>4. Typed' /\ Others(o)
    BY <1>0, <1>1, <2>1, <2>2, <2>3 DEF Typed, Others
  <2>5. Early(o)'
    BY <1>0, <1>1, <2>1, <2>2, <2>3 DEF Early, Does
  <2>6. Asked(o)'
    BY <1>0, <1>1, <2>1, <2>2, <2>3 DEF Asked, Does, CloseIsValid
  <2>7. Acting(o)'
    BY <1>0, <1>1, <2>1, <2>2, <2>3 DEF Acting, Acts, Does
  <2>8. Told(o)'
    BY <1>0, <1>1, <2>1, <2>2, <2>3 DEF Told, Acts, Does
  <2>9. Holding(o)'
    BY <1>0, <1>1, <2>1, <2>2, <2>3 DEF Holding, Acts, Does, CloseIsValid
  <2> QED
    BY <2>4, <2>5, <2>6, <2>7, <2>8, <2>9 DEF Kept, OpInv
<1>3. CASE consent[o].state = "open"
  <2>1. PICK step \in {"closing", "closingRefused"}, next \in {"apply", "refused"} :
            /\ Goes(o, step, {"block", next}) /\ (step = "closing" <=> next = "apply")
    BY <1>3 DEF CloseOnChain
  <2>2. /\ {"block", next} \in SUBSET Steps /\ UNCHANGED errored /\ Closed(o)
    BY <1>3 DEF CloseOnChain, Steps
  <2>3. /\ step \in jobs[o] /\ jobs'[o] = (jobs[o] \ {step}) \cup {"block", next}
        /\ jobs' \in [Ops -> SUBSET Steps] /\ \A p \in Ops \ {o} : jobs'[p] = jobs[p]
    BY <2>1, <2>2, TaskOver
  <2>4. /\ consent' \in [Ops -> Request] /\ \A p \in Ops \ {o} : consent'[p] = consent[p]
        /\ consent'[o].state = "closed" /\ consent'[o].answer = consent[o].answer
        /\ consent'[o].asked = consent[o].asked /\ consent'[o].listed = (o \in checked)
    <3>1. consent[o] \in Request /\ (o \in checked) \in BOOLEAN
      BY DEF Typed
    <3> QED
      BY <2>2, <3>1 DEF Closed, Typed, Request
  <2>5. /\ consent[o].answer # "none" /\ consent[o].asked
        /\ o \in called /\ o \in consents /\ o \notin effect
        /\ \A s \in {"check", "start", "request", "announce", "ended", "tellEnded", "clearEnded",
                     "apply", "tx", "done", "failed"} : s \notin jobs[o]
    BY <1>0, <1>3, <2>1, <2>3 DEF Asked, Early, Acting, Acts, Does
  <2>6. /\ next = "apply" => consent[o].answer = "accept" /\ o \in checked
        /\ next = "refused" => consent[o].answer \in {"reject", "forged"}
        /\ next = "apply" => "failure" \notin told[o] /\ "requestFailed" \notin told[o]
    BY <1>0, <1>3, <2>1, <2>3, <2>5 DEF Asked, Told, Does
  <2>7. Typed' /\ Others(o)
    BY <1>0, <1>1, <1>3, <2>1, <2>2, <2>3, <2>4, <2>5, <2>6 DEF Typed, Others
  <2>8. Early(o)'
    BY <1>0, <1>1, <1>3, <2>1, <2>2, <2>3, <2>4, <2>5, <2>6 DEF Early, Does
  <2>9. Asked(o)'
    BY <1>0, <1>1, <1>3, <2>1, <2>2, <2>3, <2>4, <2>5, <2>6 DEF Asked, Does, CloseIsValid
  <2>10. Acting(o)'
    BY <1>0, <1>1, <1>3, <2>1, <2>2, <2>3, <2>4, <2>5, <2>6 DEF Acting, Acts, Does
  <2>11. Told(o)'
    BY <1>0, <1>1, <1>3, <2>1, <2>2, <2>3, <2>4, <2>5, <2>6 DEF Told, Acts, Does
  <2>12. Holding(o)'
    BY <1>0, <1>1, <1>3, <2>1, <2>2, <2>3, <2>4, <2>5, <2>6 DEF Holding, Acts, Does, CloseIsValid
  <2> QED
    BY <2>7, <2>8, <2>9, <2>10, <2>11, <2>12 DEF Kept, OpInv
<1> QED
  BY <1>2, <1>3

\* The client closes the consent request, or it times out.
LEMMA EndStep ==
    ASSUME Typed, NEW o \in Ops, OpInv(o), EndOnChain(o)
    PROVE  Kept(o)
<1>0. Early(o) /\ Asked(o) /\ Acting(o) /\ Told(o) /\ Holding(o)
  BY DEF OpInv
<1>1. /\ Begins(o, "block") /\ "block" \in Steps /\ consent[o] \in Request
      /\ UNCHANGED <<kind, called, consents, requestOf, requestData, effect, checked, told, errored>>
      /\ consent[o].state = "open" /\ consent[o].asked
  BY DEF EndOnChain, records, Steps, Typed
<1>2. /\ jobs'[o] = jobs[o] \cup {"block"}
      /\ jobs' \in [Ops -> SUBSET Steps] /\ \A p \in Ops \ {o} : jobs'[p] = jobs[p]
  BY <1>1, TaskBegins
<1>3. /\ consent' \in [Ops -> Request] /\ \A p \in Ops \ {o} : consent'[p] = consent[p]
      /\ consent'[o].state \in {"closed", "timedOut"} /\ consent'[o].answer = consent[o].answer
      /\ consent'[o].asked = consent[o].asked
      /\ consent'[o].state = "closed" => consent'[o].listed = (o \in checked)
  <2>1. CASE Closed(o)
    <3> DEFINE b == (o \in checked)
    <3>1. b \in BOOLEAN
      OBVIOUS
    <3>2. consent' = [consent EXCEPT ![o].state = "closed", ![o].listed = b]
      BY <2>1 DEF Closed
    <3> QED
      <4> HIDE DEF b
      <4>1. consent'[o] = [consent[o] EXCEPT !.state = "closed", !.listed = b]
        BY <3>2 DEF Typed
      <4>2. consent'[o] \in Request /\ consent'[o].listed = b
            /\ consent'[o].state = "closed" /\ consent'[o].answer = consent[o].answer
            /\ consent'[o].asked = consent[o].asked
        BY <4>1, <3>1, <1>1 DEF Request
      <4>3. consent' \in [Ops -> Request] /\ \A p \in Ops \ {o} : consent'[p] = consent[p]
        BY <3>2, <4>1, <4>2 DEF Typed
      <4> QED
        BY <4>2, <4>3 DEF b
  <2>2. CASE consent' = [consent EXCEPT ![o].state = "timedOut"]
    BY <1>1, <2>2 DEF Typed, Request
  <2> QED
    BY <2>1, <2>2 DEF EndOnChain
<1>4. /\ o \in consents /\ o \in called /\ o \notin effect
      /\ \A s \in {"check", "start", "request", "announce", "refused", "tellRefused", "clearRefused",
                   "ended", "tellEnded", "clearEnded", "apply", "tx", "done", "failed"} :
             s \notin jobs[o]
  BY <1>0, <1>1 DEF Asked, Early, Acting, Acts, Does
<1>5. Typed' /\ Others(o)
  BY <1>0, <1>1, <1>2, <1>3, <1>4 DEF Typed, Others
<1>6. Early(o)'
  BY <1>0, <1>1, <1>2, <1>3, <1>4 DEF Early, Does
<1>7. Asked(o)'
  BY <1>0, <1>1, <1>2, <1>3, <1>4 DEF Asked, Does, CloseIsValid
<1>8. Acting(o)'
  BY <1>0, <1>1, <1>2, <1>3, <1>4 DEF Acting, Acts, Does
<1>9. Told(o)'
  BY <1>0, <1>1, <1>2, <1>3, <1>4 DEF Told, Acts, Does
<1>10. Holding(o)'
  BY <1>0, <1>1, <1>2, <1>3, <1>4 DEF Holding, Acts, Does, CloseIsValid
<1> QED
  BY <1>5, <1>6, <1>7, <1>8, <1>9, <1>10 DEF Kept, OpInv

\* The block of the end is seen.
LEMMA BlockStep ==
    ASSUME Typed, NEW o \in Ops, OpInv(o), SeeBlock(o)
    PROVE  Kept(o)
<1>0. Early(o) /\ Asked(o) /\ Acting(o) /\ Told(o) /\ Holding(o)
  BY DEF OpInv
<1>1. UNCHANGED <<kind, called, consents, requestOf, requestData, consent, effect, checked, told,
                  errored>>
  BY DEF SeeBlock, records, chain
<1>2. PICK next \in {{}, {"ended"}} :
          /\ Goes(o, "block", next)
          /\ next = {"ended"} <=> o \in requestData /\ (consent[o].state = "closed" => ~CloseIsValid(o))
  BY DEF SeeBlock
<1>3. next \in SUBSET Steps
  BY DEF Steps
<1>4. /\ "block" \in jobs[o] /\ jobs'[o] = (jobs[o] \ {"block"}) \cup next
      /\ jobs' \in [Ops -> SUBSET Steps] /\ \A p \in Ops \ {o} : jobs'[p] = jobs[p]
  BY <1>2, <1>3, TaskOver
<1>5. /\ consent[o].state \in {"closed", "timedOut"} /\ o \in called /\ o \in consents
      /\ \A s \in {"check", "start", "request", "announce"} : s \notin jobs[o]
  BY <1>0, <1>4 DEF Asked, Early, Does
<1>6. Typed' /\ Others(o)
  BY <1>0, <1>1, <1>2, <1>4, <1>5 DEF Typed, Others
<1>7. Early(o)'
  BY <1>0, <1>1, <1>2, <1>4, <1>5 DEF Early, Does
<1>8. Asked(o)'
  BY <1>0, <1>1, <1>2, <1>4, <1>5 DEF Asked, Does, CloseIsValid
<1>9. Acting(o)'
  BY <1>0, <1>1, <1>2, <1>4, <1>5 DEF Acting, Acts, Does
<1>10. Told(o)'
  BY <1>0, <1>1, <1>2, <1>4, <1>5 DEF Told, Acts, Does
<1>11. Holding(o)'
  BY <1>0, <1>1, <1>2, <1>4, <1>5 DEF Holding, Acts, Does, CloseIsValid
<1> QED
  BY <1>6, <1>7, <1>8, <1>9, <1>10, <1>11 DEF Kept, OpInv

\* The records of an ended request are read.
LEMMA ReadStep ==
    ASSUME Typed, NEW o \in Ops, OpInv(o), ReadEnded(o)
    PROVE  Kept(o)
<1>0. Early(o) /\ Asked(o) /\ Acting(o) /\ Told(o) /\ Holding(o)
  BY DEF OpInv
<1>1. UNCHANGED <<kind, called, consents, requestOf, requestData, consent, effect, checked, told,
                  errored>>
  BY DEF ReadEnded, records, chain
<1>2. PICK next \in {{}, {"tellEnded"}, {"clearEnded"}} :
          /\ Goes(o, "ended", next)
          /\ next = {} => ~(o \in requestData /\ requestOf # None)
  BY DEF ReadEnded
<1>3. next \in SUBSET Steps /\ None # o
  BY ConstantsAssumption DEF Steps
<1>4. /\ "ended" \in jobs[o] /\ jobs'[o] = (jobs[o] \ {"ended"}) \cup next
      /\ jobs' \in [Ops -> SUBSET Steps] /\ \A p \in Ops \ {o} : jobs'[p] = jobs[p]
  BY <1>2, <1>3, TaskOver
<1>5. /\ consent[o].state \in {"closed", "timedOut"} /\ o \in called /\ o \in consents
      /\ consent[o].state = "closed" => ~CloseIsValid(o)
      /\ \A s \in {"check", "start", "request", "announce"} : s \notin jobs[o]
  BY <1>0, <1>4 DEF Asked, Early, Does
<1>6. Typed' /\ Others(o)
  BY <1>0, <1>1, <1>2, <1>3, <1>4, <1>5 DEF Typed, Others
<1>7. Early(o)'
  BY <1>0, <1>1, <1>2, <1>3, <1>4, <1>5 DEF Early, Does
<1>8. Asked(o)'
  BY <1>0, <1>1, <1>2, <1>3, <1>4, <1>5 DEF Asked, Does, CloseIsValid
<1>9. Acting(o)'
  BY <1>0, <1>1, <1>2, <1>3, <1>4, <1>5 DEF Acting, Acts, Does
<1>10. Told(o)'
  BY <1>0, <1>1, <1>2, <1>3, <1>4, <1>5 DEF Told, Acts, Does
<1>11. Holding(o)'
  BY <1>0, <1>1, <1>2, <1>3, <1>4, <1>5 DEF Holding, Acts, Does, CloseIsValid
<1> QED
  BY <1>6, <1>7, <1>8, <1>9, <1>10, <1>11 DEF Kept, OpInv

\* The client hears of the end, and the records go.
LEMMA TellEndedStep ==
    ASSUME Typed, NEW o \in Ops, OpInv(o), TellEnded(o)
    PROVE  Kept(o)
<1>0. Early(o) /\ Asked(o) /\ Acting(o) /\ Told(o) /\ Holding(o)
  BY DEF OpInv
<1>1. /\ UNCHANGED <<kind, called, consents, consent, effect, checked, errored>>
      /\ requestOf' = None /\ requestData' = requestData \ {o} /\ None # o
  BY ConstantsAssumption DEF TellEnded, SetRecords, chain
<1>2. PICK step \in {"tellEnded", "clearEnded"} :
          Goes(o, step, {}) /\ (Tell(o, {"failure"}) \/ UNCHANGED told)
  BY DEF TellEnded
<1>3. {} \in SUBSET Steps /\ {"failure"} \in SUBSET {"requestFailed", "success", "failure"}
  OBVIOUS
<1>4. /\ step \in jobs[o] /\ jobs'[o] = jobs[o] \ {step}
      /\ jobs' \in [Ops -> SUBSET Steps] /\ \A p \in Ops \ {o} : jobs'[p] = jobs[p]
  BY <1>2, <1>3, TaskOver
<1>5. /\ told' \in [Ops -> SUBSET {"requestFailed", "success", "failure"}]
      /\ \A p \in Ops \ {o} : told'[p] = told[p]
      /\ told'[o] \in {told[o], told[o] \cup {"failure"}}
  BY <1>2, <1>3, TellTypes DEF Typed
<1>6. /\ consent[o].state \in {"closed", "timedOut"} /\ o \in called /\ o \in consents
      /\ consent[o].state = "closed" => ~CloseIsValid(o)
      /\ \A s \in {"check", "start", "request", "announce"} : s \notin jobs[o]
  BY <1>0, <1>2, <1>4 DEF Asked, Early, Does
<1>7. o \notin effect /\ jobs[o] \cap Acts = {}
  BY <1>0, <1>6 DEF Acting, CloseIsValid
<1>8. Typed' /\ Others(o)
  BY <1>0, <1>1, <1>2, <1>4, <1>5, <1>6, <1>7 DEF Typed, Others
<1>9. Early(o)'
  BY <1>0, <1>1, <1>2, <1>4, <1>5, <1>6, <1>7 DEF Early, Does
<1>10. Asked(o)'
  BY <1>0, <1>1, <1>2, <1>4, <1>5, <1>6, <1>7 DEF Asked, Does, CloseIsValid
<1>11. Acting(o)'
  BY <1>0, <1>1, <1>2, <1>4, <1>5, <1>6, <1>7 DEF Acting, Acts, Does
<1>12. Told(o)'
  BY <1>0, <1>1, <1>2, <1>4, <1>5, <1>6, <1>7 DEF Told, Acts, Does
<1>13. Holding(o)'
  BY <1>0, <1>1, <1>2, <1>4, <1>5, <1>6, <1>7 DEF Holding, Acts, Does, CloseIsValid
<1> QED
  BY <1>8, <1>9, <1>10, <1>11, <1>12, <1>13 DEF Kept, OpInv

\* The identity data of a refused operation is read.
LEMMA ReadRefusedStep ==
    ASSUME Typed, NEW o \in Ops, OpInv(o), ReadRefused(o)
    PROVE  Kept(o)
<1>0. Early(o) /\ Asked(o) /\ Acting(o) /\ Told(o) /\ Holding(o)
  BY DEF OpInv
<1>1. UNCHANGED <<kind, called, consents, requestOf, requestData, consent, effect, checked, told>>
  BY DEF ReadRefused, records, chain
<1>2. PICK next \in {{}, {"tellRefused"}, {"clearRefused"}} :
          /\ Goes(o, "refused", next)
          /\ errored' = IF next = {} THEN errored \cup {o} ELSE errored
  BY DEF ReadRefused, NotifyError
<1>3. next \in SUBSET Steps
  BY DEF Steps
<1>4. /\ "refused" \in jobs[o] /\ jobs'[o] = (jobs[o] \ {"refused"}) \cup next
      /\ jobs' \in [Ops -> SUBSET Steps] /\ \A p \in Ops \ {o} : jobs'[p] = jobs[p]
  BY <1>2, <1>3, TaskOver
<1>5. /\ consent[o].state = "closed" /\ o \in called /\ o \in consents
      /\ consent[o].answer \in {"reject", "forged"} /\ consent[o].asked
      /\ \A s \in {"check", "start", "request", "announce"} : s \notin jobs[o]
  BY <1>0, <1>4 DEF Asked, Early, Does
<1>6. Typed' /\ Others(o)
  BY <1>0, <1>1, <1>2, <1>4, <1>5 DEF Typed, Others
<1>7. Early(o)'
  BY <1>0, <1>1, <1>2, <1>4, <1>5 DEF Early, Does
<1>8. Asked(o)'
  BY <1>0, <1>1, <1>2, <1>4, <1>5 DEF Asked, Does, CloseIsValid
<1>9. Acting(o)'
  BY <1>0, <1>1, <1>2, <1>4, <1>5 DEF Acting, Acts, Does
<1>10. Told(o)'
  BY <1>0, <1>1, <1>2, <1>4, <1>5 DEF Told, Acts, Does
<1>11. Holding(o)'
  BY <1>0, <1>1, <1>2, <1>4, <1>5 DEF Holding, Acts, Does, CloseIsValid
<1> QED
  BY <1>6, <1>7, <1>8, <1>9, <1>10, <1>11 DEF Kept, OpInv

\* The client hears that the operation was refused.
LEMMA TellRefusedStep ==
    ASSUME Typed, NEW o \in Ops, OpInv(o), TellRefused(o)
    PROVE  Kept(o)
<1>0. Early(o) /\ Asked(o) /\ Acting(o) /\ Told(o) /\ Holding(o)
  BY DEF OpInv
<1>1. /\ UNCHANGED <<kind, called, consents, requestData, consent, effect, checked, errored>>
      /\ requestOf' = None /\ None # o
  BY ConstantsAssumption DEF TellRefused, SetRecords, chain
<1>2. PICK step \in {"tellRefused", "clearRefused"} :
          Goes(o, step, {}) /\ (Tell(o, {"failure"}) \/ UNCHANGED told)
  BY DEF TellRefused
<1>3. {} \in SUBSET Steps /\ {"failure"} \in SUBSET {"requestFailed", "success", "failure"}
  OBVIOUS
<1>4. /\ step \in jobs[o] /\ jobs'[o] = jobs[o] \ {step}
      /\ jobs' \in [Ops -> SUBSET Steps] /\ \A p \in Ops \ {o} : jobs'[p] = jobs[p]
  BY <1>2, <1>3, TaskOver
<1>5. /\ told' \in [Ops -> SUBSET {"requestFailed", "success", "failure"}]
      /\ \A p \in Ops \ {o} : told'[p] = told[p]
      /\ told'[o] \in {told[o], told[o] \cup {"failure"}}
  BY <1>2, <1>3, TellTypes DEF Typed
<1>6. /\ consent[o].state = "closed" /\ o \in called /\ o \in consents
      /\ consent[o].answer \in {"reject", "forged"}
      /\ \A s \in {"check", "start", "request", "announce"} : s \notin jobs[o]
  BY <1>0, <1>2, <1>4 DEF Asked, Early, Does
<1>7. o \notin effect /\ jobs[o] \cap Acts = {}
  BY <1>0, <1>6 DEF Acting
<1>8. Typed' /\ Others(o)
  BY <1>0, <1>1, <1>2, <1>4, <1>5, <1>6, <1>7 DEF Typed, Others
<1>9. Early(o)'
  BY <1>0, <1>1, <1>2, <1>4, <1>5, <1>6, <1>7 DEF Early, Does
<1>10. Asked(o)'
  BY <1>0, <1>1, <1>2, <1>4, <1>5, <1>6, <1>7 DEF Asked, Does, CloseIsValid
<1>11. Acting(o)'
  BY <1>0, <1>1, <1>2, <1>4, <1>5, <1>6, <1>7 DEF Acting, Acts, Does
<1>12. Told(o)'
  BY <1>0, <1>1, <1>2, <1>4, <1>5, <1>6, <1>7 DEF Told, Acts, Does
<1>13. Holding(o)'
  BY <1>0, <1>1, <1>2, <1>4, <1>5, <1>6, <1>7 DEF Holding, Acts, Does, CloseIsValid
<1> QED
  BY <1>8, <1>9, <1>10, <1>11, <1>12, <1>13 DEF Kept, OpInv

\* The transaction of the operation is sent, or an error reported.
LEMMA ApplyStep ==
    ASSUME Typed, NEW o \in Ops, OpInv(o), NEW k, Apply(o, k)
    PROVE  Kept(o)
<1>0. Early(o) /\ Asked(o) /\ Acting(o) /\ Told(o) /\ Holding(o)
  BY DEF OpInv
<1>1. UNCHANGED <<kind, called, consents, requestOf, requestData, consent, effect, checked, told>>
  BY DEF Apply, records, chain
<1>2. PICK next \in {{}, {"tx"}} :
          /\ Goes(o, "apply", next)
          /\ errored' = IF next = {} THEN errored \cup {o} ELSE errored
  BY DEF Apply, NotifyError
<1>3. next \in SUBSET Steps
  BY DEF Steps
<1>4. /\ "apply" \in jobs[o] /\ jobs'[o] = (jobs[o] \ {"apply"}) \cup next
      /\ jobs' \in [Ops -> SUBSET Steps] /\ \A p \in Ops \ {o} : jobs'[p] = jobs[p]
  BY <1>2, <1>3, TaskOver
<1>5. /\ o \notin effect /\ jobs[o] \cap Acts = {"apply"} /\ o \in called
      /\ told[o] = {}
      /\ \A s \in {"check", "start", "request", "announce"} : s \notin jobs[o]
  <2>1. o \notin effect /\ jobs[o] \cap Acts = {"apply"}
    BY <1>0, <1>4 DEF Acting, Acts, Does
  <2>2. told[o] = {}
    BY <1>0, <1>4, <2>1 DEF Told, Typed
  <2> QED
    BY <1>0, <1>4, <2>1, <2>2 DEF Asked, Early, Does
<1>6. Typed' /\ Others(o)
  BY <1>0, <1>1, <1>2, <1>4, <1>5 DEF Typed, Others
<1>7. Early(o)'
  BY <1>0, <1>1, <1>2, <1>4, <1>5 DEF Early, Does
<1>8. Asked(o)'
  BY <1>0, <1>1, <1>2, <1>4, <1>5 DEF Asked, Does, CloseIsValid
<1>9. Acting(o)'
  BY <1>0, <1>1, <1>2, <1>4, <1>5 DEF Acting, Acts, Does
<1>10. Told(o)'
  BY <1>0, <1>1, <1>2, <1>4, <1>5 DEF Told, Acts, Does
<1>11. Holding(o)'
  BY <1>0, <1>1, <1>2, <1>4, <1>5 DEF Holding, Acts, Does, CloseIsValid
<1> QED
  BY <1>6, <1>7, <1>8, <1>9, <1>10, <1>11 DEF Kept, OpInv

\* The transaction of the operation, or its refusal.
LEMMA TxStep ==
    ASSUME Typed, NEW o \in Ops, OpInv(o), TxOnChain(o)
    PROVE  Kept(o)
<1>0. Early(o) /\ Asked(o) /\ Acting(o) /\ Told(o) /\ Holding(o)
  BY DEF OpInv
<1>1. UNCHANGED <<kind, called, consents, requestOf, requestData, consent, checked, told, errored>>
  BY DEF TxOnChain, records
<1>2. PICK next \in {"done", "failed"} :
          /\ Goes(o, "tx", {next})
          /\ effect' = IF next = "done" THEN effect \cup {o} ELSE effect
  BY DEF TxOnChain
<1>3. {next} \in SUBSET Steps
  BY DEF Steps
<1>4. /\ "tx" \in jobs[o] /\ jobs'[o] = (jobs[o] \ {"tx"}) \cup {next}
      /\ jobs' \in [Ops -> SUBSET Steps] /\ \A p \in Ops \ {o} : jobs'[p] = jobs[p]
  BY <1>2, <1>3, TaskOver
<1>5. /\ o \notin effect /\ jobs[o] \cap Acts = {"tx"} /\ o \in called
      /\ told[o] = {}
      /\ \A s \in {"check", "start", "request", "announce"} : s \notin jobs[o]
  <2>1. o \notin effect /\ jobs[o] \cap Acts = {"tx"}
    BY <1>0, <1>4 DEF Acting, Acts, Does
  <2>2. told[o] = {}
    BY <1>0, <1>4, <2>1 DEF Told, Typed
  <2> QED
    BY <1>0, <1>4, <2>1, <2>2 DEF Asked, Early, Does
<1>6. Typed' /\ Others(o)
  BY <1>0, <1>1, <1>2, <1>4, <1>5 DEF Typed, Others
<1>7. Early(o)'
  BY <1>0, <1>1, <1>2, <1>4, <1>5 DEF Early, Does
<1>8. Asked(o)'
  BY <1>0, <1>1, <1>2, <1>4, <1>5 DEF Asked, Does, CloseIsValid
<1>9. Acting(o)'
  BY <1>0, <1>1, <1>2, <1>4, <1>5 DEF Acting, Acts, Does
<1>10. Told(o)'
  BY <1>0, <1>1, <1>2, <1>4, <1>5 DEF Told, Acts, Does
<1>11. Holding(o)'
  BY <1>0, <1>1, <1>2, <1>4, <1>5 DEF Holding, Acts, Does, CloseIsValid
<1> QED
  BY <1>6, <1>7, <1>8, <1>9, <1>10, <1>11 DEF Kept, OpInv

\* The client hears of the result, and the records go.
LEMMA FinishStep ==
    ASSUME Typed, NEW o \in Ops, OpInv(o), (\E k : Finish(o, k)) \/ FinishUpdateIal(o)
    PROVE  Kept(o)
<1>0. Early(o) /\ Asked(o) /\ Acting(o) /\ Told(o) /\ Holding(o)
  BY DEF OpInv
<1>1. /\ UNCHANGED <<kind, called, consents, consent, effect, checked, errored>>
      /\ \/ requestOf' = None /\ requestData' = requestData \ {o}
         \/ kind[o] = "UpdateIal" /\ UNCHANGED <<requestOf, requestData>>
  BY DEF Finish, FinishUpdateIal, Report, SetRecords, chain, records
<1>2. PICK step \in {"done", "failed"}, result \in {"success", "failure"} :
          /\ Goes(o, step, {}) /\ (Tell(o, {result}) \/ UNCHANGED told)
          /\ step = "done" <=> result = "success"
  BY DEF Finish, FinishUpdateIal, Report
<1>3. {} \in SUBSET Steps /\ {result} \in SUBSET {"requestFailed", "success", "failure"} /\ None # o
  BY ConstantsAssumption
<1>4. /\ step \in jobs[o] /\ jobs'[o] = jobs[o] \ {step}
      /\ jobs' \in [Ops -> SUBSET Steps] /\ \A p \in Ops \ {o} : jobs'[p] = jobs[p]
  BY <1>2, <1>3, TaskOver
<1>5. /\ told' \in [Ops -> SUBSET {"requestFailed", "success", "failure"}]
      /\ \A p \in Ops \ {o} : told'[p] = told[p]
      /\ told'[o] \in {told[o], told[o] \cup {result}}
  BY <1>2, <1>3, TellTypes DEF Typed
<1>6. /\ jobs[o] \cap Acts = {step} /\ jobs'[o] \cap Acts = {} /\ o \in called
      /\ step = "done" <=> o \in effect
      /\ \A s \in {"check", "start", "request", "announce"} : s \notin jobs[o]
      /\ consent[o].state # "open"
  <2>1. jobs[o] \cap Acts = {step} /\ (step = "done" <=> o \in effect)
    BY <1>0, <1>2, <1>4 DEF Acting, Acts, Does
  <2>2. jobs'[o] \cap Acts = {}
    BY <1>4, <2>1
  <2>3. consent[o].state # "open"
    BY <1>0, <2>1 DEF Asked, Acting
  <2> QED
    BY <1>0, <1>2, <1>4, <2>1, <2>2, <2>3 DEF Asked, Early, Does
<1>7. Typed' /\ Others(o)
  BY <1>0, <1>1, <1>2, <1>3, <1>4, <1>5, <1>6 DEF Typed, Others
<1>8. Early(o)'
  BY <1>0, <1>1, <1>2, <1>3, <1>4, <1>5, <1>6 DEF Early, Does
<1>9. Asked(o)'
  BY <1>0, <1>1, <1>2, <1>3, <1>4, <1>5, <1>6 DEF Asked, Does, CloseIsValid
<1>10. Acting(o)'
  BY <1>0, <1>1, <1>2, <1>3, <1>4, <1>5, <1>6 DEF Acting, Acts, Does
<1>11. Told(o)'
  BY <1>0, <1>1, <1>2, <1>3, <1>4, <1>5, <1>6 DEF Told, Acts, Does
<1>12. Holding(o)'
  BY <1>0, <1>1, <1>2, <1>3, <1>4, <1>5, <1>6 DEF Holding, Acts, Does, CloseIsValid
<1> QED
  BY <1>7, <1>8, <1>9, <1>10, <1>11, <1>12 DEF Kept, OpInv

-----------------------------------------------------------------------------
(* The theorems.                                                           *)

\* The strengthening holds in every state of the specification.
THEOREM Invariant == Spec => []IInv
<1>1. IInv /\ [Next]_vars => IInv'
  <2> SUFFICES ASSUME IInv, [Next]_vars PROVE IInv'
    OBVIOUS
  <2>1. CASE UNCHANGED vars
    BY <2>1 DEF vars, records, chain, IInv, Typed, OpInv, Early, Asked, Acting, Told, Holding,
                Does, CloseIsValid
  <2>2. ASSUME NEW o \in Ops,
               Call(o) \/ CallWithBadKey(o) \/ IdpAnswers(o) \/ EndOnChain(o) \/ Own(o) \/ OnChain(o)
        PROVE  Kept(o)
    <3>1. Typed /\ OpInv(o)
      BY DEF IInv
    <3>2. CASE \/ CheckCreateIdentity(o) \/ CheckAddIdentity(o) \/ CheckAddAccessor(o)
               \/ CheckRevokeAccessor(o) \/ CheckRevokeAndAddAccessor(o)
               \/ CheckRevokeIdentityAssociation(o) \/ CheckUpgradeIdentityMode(o)
      <4>1. \E applicable, need : \E k \in Kinds \ {"UpdateIal"} : Checked(o, k, applicable, need)
        BY <3>2 DEF CheckCreateIdentity, CheckAddIdentity, CheckAddAccessor, CheckRevokeAccessor,
                    CheckRevokeAndAddAccessor, CheckRevokeIdentityAssociation,
                    CheckUpgradeIdentityMode, Kinds
      <4> QED
        BY <3>1, <4>1, CheckedStep
    <3>3. CASE \/ StartCreateIdentity(o) \/ StartAddIdentity(o) \/ StartAddAccessor(o)
               \/ StartRevokeAccessor(o) \/ StartRevokeAndAddAccessor(o)
               \/ StartRevokeIdentityAssociation(o) \/ StartUpgradeIdentityMode(o)
      BY <3>1, <3>3, StartStep DEF StartCreateIdentity, StartAddIdentity, StartAddAccessor,
           StartRevokeAccessor, StartRevokeAndAddAccessor, StartRevokeIdentityAssociation,
           StartUpgradeIdentityMode
    <3>4. CASE \/ SaveCreateIdentity(o) \/ SaveAddIdentity(o) \/ SaveAddAccessor(o)
               \/ SaveRevokeAccessor(o) \/ SaveRevokeAndAddAccessor(o)
               \/ SaveRevokeIdentityAssociation(o) \/ SaveUpgradeIdentityMode(o)
      BY <3>1, <3>4, SaveStep DEF SaveCreateIdentity, SaveAddIdentity, SaveAddAccessor,
           SaveRevokeAccessor, SaveRevokeAndAddAccessor, SaveRevokeIdentityAssociation,
           SaveUpgradeIdentityMode
    <3>5. CASE \/ ApplyCreateIdentity(o) \/ ApplyAddIdentity(o) \/ ApplyAddAccessor(o)
               \/ ApplyRevokeAccessor(o) \/ ApplyRevokeAndAddAccessor(o)
               \/ ApplyRevokeIdentityAssociation(o) \/ ApplyUpgradeIdentityMode(o)
      BY <3>1, <3>5, ApplyStep DEF ApplyCreateIdentity, ApplyAddIdentity, ApplyAddAccessor,
           ApplyRevokeAccessor, ApplyRevokeAndAddAccessor, ApplyRevokeIdentityAssociation,
           ApplyUpgradeIdentityMode
    <3>6. CASE \/ FinishCreateIdentity(o) \/ FinishAddIdentity(o) \/ FinishAddAccessor(o)
               \/ FinishRevokeAccessor(o) \/ FinishRevokeAndAddAccessor(o)
               \/ FinishRevokeIdentityAssociation(o) \/ FinishUpgradeIdentityMode(o)
               \/ FinishUpdateIal(o)
      <4>1. (\E k : Finish(o, k)) \/ FinishUpdateIal(o)
        BY <3>6 DEF FinishCreateIdentity, FinishAddIdentity, FinishAddAccessor,
             FinishRevokeAccessor, FinishRevokeAndAddAccessor, FinishRevokeIdentityAssociation,
             FinishUpgradeIdentityMode
      <4> QED
        BY <3>1, <4>1, FinishStep
    <3>7. CASE \/ Call(o) \/ CallWithBadKey(o) \/ UpdateIal(o) \/ IdpAnswers(o) \/ EndOnChain(o)
               \/ OnChain(o) \/ Announce(o)
      BY <3>1, <3>7, CallStep, UpdateIalStep, AnswersStep, EndStep, RequestStep, CloseStep, TxStep
         DEF OnChain
    <3>8. CASE \/ HandleAnswer(o) \/ SeeBlock(o) \/ ReadEnded(o) \/ TellEnded(o)
               \/ ReadRefused(o) \/ TellRefused(o)
      BY <3>1, <3>8, HandleStep, BlockStep, ReadStep, TellEndedStep, ReadRefusedStep,
         TellRefusedStep
    <3> QED
      BY <2>2, <3>2, <3>3, <3>4, <3>5, <3>6, <3>7, <3>8 DEF Own
  <2> QED
    BY <2>1, <2>2, KeptIsEnough DEF Next
<1> QED
  BY InitIInv, <1>1, PTL DEF Spec

\* Whatever calls are made with the reference ID, and whatever the identity is at the
\* start, a protected identity is changed only with the consent of another IdP.
THEOREM ConsentIsRespected == Spec => []ConsentRespected
<1>1. IInv => ConsentRespected
  BY DEF IInv, Typed, OpInv, Acting, ConsentRespected
<1> QED
  BY Invariant, <1>1, PTL

\* The client is told the truth about every operation.
THEOREM TruthIsTold == Spec => []ResultsAreTrue
<1>1. IInv => ResultsAreTrue
  <2> SUFFICES ASSUME IInv, NEW o \in Ops, told[o] \cap {"failure", "requestFailed"} # {},
                      consent[o].state = "open"
               PROVE  ~Does(o, "closing")
    BY DEF IInv, OpInv, Told, ResultsAreTrue, Does
  <2>1. jobs[o] \subseteq {"announce"}
    BY DEF IInv, OpInv, Told, Asked
  <2> QED
    BY <2>1 DEF Does
<1> QED
  BY Invariant, <1>1, PTL

\* A reference ID is taken only by an operation in progress, or after an error that
\* was reported.
THEOREM NoReferenceIsLeft == Spec => []TakenOnlyInProgress
<1>1. IInv => TakenOnlyInProgress
  <2> SUFFICES ASSUME IInv, requestOf # None, ~InProgress(requestOf)
               PROVE  requestOf \in errored
    BY DEF TakenOnlyInProgress
  <2>1. requestOf \in Ops
    BY DEF IInv, Typed
  <2> QED
    BY <2>1 DEF IInv, OpInv, Holding, InProgress, Typed, Request
<1> QED
  BY Invariant, <1>1, PTL

-----------------------------------------------------------------------------
(* Types.                                                                  *)

\* What TypeOK says beside Typed.
TypedRecords ==
    /\ identity \in [here : SUBSET {2, 3}, others : SUBSET {2, 3}]
    /\ kind \in Plans
    /\ callbackUrl \in Ops \cup {None} /\ mapping \in Ops \cup {None}
    /\ requestData \subseteq Ops /\ saved \subseteq Ops
    /\ errored \subseteq Ops /\ robbed \subseteq Ops
    /\ failures \in 0 .. MaxFailures

\* Types of the records under the reference ID.
LEMMA SetRecordsTypes ==
    ASSUME TypedRecords, NEW o \in Ops, NEW r, NEW u \in {None, o, callbackUrl},
           NEW m \in {None, o, mapping}, SetRecords(o, r, u, m)
    PROVE  /\ callbackUrl' \in Ops \cup {None} /\ mapping' \in Ops \cup {None}
           /\ robbed' \subseteq Ops
  BY DEF TypedRecords, SetRecords

\* A failure is counted.
LEMMA FailTypes == ASSUME TypedRecords, Fail PROVE failures' \in 0 .. MaxFailures
  BY ConstantsAssumption DEF TypedRecords, Fail

\* The request is not made.
LEMMA RequestFailsTypes ==
    ASSUME TypedRecords, NEW o \in Ops, NEW step, RequestFails(o, step)
    PROVE  /\ callbackUrl' \in Ops \cup {None} /\ mapping' \in Ops \cup {None}
           /\ robbed' \subseteq Ops /\ failures' \in 0 .. MaxFailures
           /\ requestData' \subseteq Ops /\ saved' \subseteq Ops
<1>1. callbackUrl' \in Ops \cup {None} /\ mapping' \in Ops \cup {None} /\ robbed' \subseteq Ops
  BY SetRecordsTypes DEF RequestFails
<1>2. requestData' \subseteq Ops /\ saved' \subseteq Ops
  BY DEF TypedRecords, RequestFails, GiveUp
<1> QED
  BY <1>1, <1>2, FailTypes DEF RequestFails

\* A transaction of an operation leaves the identity with modes.
LEMMA TxTypes ==
    ASSUME TypedRecords, NEW o \in Ops, TxOnChain(o)
    PROVE  identity' \in [here : SUBSET {2, 3}, others : SUBSET {2, 3}]
<1>1. CASE identity' = identity
  BY <1>1 DEF TypedRecords
<1>2. CASE identity' \in Changed(o)
  <2>1. \/ identity' = identity
        \/ \E m \in {{}, {2}, {2, 3}} : identity' = [identity EXCEPT !.here = m]
    BY <1>2 DEF Changed
  <2> QED
    BY <2>1, <1>1 DEF TypedRecords
<1> QED
  BY <1>1, <1>2 DEF TxOnChain

\* Before an operation is applied.
LEMMA ConsentTypes ==
    ASSUME TypedRecords, NEW o \in Ops,
           \/ Call(o) \/ CallWithBadKey(o) \/ UpdateIal(o) \/ IdpAnswers(o) \/ EndOnChain(o)
           \/ Announce(o) \/ RequestOnChain(o) \/ HandleAnswer(o) \/ SeeBlock(o)
           \/ CloseOnChain(o) \/ ReadEnded(o) \/ TellEnded(o) \/ ReadRefused(o) \/ TellRefused(o)
           \/ (\E k, applicable, need : Checked(o, k, applicable, need))
           \/ (\E k : Start(o, k)) \/ (\E k : Save(o, k))
    PROVE  TypedRecords'
<1> USE DEF records, chain
<1>1. CASE \/ UpdateIal(o) \/ IdpAnswers(o) \/ EndOnChain(o) \/ HandleAnswer(o) \/ SeeBlock(o)
           \/ CloseOnChain(o) \/ ReadEnded(o) \/ ReadRefused(o) \/ (\E k : Save(o, k)) \/ Call(o)
  BY <1>1 DEF TypedRecords, UpdateIal, IdpAnswers, EndOnChain, HandleAnswer, SeeBlock,
              CloseOnChain, ReadEnded, ReadRefused, Save, NotifyError, Call
<1>2. CASE Announce(o) \/ RequestOnChain(o)
  <2>1. CASE UNCHANGED <<records, requestData, saved, failures>>
    BY <1>2, <2>1 DEF TypedRecords, Announce, RequestOnChain
  <2>2. CASE \E step : RequestFails(o, step)
    BY <1>2, <2>2, RequestFailsTypes DEF TypedRecords, Announce, RequestOnChain
  <2> QED
    BY <1>2, <2>1, <2>2 DEF Announce, RequestOnChain
<1>3. CASE CallWithBadKey(o) \/ TellRefused(o)
  <2>1. SetRecords(o, None, None, mapping)
    BY <1>3 DEF CallWithBadKey, TellRefused
  <2> QED
    BY <1>3, <2>1, SetRecordsTypes DEF TypedRecords, CallWithBadKey, TellRefused
<1>4. CASE TellEnded(o)
  <2>1. SetRecords(o, None, callbackUrl, None)
    BY <1>4 DEF TellEnded
  <2> QED
    BY <1>4, <2>1, SetRecordsTypes DEF TypedRecords, TellEnded
<1>5. CASE \E k, applicable, need : Checked(o, k, applicable, need)
  <2>1. \E r, u \in {None, o} : SetRecords(o, r, u, mapping)
    BY <1>5 DEF Checked, Refuse, Accept
  <2> QED
    BY <1>5, <2>1, SetRecordsTypes DEF TypedRecords, Checked
<1>6. CASE \E k : Start(o, k)
  <2>1. /\ UNCHANGED <<identity, kind, errored, failures>>
        /\ requestData' \subseteq Ops /\ saved' \subseteq Ops
    BY <1>6 DEF TypedRecords, Start, GiveUp
  <2>2. \/ UNCHANGED records
        \/ SetRecords(o, None, None, mapping)
        \/ SetRecords(o, requestOf, callbackUrl, o)
    BY <1>6 DEF Start
  <2>3. callbackUrl' \in Ops \cup {None} /\ mapping' \in Ops \cup {None} /\ robbed' \subseteq Ops
    BY <2>2, SetRecordsTypes DEF TypedRecords
  <2> QED
    BY <2>1, <2>3 DEF TypedRecords
<1> QED
  BY <1>1, <1>2, <1>3, <1>4, <1>5, <1>6

\* When it is applied, and after that.
LEMMA ApplyTypes ==
    ASSUME TypedRecords, NEW o \in Ops,
           \/ (\E k : Apply(o, k)) \/ TxOnChain(o) \/ (\E k : Finish(o, k)) \/ FinishUpdateIal(o)
    PROVE  TypedRecords'
<1> USE DEF records, chain
<1>1. CASE \E k : Apply(o, k)
  <2>1. failures' \in 0 .. MaxFailures
    BY <1>1, FailTypes DEF TypedRecords, Apply
  <2> QED
    BY <1>1, <2>1 DEF TypedRecords, Apply, NotifyError
<1>2. CASE TxOnChain(o)
  BY <1>2, TxTypes DEF TypedRecords, TxOnChain
<1>3. CASE \E k : Finish(o, k)
  <2>1. SetRecords(o, None, None, None)
    BY <1>3 DEF Finish, Report
  <2> QED
    BY <1>3, <2>1, SetRecordsTypes DEF TypedRecords, Finish, Report
<1>4. CASE FinishUpdateIal(o)
  BY <1>4 DEF TypedRecords, FinishUpdateIal
<1> QED
  BY <1>1, <1>2, <1>3, <1>4

\* The variables keep their types, for any calls and any identity.
THEOREM TypeCorrect == Spec => []TypeOK
<1>1. Init => TypedRecords
  BY ConstantsAssumption DEF Init, TypedRecords
<1>2. TypedRecords /\ [Next]_vars => TypedRecords'
  <2> SUFFICES ASSUME TypedRecords, [Next]_vars PROVE TypedRecords'
    OBVIOUS
  <2>1. CASE UNCHANGED vars
    BY <2>1 DEF vars, records, chain, TypedRecords
  <2>2. ASSUME NEW o \in Ops,
               \/ Call(o) \/ CallWithBadKey(o) \/ IdpAnswers(o) \/ EndOnChain(o)
               \/ Own(o) \/ OnChain(o)
        PROVE  TypedRecords'
    <3>1. \/ Call(o) \/ CallWithBadKey(o) \/ UpdateIal(o) \/ IdpAnswers(o) \/ EndOnChain(o)
          \/ Announce(o) \/ RequestOnChain(o) \/ HandleAnswer(o) \/ SeeBlock(o)
          \/ CloseOnChain(o) \/ ReadEnded(o) \/ TellEnded(o) \/ ReadRefused(o) \/ TellRefused(o)
          \/ (\E k, applicable, need : Checked(o, k, applicable, need))
          \/ (\E k : Start(o, k)) \/ (\E k : Save(o, k))
          \/ (\E k : Apply(o, k)) \/ TxOnChain(o) \/ (\E k : Finish(o, k)) \/ FinishUpdateIal(o)
      <4>1. CASE \/ CheckCreateIdentity(o) \/ CheckAddIdentity(o) \/ CheckAddAccessor(o)
                 \/ CheckRevokeAccessor(o) \/ CheckRevokeAndAddAccessor(o)
                 \/ CheckRevokeIdentityAssociation(o) \/ CheckUpgradeIdentityMode(o)
        <5>1. \E k, applicable, need : Checked(o, k, applicable, need)
          BY <4>1 DEF CheckCreateIdentity, CheckAddIdentity, CheckAddAccessor,
                      CheckRevokeAccessor, CheckRevokeAndAddAccessor,
                      CheckRevokeIdentityAssociation, CheckUpgradeIdentityMode
        <5> QED
          BY <5>1
      <4>2. CASE \/ StartCreateIdentity(o) \/ StartAddIdentity(o) \/ StartAddAccessor(o)
                 \/ StartRevokeAccessor(o) \/ StartRevokeAndAddAccessor(o)
                 \/ StartRevokeIdentityAssociation(o) \/ StartUpgradeIdentityMode(o)
        BY <4>2 DEF StartCreateIdentity, StartAddIdentity, StartAddAccessor, StartRevokeAccessor,
                    StartRevokeAndAddAccessor, StartRevokeIdentityAssociation,
                    StartUpgradeIdentityMode
      <4>3. CASE \/ SaveCreateIdentity(o) \/ SaveAddIdentity(o) \/ SaveAddAccessor(o)
                 \/ SaveRevokeAccessor(o) \/ SaveRevokeAndAddAccessor(o)
                 \/ SaveRevokeIdentityAssociation(o) \/ SaveUpgradeIdentityMode(o)
        BY <4>3 DEF SaveCreateIdentity, SaveAddIdentity, SaveAddAccessor, SaveRevokeAccessor,
                    SaveRevokeAndAddAccessor, SaveRevokeIdentityAssociation,
                    SaveUpgradeIdentityMode
      <4>4. CASE \/ ApplyCreateIdentity(o) \/ ApplyAddIdentity(o) \/ ApplyAddAccessor(o)
                 \/ ApplyRevokeAccessor(o) \/ ApplyRevokeAndAddAccessor(o)
                 \/ ApplyRevokeIdentityAssociation(o) \/ ApplyUpgradeIdentityMode(o)
        BY <4>4 DEF ApplyCreateIdentity, ApplyAddIdentity, ApplyAddAccessor, ApplyRevokeAccessor,
                    ApplyRevokeAndAddAccessor, ApplyRevokeIdentityAssociation,
                    ApplyUpgradeIdentityMode
      <4>5. CASE \/ FinishCreateIdentity(o) \/ FinishAddIdentity(o) \/ FinishAddAccessor(o)
                 \/ FinishRevokeAccessor(o) \/ FinishRevokeAndAddAccessor(o)
                 \/ FinishRevokeIdentityAssociation(o) \/ FinishUpgradeIdentityMode(o)
        BY <4>5 DEF FinishCreateIdentity, FinishAddIdentity, FinishAddAccessor,
                    FinishRevokeAccessor, FinishRevokeAndAddAccessor,
                    FinishRevokeIdentityAssociation, FinishUpgradeIdentityMode
      <4> QED
        BY <2>2, <4>1, <4>2, <4>3, <4>4, <4>5 DEF Own, OnChain
    <3> QED
      BY <3>1, ConsentTypes, ApplyTypes
  <2> QED
    BY <2>1, <2>2 DEF Next
<1>3. IInv /\ TypedRecords => TypeOK
  BY DEF IInv, Typed, TypedRecords, TypeOK
<1> QED
  BY <1>1, <1>2, <1>3, Invariant, PTL DEF Spec

=============================================================================
