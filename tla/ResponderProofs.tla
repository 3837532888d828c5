-------------------------- MODULE ResponderProofs ---------------------------
(***************************************************************************)
(* Safety of the nodes that answer a request: the AS, for any number of    *)
(* services and of calls with data, and the IdP, for any number of answers.*)
(*                                                                         *)
(* AsNode: whatever was let through because the request was stored finds   *)
(* its salt again, or the request is over by then and the chain takes no   *)
(* signature (Stored); and data is sent by the function that is called     *)
(* with the result of its own signature (Followed).                        *)
(*                                                                         *)
(* IdpNode, in the second half: an answer whose result has been applied is *)
(* the one on the chain, one whose message has gone is about to be         *)
(* reported, and nobody hears of an answer before it is done (Handled).    *)
(***************************************************************************)
EXTENDS AsNode, IdpNode, TLAPS

\* The salt is there as long as the request is open.
Stored == salt \/ status = "over"

\* The tasks that follow the store of the salt, and those of the end.
Ordered ==
    /\ \A i \in 1 .. Len(queue) : /\ queue[i] = "check" => Stored
                                  /\ queue[i] = "cleanUp" => status = "over"
    /\ unseen => status = "over"
    /\ rpId # {} => Stored

\* The steps of data.
Followed ==
    \A d \in Data :
        /\ step[d] = "salt" => Stored
        /\ step[d] = "tx" => d \in salted \/ status = "over"
        /\ step[d] \in {"handler", "sent"} => signed[Of(d)] = d /\ d \in salted
        /\ step[d] = "sent" => d \in sent

IInv == TypeOK /\ Ordered /\ Followed /\ OnlySignedIsSent /\ DataCanStillCome

TaskNames == {"read", "store", "check", "cleanUp"}
Steps == {"none", "read", "look", "salt", "tx", "handler", "sent", "done", "refused",
          "orphan", "lost"}

-----------------------------------------------------------------------------

\* Every data belongs to a service, and None is no data.
LEMMA OfService == /\ \A d \in Data : Of(d) \in Services
                   /\ \A s \in Services : s \in Data /\ Of(s) = s
                   /\ None \notin Data /\ MaxFailures \in Nat /\ MaxCrashes \in Nat
  BY ConstantsAssumption DEF Data, Of

\* What Init establishes.
LEMMA InitIInv == Init => IInv
<1> SUFFICES ASSUME Init PROVE IInv
  OBVIOUS
<1>1. queue \in Seq(TaskNames) /\ Len(queue) = 1 /\ queue[1] = "read"
  BY DEF Init, TaskNames
<1>2. TypeOK
  <2>1. /\ status \in {"open", "over"} /\ url \subseteq Services
        /\ signed \in [Services -> Data \cup {None}]
        /\ registration \in [Services -> {"none", "tx", "success", "failure"}]
    BY ConstantsAssumption DEF Init
  <2>2. /\ step \in [Data -> Steps]
        /\ told \in [Data -> SUBSET {"success", "failure", "error"}]
    BY DEF Init, Steps
  <2>3. failures \in 0 .. MaxFailures /\ crashes \in 0 .. MaxCrashes
    BY OfService DEF Init
  <2>4. /\ unseen \in BOOLEAN /\ salt \in BOOLEAN /\ missed \in BOOLEAN
        /\ rpId \subseteq Services /\ asking \subseteq asked /\ asked \subseteq Services
        /\ turnedDown \subseteq Services
        /\ aside \subseteq Data /\ salted \subseteq Data /\ sent \subseteq Data
    BY DEF Init
  <2> QED
    BY <1>1, <2>1, <2>2, <2>3, <2>4, Zenon DEF TypeOK, TaskNames, Steps
<1>3. Ordered
  BY <1>1 DEF Init, Ordered
<1> QED
  BY <1>2, <1>3 DEF Init, IInv, Followed, OnlySignedIsSent, DataCanStillCome

\* A queue whose first task is gone, or has become another that may be there, is
\* still in order, and so is one with a clean-up more after the end.
LEMMA QueueKept ==
    ASSUME TypeOK, Ordered, status' = status, salt' = salt \/ salt' = TRUE \/ status = "over"
    PROVE  /\ queue # <<>> => /\ Head(queue) \in TaskNames
                              /\ Head(queue) = "check" => Stored
                              /\ Head(queue) = "cleanUp" => status = "over"
           /\ queue' \in {<<>>, queue, Tail(queue)} /\ queue # <<>> =>
                  queue' \in Seq(TaskNames)
           /\ queue' \in {<<>>, queue, Tail(queue)} /\ queue # <<>> =>
                  \A i \in 1 .. Len(queue') : /\ queue'[i] = "check" => Stored'
                                              /\ queue'[i] = "cleanUp" => status' = "over"
           /\ \A task \in TaskNames :
                  queue # <<>> /\ queue' = <<task>> \o Tail(queue) =>
                      /\ queue' \in Seq(TaskNames)
                      /\ (task = "check" => Stored') /\ task # "cleanUp" =>
                             \A i \in 1 .. Len(queue') : /\ queue'[i] = "check" => Stored'
                                                         /\ queue'[i] = "cleanUp" => status' = "over"
           /\ queue' = Append(queue, "cleanUp") /\ status = "over" =>
                  /\ queue' \in Seq(TaskNames)
                  /\ \A i \in 1 .. Len(queue') : /\ queue'[i] = "check" => Stored'
                                                 /\ queue'[i] = "cleanUp" => status' = "over"
<1>1. /\ queue \in Seq(TaskNames) /\ Len(queue) \in Nat /\ "cleanUp" \in TaskNames
      /\ \A i \in 1 .. Len(queue) : queue[i] \in TaskNames
      /\ Stored => Stored'
  BY DEF TypeOK, TaskNames, Stored
<1>2. ASSUME queue # <<>>
      PROVE  /\ Head(queue) = queue[1] /\ Len(queue) >= 1
             /\ Tail(queue) \in Seq(TaskNames) /\ Len(Tail(queue)) = Len(queue) - 1
             /\ \A i \in 1 .. (Len(queue) - 1) : Tail(queue)[i] = queue[i + 1]
  BY <1>1, <1>2
<1>3. ASSUME queue # <<>>, queue' \in {<<>>, queue, Tail(queue)}
      PROVE  /\ queue' \in Seq(TaskNames)
             /\ \A i \in 1 .. Len(queue') : /\ queue'[i] = "check" => Stored'
                                            /\ queue'[i] = "cleanUp" => status' = "over"
  <2>1. CASE queue' = <<>>
    BY <2>1
  <2>2. CASE queue' = queue
    BY <1>1, <2>2 DEF Ordered
  <2>3. CASE queue' = Tail(queue)
    BY <1>1, <1>2, <1>3, <2>3 DEF Ordered
  <2> QED
    BY <1>3, <2>1, <2>2, <2>3
<1>4. ASSUME NEW task \in TaskNames, queue # <<>>, queue' = <<task>> \o Tail(queue)
      PROVE  /\ queue' \in Seq(TaskNames)
             /\ (task = "check" => Stored') /\ task # "cleanUp" =>
                    \A i \in 1 .. Len(queue') : /\ queue'[i] = "check" => Stored'
                                                /\ queue'[i] = "cleanUp" => status' = "over"
  <2>1. /\ queue' \in Seq(TaskNames) /\ Len(queue') = Len(queue)
        /\ queue'[1] = task
        /\ \A i \in 2 .. Len(queue) : queue'[i] = queue[i]
    BY <1>1, <1>2, <1>4
  <2> QED
    BY <1>1, <2>1 DEF Ordered
<1>5. ASSUME queue' = Append(queue, "cleanUp"), status = "over"
      PROVE  /\ queue' \in Seq(TaskNames)
             /\ \A i \in 1 .. Len(queue') : /\ queue'[i] = "check" => Stored'
                                            /\ queue'[i] = "cleanUp" => status' = "over"
  BY <1>1, <1>5 DEF Stored
<1> QED
  BY <1>1, <1>2, <1>3, <1>4, <1>5 DEF Ordered

\* The steps of the queue, the end of the request and the block that shows it.
LEMMA TaskStep ==
    ASSUME IInv, End \/ SeeEnd \/ Tasks \/ RefuseMessage \/ CleanUpFails
    PROVE  IInv'
<1> USE DEF IInv
<1>1. CASE End
  <2>1. Stored' /\ status' = "over" /\ UNCHANGED <<signed, service, redis, queue, data, missed, failures, crashes>>
        /\ unseen' = TRUE
    BY <1>1 DEF End, Stored
  <2>2. TypeOK'
    BY <2>1 DEF TypeOK, service, redis, data
  <2>3. Ordered' /\ Followed'
    BY <2>1 DEF Ordered, Followed, redis, data
  <2> QED
    BY <2>1, <2>2, <2>3 DEF OnlySignedIsSent, DataCanStillCome, data
<1>2. CASE SeeEnd
  <2>1. /\ status = "over" /\ unseen' = FALSE /\ missed' \in BOOLEAN
        /\ UNCHANGED <<status, signed, service, redis, data, failures, crashes>>
    BY <1>2 DEF SeeEnd, Ordered, TypeOK
  <2>2. queue' = queue \/ queue' = Append(queue, "cleanUp")
    BY <1>2 DEF SeeEnd
  <2>3. /\ queue' \in Seq(TaskNames)
        /\ \A i \in 1 .. Len(queue') : /\ queue'[i] = "check" => Stored'
                                       /\ queue'[i] = "cleanUp" => status' = "over"
    <3>1. CASE queue' = queue
      BY <2>1, <3>1 DEF TypeOK, TaskNames, Stored
    <3>2. CASE queue' = Append(queue, "cleanUp")
      BY <2>1, <3>2, QueueKept DEF redis
    <3> QED
      BY <2>2, <3>1, <3>2
  <2>4. TypeOK'
    BY <2>1, <2>3 DEF TypeOK, TaskNames, service, redis, data
  <2>5. Ordered' /\ Followed'
    BY <2>1, <2>3 DEF Ordered, Followed, Stored, redis, data
  <2> QED
    BY <2>1, <2>4, <2>5 DEF OnlySignedIsSent, DataCanStillCome, redis, data
<1>3. CASE ReadRequest \/ RefuseMessage \/ CleanUpFails
  <2>1. /\ queue # <<>> /\ missed' \in BOOLEAN /\ failures' \in 0 .. MaxFailures
        /\ UNCHANGED <<chain, service, redis, data, crashes>>
    <3>1. CASE ReadRequest
      BY <3>1 DEF ReadRequest, At, TypeOK
    <3>2. CASE RefuseMessage
      BY <3>2, OfService DEF RefuseMessage, At, Fails, TypeOK
    <3>3. CASE CleanUpFails
      BY <3>3, OfService DEF CleanUpFails, At, Fails, TypeOK
    <3> QED
      BY <1>3, <3>1, <3>2, <3>3
  <2>2. queue' = Tail(queue) \/ queue' = <<"store">> \o Tail(queue)
    BY <1>3 DEF ReadRequest, RefuseMessage, CleanUpFails, Becomes
  <2>3. /\ queue' \in Seq(TaskNames)
        /\ \A i \in 1 .. Len(queue') : /\ queue'[i] = "check" => Stored'
                                       /\ queue'[i] = "cleanUp" => status' = "over"
    <3>1. status' = status /\ salt' = salt
      BY <2>1 DEF chain, redis
    <3>2. CASE queue' = Tail(queue)
      BY <2>1, <3>1, <3>2, QueueKept
    <3>3. CASE queue' = <<"store">> \o Tail(queue)
      <4>1. "store" \in TaskNames /\ "store" # "check" /\ "store" # "cleanUp"
        BY DEF TaskNames
      <4> QED
        BY <2>1, <3>1, <3>3, <4>1, QueueKept
    <3> QED
      BY <2>2, <3>2, <3>3
  <2>4. TypeOK'
    BY <2>1, <2>3 DEF TypeOK, TaskNames, chain, service, redis, data
  <2>5. Ordered' /\ Followed'
    BY <2>1, <2>3 DEF Ordered, Followed, Stored, chain, redis, data
  <2> QED
    BY <2>1, <2>4, <2>5 DEF OnlySignedIsSent, DataCanStillCome, chain, redis, data
<1>4. CASE StoreSalt
  <2>1. /\ queue # <<>> /\ salt' = TRUE /\ queue' = <<"check">> \o Tail(queue)
        /\ UNCHANGED <<chain, service, rpId, asking, asked, turnedDown, data, missed, failures,
                       crashes>>
    BY <1>4 DEF StoreSalt, At, Becomes
  <2>2. Stored'
    BY <2>1 DEF Stored
  <2>3. "check" \in TaskNames /\ "check" # "cleanUp" /\ status' = status
    BY <2>1 DEF TaskNames, chain
  <2>4. /\ queue' \in Seq(TaskNames)
        /\ \A i \in 1 .. Len(queue') : /\ queue'[i] = "check" => Stored'
                                       /\ queue'[i] = "cleanUp" => status' = "over"
    BY <2>1, <2>2, <2>3, QueueKept
  <2>5. TypeOK'
    BY <2>1, <2>4 DEF TypeOK, TaskNames, chain, service, data
  <2>6. Ordered' /\ Followed'
    BY <2>1, <2>2, <2>4 DEF Ordered, Followed, chain, data
  <2> QED
    BY <2>1, <2>5, <2>6 DEF OnlySignedIsSent, DataCanStillCome, chain, data
<1>5. CASE AskForData
  <2>1. /\ queue # <<>> /\ queue' = Tail(queue) /\ Head(queue) = "check"
        /\ rpId' = rpId \cup (Services \cap url) /\ asking' = asking \cup (Services \cap url)
        /\ asked' = asked \cup (Services \cap url)
        /\ UNCHANGED <<chain, service, salt, turnedDown, data, missed, failures, crashes>>
    BY <1>5 DEF AskForData, At
  <2>2. status' = status /\ salt' = salt
    BY <2>1 DEF chain
  <2>3. /\ queue' \in Seq(TaskNames) /\ Stored
        /\ \A i \in 1 .. Len(queue') : /\ queue'[i] = "check" => Stored'
                                       /\ queue'[i] = "cleanUp" => status' = "over"
    BY <2>1, <2>2, QueueKept
  <2>4. TypeOK'
    BY <2>1, <2>3 DEF TypeOK, TaskNames, chain, service, data
  <2>5. Ordered' /\ Followed'
    BY <2>1, <2>2, <2>3 DEF Ordered, Followed, Stored, chain, data
  <2>6. DataCanStillCome'
    BY <2>1 DEF DataCanStillCome, chain, TypeOK
  <2> QED
    BY <2>1, <2>4, <2>5, <2>6 DEF OnlySignedIsSent, chain, data
<1>6. CASE CleanUp
  <2>1. /\ queue # <<>> /\ queue' = Tail(queue) /\ Head(queue) = "cleanUp"
        /\ salt' = FALSE /\ rpId' = rpId \ Services
        /\ UNCHANGED <<chain, service, asking, asked, turnedDown, data, missed, failures, crashes>>
    BY <1>6 DEF CleanUp, At
  <2>2. status' = status
    BY <2>1 DEF chain
  <2>3. status = "over"
    <3>1. queue[1] = "cleanUp" /\ 1 \in 1 .. Len(queue)
      BY <2>1 DEF TypeOK
    <3> QED
      BY <3>1 DEF Ordered
  <2>4. /\ queue' \in Seq(TaskNames)
        /\ \A i \in 1 .. Len(queue') : /\ queue'[i] = "check" => Stored'
                                       /\ queue'[i] = "cleanUp" => status' = "over"
    BY <2>1, <2>2, <2>3, QueueKept
  <2>5. TypeOK'
    BY <2>1, <2>4 DEF TypeOK, TaskNames, chain, service, data
  <2>6. Ordered' /\ Followed'
    BY <2>1, <2>2, <2>3, <2>4 DEF Ordered, Followed, Stored, chain, data
  <2> QED
    BY <2>1, <2>2, <2>3, <2>5, <2>6 DEF OnlySignedIsSent, DataCanStillCome, chain, data
<1> QED
  BY <1>1, <1>2, <1>3, <1>4, <1>5, <1>6 DEF Tasks

\* The steps of a service: its registration and the answer of its callback.
LEMMA ServiceStep ==
    ASSUME IInv, NEW s \in Services,
           \/ Register(s) \/ RegisterResult(s) \/ StopAsking(s)
           \/ \E code \in {200, 204, 500} : Answer(s, code)
    PROVE  IInv'
<1> USE DEF IInv
<1>1. CASE Register(s) \/ RegisterResult(s)
  <2>1. /\ url' \subseteq Services /\ failures' \in 0 .. MaxFailures
        /\ registration' \in [Services -> {"none", "tx", "success", "failure"}]
        /\ UNCHANGED <<chain, redis, queue, data, missed, crashes>>
    BY <1>1, OfService DEF Register, RegisterResult, Registers, Fails, TypeOK
  <2>2. TypeOK'
    BY <2>1 DEF TypeOK, chain, redis, data
  <2>3. Ordered' /\ Followed'
    BY <2>1 DEF Ordered, Followed, Stored, chain, redis, data
  <2> QED
    BY <2>1, <2>2, <2>3 DEF OnlySignedIsSent, DataCanStillCome, chain, redis, data
<1>2. CASE StopAsking(s)
  <2>1. /\ asking' = asking \ {s}
        /\ UNCHANGED <<chain, service, salt, rpId, asked, turnedDown, queue, data, missed,
                       failures, crashes>>
    BY <1>2 DEF StopAsking
  <2>2. TypeOK'
    BY <2>1 DEF TypeOK, chain, service, data
  <2>3. Ordered' /\ Followed'
    BY <2>1 DEF Ordered, Followed, Stored, chain, data
  <2> QED
    BY <2>1, <2>2, <2>3 DEF OnlySignedIsSent, DataCanStillCome, chain, data
<1>3. ASSUME NEW code \in {200, 204, 500}, Answer(s, code) PROVE IInv'
  <2>1. /\ asking' \subseteq asking /\ turnedDown' \subseteq Services /\ turnedDown \subseteq turnedDown'
        /\ rpId' \subseteq rpId /\ \A t \in rpId \ rpId' : t \in turnedDown'
        /\ UNCHANGED <<chain, service, salt, asked, queue, salted, sent, told, missed, failures,
                       crashes>>
    BY <1>3 DEF Answer, TypeOK
  <2>2. step' = step \/ To(s, "read")
    BY <1>3 DEF Answer
  <2>3. step \in [Data -> Steps] /\ s \in Data /\ aside' \subseteq Data
    BY <1>3, OfService DEF Answer, TypeOK, Steps
  <2>4. step' \in [Data -> Steps]
    BY <2>2, <2>3 DEF To, Steps
  <2>5. TypeOK'
    BY <2>1, <2>3, <2>4 DEF TypeOK, Steps, chain, service
  <2>6. Followed'
    BY <2>1, <2>2, <2>3 DEF Followed, To, Stored, chain
  <2>7. Ordered'
    BY <2>1 DEF Ordered, Stored, chain
  <2>8. DataCanStillCome'
    BY <2>1 DEF DataCanStillCome, chain
  <2> QED
    BY <2>1, <2>5, <2>6, <2>7, <2>8 DEF OnlySignedIsSent, chain
<1> QED
  BY <1>1, <1>2, <1>3

\* What a step of data that changes only its step, what is told of it and the
\* counters leaves as it was.
LEMMA DataQuiet ==
    ASSUME IInv, NEW d \in Data, NEW next \in Steps, To(d, next),
           told' \in [Data -> SUBSET {"success", "failure", "error"}],
           \A c \in Data : "success" \in told'[c] => "success" \in told[c] \/ c \in sent',
           UNCHANGED <<status, unseen, service, redis, queue, aside, missed, crashes>>,
           failures' \in 0 .. MaxFailures,
           sent \subseteq sent', sent' \subseteq Data, salted \subseteq salted', salted' \subseteq Data,
           signed' \in [Services -> Data \cup {None}],
           \A t \in Services : signed[t] # None => signed'[t] = signed[t],
           \A c \in sent' : signed'[Of(c)] = c /\ c \in salted',
           next = "salt" => Stored,
           next = "tx" => d \in salted' \/ status = "over",
           next \in {"handler", "sent"} => signed'[Of(d)] = d /\ d \in salted',
           next = "sent" => d \in sent'
    PROVE  IInv'
<1> USE DEF IInv
<1>1. step \in [Data -> Steps] /\ step' \in [Data -> Steps] /\ step'[d] = next
      /\ \A c \in Data : c # d => step'[c] = step[c]
  BY DEF TypeOK, Steps, To
<1>2. TypeOK'
  BY <1>1 DEF TypeOK, Steps, service, redis
<1>3. Ordered'
  BY DEF Ordered, Stored, redis
<1>4. Followed'
  <2> SUFFICES ASSUME NEW c \in Data
               PROVE  /\ step'[c] = "salt" => Stored'
                      /\ step'[c] = "tx" => c \in salted' \/ status' = "over"
                      /\ step'[c] \in {"handler", "sent"} => signed'[Of(c)] = c /\ c \in salted'
                      /\ step'[c] = "sent" => c \in sent'
    BY DEF Followed
  <2>1. Stored' <=> Stored
    BY DEF Stored, redis
  <2>2. CASE c = d
    BY <1>1, <2>1, <2>2
  <2>3. CASE c # d
    <3>1. step'[c] = step[c] /\ Of(c) \in Services /\ c # None
      BY <1>1, <2>3, OfService
    <3> QED
      BY <2>1, <3>1 DEF Followed
  <2> QED
    BY <2>2, <2>3
<1>5. OnlySignedIsSent'
  BY DEF OnlySignedIsSent
<1>6. DataCanStillCome'
  BY DEF DataCanStillCome, TypeOK, redis
<1> QED
  BY <1>2, <1>3, <1>4, <1>5, <1>6

\* A step of data.
LEMMA DataStep ==
    ASSUME IInv, NEW d \in Data,
           SendData(d) \/ Processing(d) \/ LookUp(d, FALSE) \/ SendFails(d)
    PROVE  IInv'
<1> USE DEF IInv
<1>1. /\ Of(d) \in Services /\ d # None /\ failures \in 0 .. MaxFailures /\ MaxFailures \in Nat
      /\ told \in [Data -> SUBSET {"success", "failure", "error"}]
      /\ sent \subseteq Data /\ salted \subseteq Data /\ signed \in [Services -> Data \cup {None}]
      /\ \A c \in sent : signed[Of(c)] = c /\ c \in salted
      /\ \A c \in Data : "success" \in told[c] => c \in sent
  BY OfService DEF TypeOK, OnlySignedIsSent
<1>2. ASSUME NEW next \in {"read", "look", "salt", "refused"}, To(d, next),
             told' = told \/ Tell(d, "error"), next = "salt" => Stored,
             UNCHANGED <<chain, service, redis, queue, aside, salted, sent, missed, failures,
                         crashes>>
      PROVE  IInv'
  <2>1. told' \in [Data -> SUBSET {"success", "failure", "error"}]
        /\ \A c \in Data : "success" \in told'[c] => "success" \in told[c]
    BY <1>1, <1>2 DEF Tell
  <2>2. next \in Steps /\ next \notin {"tx", "handler", "sent"}
    BY DEF Steps
  <2> QED
    BY <1>1, <1>2, <2>1, <2>2, DataQuiet DEF chain
<1>3. CASE SendData(d)
  BY <1>2, <1>3 DEF SendData, Goes
<1>4. CASE ReadForData(d)
  BY <1>2, <1>4 DEF ReadForData, Refuse
<1>5. ASSUME NEW isValid \in BOOLEAN, LookUp(d, isValid) PROVE IInv'
  <2>1. PICK next \in {"salt", "refused"} :
            To(d, next) /\ (told' = told \/ Tell(d, "error")) /\ (next = "salt" => rpId # {})
    BY <1>5 DEF LookUp, Refuse
  <2>2. next = "salt" => Stored
    BY <2>1 DEF Ordered
  <2> QED
    BY <1>2, <1>5, <2>1, <2>2 DEF LookUp
<1>6. CASE Sign(d)
  <2>1. step[d] = "salt" /\ Stored /\ failures' \in 0 .. MaxFailures
        /\ UNCHANGED <<chain, service, redis, queue, aside, sent, missed, crashes>>
    BY <1>1, <1>6 DEF Sign, Goes, Followed, Fails
  <2>2. PICK next \in {"tx", "done"} :
            /\ To(d, next)
            /\ next = "tx" => salted' = (IF salt THEN salted \cup {d} ELSE salted) /\ told' = told
            /\ next = "done" => salted' = salted /\ (Tell(d, "error") \/ Tell(d, "failure"))
    BY <1>6 DEF Sign, Goes, TellError
  <2>3. told' \in [Data -> SUBSET {"success", "failure", "error"}]
        /\ \A c \in Data : "success" \in told'[c] => "success" \in told[c]
    BY <1>1, <2>2 DEF Tell
  <2>4. salted \subseteq salted' /\ salted' \subseteq Data
    BY <1>1, <2>2
  <2>5. next = "tx" => d \in salted' \/ status = "over"
    BY <2>1, <2>2 DEF Stored
  <2>6. next \in Steps /\ next \notin {"salt", "handler", "sent"}
    BY DEF Steps
  <2> QED
    BY <1>1, <2>1, <2>2, <2>3, <2>4, <2>5, <2>6, DataQuiet DEF chain
<1>7. CASE SignResult(d)
  <2>1. step[d] = "tx" /\ UNCHANGED <<status, unseen, service, redis, queue, aside, salted, sent,
                                       missed, failures, crashes>>
    BY <1>7 DEF SignResult, Goes
  <2>2. CASE status = "open" /\ signed[Of(d)] = None
    <3>1. /\ signed' = [signed EXCEPT ![Of(d)] = d] /\ To(d, "handler") /\ told' = told
          /\ d \in salted
      BY <1>7, <2>1, <2>2 DEF SignResult, Goes, Followed
    <3>2. /\ signed' \in [Services -> Data \cup {None}] /\ signed'[Of(d)] = d
          /\ \A t \in Services : signed[t] # None => signed'[t] = signed[t]
          /\ \A c \in sent : signed'[Of(c)] = c
      BY <1>1, <2>2, <3>1, OfService
    <3>3. "handler" \in Steps /\ "handler" \notin {"salt", "tx", "sent"}
      BY DEF Steps
    <3> QED
      BY <1>1, <2>1, <3>1, <3>2, <3>3, DataQuiet
  <2>3. CASE ~(status = "open" /\ signed[Of(d)] = None)
    <3>1. signed' = signed /\ To(d, "done") /\ (Tell(d, "error") \/ Tell(d, "failure"))
      BY <1>7, <2>3 DEF SignResult, Goes, TellError
    <3>2. told' \in [Data -> SUBSET {"success", "failure", "error"}]
          /\ \A c \in Data : "success" \in told'[c] => "success" \in told[c]
      BY <1>1, <3>1 DEF Tell
    <3>3. "done" \in Steps /\ "done" \notin {"salt", "tx", "handler", "sent"}
      BY DEF Steps
    <3> QED
      BY <1>1, <2>1, <3>1, <3>2, <3>3, DataQuiet
  <2> QED
    BY <2>2, <2>3
<1>8. CASE SignForNobody(d)
  <2>1. /\ To(d, "lost")
        /\ UNCHANGED <<status, unseen, service, redis, queue, aside, salted, sent, told, missed,
                       failures, crashes>>
    BY <1>8 DEF SignForNobody, Goes
  <2>2. \/ signed' = signed
        \/ signed[Of(d)] = None /\ signed' = [signed EXCEPT ![Of(d)] = d]
    BY <1>8 DEF SignForNobody
  <2>3. /\ signed' \in [Services -> Data \cup {None}]
        /\ \A t \in Services : signed[t] # None => signed'[t] = signed[t]
        /\ \A c \in sent : signed'[Of(c)] = c
    BY <1>1, <2>2, OfService
  <2>4. "lost" \in Steps /\ "lost" \notin {"salt", "tx", "handler", "sent"}
    BY DEF Steps
  <2> QED
    BY <1>1, <2>1, <2>3, <2>4, DataQuiet
<1>9. CASE Send(d)
  <2>1. /\ step[d] = "handler" /\ To(d, "sent") /\ sent' = sent \cup {d}
        /\ UNCHANGED <<chain, service, redis, queue, aside, salted, told, missed, failures, crashes>>
    BY <1>9 DEF Send, Goes
  <2>2. signed[Of(d)] = d /\ d \in salted
    BY <2>1 DEF Followed
  <2>3. "sent" \in Steps /\ "sent" \notin {"salt", "tx"}
    BY DEF Steps
  <2> QED
    BY <1>1, <2>1, <2>2, <2>3, DataQuiet DEF chain
<1>10. CASE SendFails(d)
  <2>1. /\ To(d, "done") /\ failures' \in 0 .. MaxFailures
        /\ Tell(d, "error") \/ Tell(d, "failure")
        /\ UNCHANGED <<chain, service, redis, queue, aside, salted, sent, missed, crashes>>
    BY <1>1, <1>10 DEF SendFails, Goes, Fails, TellError
  <2>2. told' \in [Data -> SUBSET {"success", "failure", "error"}]
        /\ \A c \in Data : "success" \in told'[c] => "success" \in told[c]
    BY <1>1, <2>1 DEF Tell
  <2>3. "done" \in Steps /\ "done" \notin {"salt", "tx", "handler", "sent"}
    BY DEF Steps
  <2> QED
    BY <1>1, <2>1, <2>2, <2>3, DataQuiet DEF chain
<1>11. CASE Finish(d)
  <2>1. /\ step[d] = "sent" /\ To(d, "done") /\ rpId' = rpId \ {Of(d)}
        /\ told' = told \/ Tell(d, "success")
        /\ UNCHANGED <<chain, service, salt, asking, asked, turnedDown, queue, aside, salted, sent,
                       missed, failures, crashes>>
    BY <1>11 DEF Finish, Goes
  <2>2. signed[Of(d)] = d /\ d \in sent
    BY <2>1 DEF Followed
  <2>3. told' \in [Data -> SUBSET {"success", "failure", "error"}]
        /\ \A c \in Data : "success" \in told'[c] => "success" \in told[c] \/ c = d
    BY <1>1, <2>1 DEF Tell
  <2>4. step \in [Data -> Steps] /\ step' \in [Data -> Steps] /\ step'[d] = "done"
        /\ \A c \in Data : c # d => step'[c] = step[c]
    BY <2>1 DEF TypeOK, Steps, To
  <2>5. TypeOK'
    BY <2>1, <2>3, <2>4 DEF TypeOK, Steps, chain, service
  <2>6. Ordered'
    BY <2>1 DEF Ordered, Stored, chain
  <2>7. Followed'
    BY <2>1, <2>4 DEF Followed, Stored, chain
  <2>8. OnlySignedIsSent'
    BY <2>1, <2>2, <2>3 DEF OnlySignedIsSent, chain
  <2>9. DataCanStillCome'
    BY <1>1, <2>1, <2>2 DEF DataCanStillCome, chain
  <2> QED
    BY <2>5, <2>6, <2>7, <2>8, <2>9
<1> QED
  BY <1>3, <1>4, <1>5, <1>6, <1>7, <1>8, <1>9, <1>10, <1>11 DEF Processing

\* A stop loses data, or leads it back to the result of its signature.
LEMMA CrashStep == ASSUME IInv, Crash PROVE IInv'
<1> USE DEF IInv
<1>1. step \in [Data -> Steps]
  BY DEF TypeOK, Steps
<1>2. \A d \in Data : AfterCrash(d) \in Steps
  BY <1>1 DEF AfterCrash, Steps
<1>3. step' \in [Data -> Steps] /\ \A d \in Data : step'[d] = AfterCrash(d)
  BY <1>1, <1>2 DEF Crash
<1>4. queue' = <<>> /\ queue' \in Seq(TaskNames) /\ Len(queue') = 0
  BY DEF Crash
<1>5. crashes' \in 0 .. MaxCrashes /\ missed' \in BOOLEAN
  BY OfService DEF Crash, TypeOK
<1>6. UNCHANGED <<status, signed, unseen, url, registration, salt, rpId, asking, asked, turnedDown,
                  aside, salted, sent, told, failures>>
  BY DEF Crash, chain, service, redis
<1>7. TypeOK'
  BY <1>3, <1>4, <1>5, <1>6 DEF TypeOK, TaskNames, Steps
<1>8. Ordered'
  BY <1>4, <1>6 DEF Ordered, Stored
<1>9. \A d \in Data : /\ step'[d] \in {"tx", "salt"} => step'[d] = step[d]
                      /\ step'[d] = "handler" => step[d] \in {"handler", "sent"}
                      /\ step'[d] # "sent"
  BY <1>1, <1>3 DEF AfterCrash, Steps
<1>10. Followed'
  BY <1>6, <1>9 DEF Followed, Stored
<1> QED
  BY <1>6, <1>7, <1>8, <1>10 DEF OnlySignedIsSent, DataCanStillCome

-----------------------------------------------------------------------------
(* The theorems.                                                           *)

\* The strengthening holds in every state of the specification.
THEOREM Invariant == Spec => []IInv
<1>1. IInv /\ [Next]_vars => IInv'
  <2> SUFFICES ASSUME IInv, [Next]_vars PROVE IInv'
    OBVIOUS
  <2>1. CASE UNCHANGED vars
    BY <2>1 DEF vars, chain, service, redis, data, IInv, TypeOK, Ordered, Stored, Followed,
                OnlySignedIsSent, DataCanStillCome
  <2> QED
    BY <2>1, TaskStep, ServiceStep, DataStep, CrashStep DEF Next
<1> QED
  BY InitIInv, <1>1, PTL DEF Spec

\* The variables keep their types.
THEOREM TypeCorrect == Spec => []TypeOK
  BY Invariant, PTL DEF IInv

\* For any number of services and calls that race with each other, with the end of
\* the request and with stops of the process, the RP gets the data that is signed on
\* the chain, salted, and no other (processDataForRPInternalAsync()).
THEOREM OnlySigned == Spec => []OnlySignedIsSent
  BY Invariant, PTL DEF IInv

\* While the request is open and its data not signed, a data request that was asked
\* for stays known unless the client turned it down (afterGotDataFromCallback()).
THEOREM DataComes == Spec => []DataCanStillCome
  BY Invariant, PTL DEF IInv

-----------------------------------------------------------------------------
(* The IdP: the module IdpNode.                                            *)

\* The steps of an answer after its transaction.
Handled ==
    \A a \in Answers :
        /\ step[a] \in {"handler", "sent"} => recorded = a
        /\ step[a] = "sent" => a \in sent
        /\ step[a] # "done" => told[a] = {}

\* A task is about a block that exists.
Placed == \A i \in 1 .. Len(queue) : queue[i].height \in 0 .. Len(blocks)

IdpSteps == {"none", "look", "refused", "internal", "tx", "handler", "sent", "done", "lost"}

IdpIInv == IdpTypeOK /\ Placed /\ Handled /\ OnlyRecordedIsSent

-----------------------------------------------------------------------------
(* Types.                                                                  *)

\* What Init establishes.
LEMMA IdpInitIInv ==
    IdpInit => IdpIInv
<1> SUFFICES ASSUME IdpInit PROVE IdpIInv
  OBVIOUS
<1>1. queue \in Seq(Task)
  BY DEF IdpInit, Task
<1>2. blocks \in Seq(Kinds) /\ unseen \subseteq 1 .. Len(blocks) /\ shown \subseteq 1 .. Len(blocks)
  BY DEF IdpInit
<1>3. /\ status \in {"open"} \cup Ends /\ recorded \in Answers \cup {None}
      /\ valid \in BOOLEAN /\ stored \in BOOLEAN /\ missed \in BOOLEAN
      /\ sent \subseteq Answers /\ given \subseteq {"incoming", "error"}
  BY DEF IdpInit
<1>4. /\ step \in [Answers -> {"none", "look", "refused", "internal", "tx", "handler", "sent",
                               "done", "lost"}]
      /\ told \in [Answers -> SUBSET {"success", "failure"}]
  BY DEF IdpInit
<1>5. failures \in 0 .. MaxFailures /\ crashes \in 0 .. MaxCrashes
  BY IdpAssumption DEF IdpInit
<1>6. IdpTypeOK
  BY <1>1, <1>2, <1>3, <1>4, <1>5, Zenon DEF IdpTypeOK
<1>7. Placed
  BY DEF IdpInit, Placed, MessageTask
<1> QED
  BY <1>6, <1>7, IdpAssumption DEF IdpInit, IdpIInv, Handled, OnlyRecordedIsSent

\* A block more: the heights that were known stay heights.
LEMMA BlockAdded ==
    ASSUME blocks \in Seq(Kinds), NEW kind \in Kinds, NewBlock(kind),
           unseen \subseteq 1 .. Len(blocks), shown \subseteq 1 .. Len(blocks), shown' = shown
    PROVE  /\ blocks' \in Seq(Kinds) /\ Len(blocks) <= Len(blocks')
           /\ unseen' \subseteq 1 .. Len(blocks') /\ shown' \subseteq 1 .. Len(blocks')
<1>1. blocks' = Append(blocks, kind) /\ unseen' = unseen \cup {Len(blocks) + 1}
  BY DEF NewBlock
<1>2. Len(blocks') = Len(blocks) + 1 /\ blocks' \in Seq(Kinds) /\ Len(blocks) \in Nat
  BY <1>1
<1>3. \A n \in Nat : \A s : s \subseteq 1 .. n =>
          s \subseteq 1 .. (n + 1) /\ s \cup {n + 1} \subseteq 1 .. (n + 1)
  OBVIOUS
<1>4. unseen \cup {Len(blocks) + 1} \subseteq 1 .. (Len(blocks) + 1)
      /\ shown \subseteq 1 .. (Len(blocks) + 1)
  BY <1>2, <1>3
<1>5. Len(blocks) <= Len(blocks')
  BY <1>2
<1>6. unseen' \subseteq 1 .. Len(blocks') /\ shown' \subseteq 1 .. Len(blocks')
  BY <1>1, <1>2, <1>4, Zenon
<1> QED
  BY <1>2, <1>5, <1>6

\* The first task is of the type, and so is the queue when it is gone or has become
\* another task; what is left is still about blocks that exist.
LEMMA QueueTypes ==
    ASSUME queue \in Seq(Task), queue # <<>>, Placed, blocks \in Seq(Kinds)
    PROVE  /\ Head(queue) \in Task /\ Head(queue).height \in 0 .. Len(blocks)
           /\ Tail(queue) \in Seq(Task)
           /\ queue' = Tail(queue) /\ blocks' = blocks => Placed'
           /\ \A task \in Task :
                  /\ <<task>> \o Tail(queue) \in Seq(Task)
                  /\ queue' = <<task>> \o Tail(queue) /\ blocks' = blocks /\ task.height = 0
                         => Placed'
<1>1. /\ Head(queue) = queue[1] /\ Len(queue) \in Nat /\ Len(queue) >= 1 /\ Len(blocks) \in Nat
      /\ Tail(queue) \in Seq(Task) /\ Len(Tail(queue)) = Len(queue) - 1
      /\ \A i \in 1 .. (Len(queue) - 1) : Tail(queue)[i] = queue[i + 1]
  OBVIOUS
<1>2. Head(queue) \in Task /\ Head(queue).height \in 0 .. Len(blocks)
  BY <1>1 DEF Placed
<1>3. ASSUME queue' = Tail(queue), blocks' = blocks PROVE Placed'
  BY <1>1, <1>3 DEF Placed
<1>4. ASSUME NEW task \in Task
      PROVE  /\ <<task>> \o Tail(queue) \in Seq(Task)
             /\ queue' = <<task>> \o Tail(queue) /\ blocks' = blocks /\ task.height = 0
                    => Placed'
  <2>1. /\ <<task>> \o Tail(queue) \in Seq(Task)
        /\ Len(<<task>> \o Tail(queue)) = Len(queue)
        /\ (<<task>> \o Tail(queue))[1] = task
        /\ \A i \in 2 .. Len(queue) : (<<task>> \o Tail(queue))[i] = queue[i]
    BY <1>1
  <2> QED
    BY <1>1, <2>1 DEF Placed
<1> QED
  BY <1>1, <1>2, <1>3, <1>4

-----------------------------------------------------------------------------
(* Steps.                                                                  *)

\* The tasks and blocks change nothing about the answers.
LEMMA QueueStep ==
    ASSUME IdpTypeOK, Placed,
           IdpTasks \/ TaskFails \/ \E h \in unseen : SeeBlock(h)
    PROVE  IdpTypeOK' /\ Placed' /\ UNCHANGED <<recorded, step, sent, told>>
<1> USE DEF IdpTypeOK
<1>1. CASE ReadIncoming
  <2>1. MessageTask("store") \in Task /\ MessageTask("store").height = 0
    BY DEF MessageTask, Task
  <2>2. queue' \in Seq(Task) /\ Placed'
    <3>1. /\ queue' = Tail(queue) \/ queue' = <<MessageTask("store")>> \o Tail(queue)
          /\ queue # <<>> /\ blocks' = blocks
      BY <1>1 DEF ReadIncoming, At, Becomes, idpChain
    <3>2. queue \in Seq(Task) /\ blocks \in Seq(Kinds)
      OBVIOUS
    <3> HIDE DEF IdpTypeOK
    <3>3. CASE queue' = Tail(queue)
      BY <3>1, <3>2, <3>3, QueueTypes
    <3>4. CASE queue' = <<MessageTask("store")>> \o Tail(queue)
      BY <2>1, <3>1, <3>2, <3>4, QueueTypes
    <3> QED BY <3>1, <3>3, <3>4
  <2> QED
    BY <1>1, <2>2 DEF ReadIncoming, idpChain, client, callbacks
<1>2. CASE StoreRequest
  <2>1. MessageTask("check") \in Task /\ MessageTask("check").height = 0
    BY DEF MessageTask, Task
  <2>2. queue' \in Seq(Task) /\ Placed'
    BY <1>2, <2>1, QueueTypes DEF StoreRequest, At, Becomes, idpChain
  <2> QED
    BY <1>2, <2>2 DEF StoreRequest, idpChain, client, callbacks
<1>3. CASE CheckRequest
  <2>1. queue' \in Seq(Task) /\ Placed'
    BY <1>3, QueueTypes DEF CheckRequest, At, idpChain
  <2> QED
    BY <1>3, <2>1 DEF CheckRequest, idpChain, client
<1>4. CASE Update
  <2>1. queue' \in Seq(Task) /\ Placed' /\ Head(queue).height \in 1 .. Len(blocks)
    BY <1>4, QueueTypes DEF Update, idpChain
  <2> QED
    BY <1>4, <2>1 DEF Update, idpChain, client
<1>5. CASE TaskFails
  <2>1. queue' \in Seq(Task) /\ Placed'
    BY <1>5, QueueTypes DEF TaskFails, idpChain
  <2> QED
    BY <1>5, <2>1, IdpAssumption DEF TaskFails, Fails, idpChain, client
<1>6. ASSUME NEW h \in unseen, SeeBlock(h)
      PROVE  IdpTypeOK' /\ Placed' /\ UNCHANGED <<recorded, step, sent, told>>
  <2>1. UpdateTask(h) \in Task /\ UpdateTask(h).height = h
    BY DEF UpdateTask, Task
  <2>2. CASE stored
    <3>1. queue' = Append(queue, UpdateTask(h))
      BY <1>6, <2>2 DEF SeeBlock
    <3>2. queue' \in Seq(Task) /\ Len(queue') = Len(queue) + 1
      BY <2>1, <3>1
    <3>3. \A i \in 1 .. Len(queue') : queue'[i] = IF i = Len(queue) + 1 THEN UpdateTask(h) ELSE queue[i]
      BY <3>1, <3>2
    <3> QED
      BY <1>6, <2>1, <3>2, <3>3 DEF SeeBlock, idpChain, client, callbacks, Placed
  <2>3. CASE ~stored
    BY <1>6, <2>3 DEF SeeBlock, idpChain, client, callbacks, Placed
  <2> QED
    BY <2>2, <2>3
<1> QED
  BY <1>1, <1>2, <1>3, <1>4, <1>5, <1>6 DEF IdpTasks

\* What an answer's step leaves alone keeps its type.
LEMMA AnswerTypes ==
    ASSUME IdpTypeOK, Placed, NEW a \in Answers, NEW next \in IdpSteps,
           To(a, next), told' \in [Answers -> SUBSET {"success", "failure"}],
           sent' \subseteq Answers, recorded' \in Answers \cup {None},
           failures' \in 0 .. MaxFailures,
           UNCHANGED <<status, valid, stored, queue, callbacks, missed, crashes>>,
           UNCHANGED <<blocks, unseen>> \/ NewBlock("response")
    PROVE  IdpTypeOK' /\ Placed'
<1>1. step' \in [Answers -> IdpSteps]
  BY DEF To, IdpTypeOK, IdpSteps
<1>2. /\ blocks' \in Seq(Kinds) /\ Len(blocks) <= Len(blocks')
      /\ unseen' \subseteq 1 .. Len(blocks') /\ shown' \subseteq 1 .. Len(blocks')
  <2>0. /\ blocks \in Seq(Kinds) /\ Len(blocks) \in Nat /\ shown' = shown
        /\ unseen \subseteq 1 .. Len(blocks) /\ shown \subseteq 1 .. Len(blocks)
    BY DEF IdpTypeOK, callbacks
  <2>1. CASE UNCHANGED <<blocks, unseen>>
    BY <2>0, <2>1
  <2>2. CASE NewBlock("response")
    <3>1. "response" \in Kinds
      BY DEF Kinds
    <3> QED
      BY <2>0, <2>2, <3>1, BlockAdded, Zenon
  <2> QED
    BY <2>1, <2>2
<1>3. Placed'
  BY <1>2, SMTT(20) DEF Placed, IdpTypeOK
<1> QED
  BY <1>1, <1>2, <1>3 DEF IdpTypeOK, IdpSteps, callbacks

\* A step of one answer.
LEMMA AnswerStep ==
    ASSUME IdpIInv, NEW a \in Answers,
           CreateResponse(a) \/ Answering(a) \/ ResponseFails(a)
    PROVE  IdpIInv'
<1> USE DEF IdpIInv
<1>1. /\ step \in [Answers -> IdpSteps] /\ told \in [Answers -> SUBSET {"success", "failure"}]
      /\ failures \in 0 .. MaxFailures /\ sent \subseteq Answers
      /\ recorded \in Answers \cup {None}
  BY DEF IdpTypeOK, IdpSteps
<1>2. None \notin Answers /\ MaxFailures \in Nat
  BY IdpAssumption
<1>3. CASE CreateResponse(a) \/ LookUpRequest(a)
  <2>1. PICK next \in {"look", "internal", "refused"} : To(a, next)
    BY <1>3 DEF CreateResponse, LookUpRequest, Goes
  <2>2. UNCHANGED <<idpChain, unseen, valid, stored, queue, client, callbacks, missed, failures, crashes>>
    BY <1>3 DEF CreateResponse, LookUpRequest
  <2>3. IdpTypeOK' /\ Placed'
    BY <1>1, <2>1, <2>2, AnswerTypes DEF IdpSteps, idpChain, client
  <2>4. step[a] # "done"
    BY <1>3 DEF CreateResponse, LookUpRequest, Goes
  <2> QED
    BY <1>1, <2>1, <2>2, <2>3, <2>4 DEF To, Handled, OnlyRecordedIsSent, idpChain,
       client
<1>4. CASE Internal(a)
  <2>1. PICK next \in {"tx", "done"} : To(a, next) /\ (next = "done" => Tell(a, "failure"))
                                       /\ (next = "tx" => UNCHANGED told)
    BY <1>4 DEF Internal, Goes
  <2>2. step[a] = "internal" /\ told[a] = {} /\ failures' \in 0 .. MaxFailures
    BY <1>1, <1>2, <1>4 DEF Internal, Goes, Handled, Fails
  <2>3. UNCHANGED <<idpChain, unseen, valid, stored, queue, sent, callbacks, missed, crashes>>
    BY <1>4 DEF Internal
  <2>4. told' \in [Answers -> SUBSET {"success", "failure"}]
    BY <1>1, <2>1 DEF Tell
  <2>5. IdpTypeOK' /\ Placed'
    BY <1>1, <2>1, <2>2, <2>3, <2>4, AnswerTypes DEF IdpSteps, idpChain
  <2> QED
    BY <1>1, <2>1, <2>2, <2>3, <2>5 DEF To, Tell, Handled, OnlyRecordedIsSent,
       idpChain
<1>5. CASE TxResult(a)
  <2>1. UNCHANGED <<status, valid, stored, queue, sent, callbacks, missed, failures, crashes>>
        /\ step[a] = "tx" /\ told[a] = {}
    BY <1>1, <1>5 DEF TxResult, Goes, Handled
  <2>2. CASE status = "open" /\ recorded = None
    <3>1. /\ recorded' = a /\ NewBlock("response") /\ To(a, "handler") /\ UNCHANGED told
      BY <1>5, <2>2 DEF TxResult, Goes
    <3>2. IdpTypeOK' /\ Placed'
      BY <1>1, <2>1, <3>1, AnswerTypes DEF IdpSteps
    <3> QED
      BY <1>1, <1>2, <2>1, <2>2, <3>1, <3>2 DEF To, Handled, OnlyRecordedIsSent
  <2>3. CASE ~(status = "open" /\ recorded = None)
    <3>1. To(a, "done") /\ Tell(a, "failure") /\ UNCHANGED <<recorded, blocks, unseen>>
      BY <1>5, <2>3 DEF TxResult, Goes
    <3>2. told' \in [Answers -> SUBSET {"success", "failure"}]
      BY <1>1, <3>1 DEF Tell
    <3>3. IdpTypeOK' /\ Placed'
      BY <1>1, <2>1, <3>1, <3>2, AnswerTypes DEF IdpSteps
    <3> QED
      BY <1>1, <2>1, <3>1, <3>3 DEF To, Tell, Handled, OnlyRecordedIsSent
  <2> QED
    BY <2>2, <2>3
<1>6. CASE SendResponse(a)
  <2>1. /\ To(a, "sent") /\ step[a] = "handler" /\ sent' = sent \cup {a}
        /\ UNCHANGED <<idpChain, unseen, valid, stored, queue, told, callbacks, missed, failures, crashes>>
    BY <1>6 DEF SendResponse, Goes
  <2>2. IdpTypeOK' /\ Placed'
    BY <1>1, <2>1, AnswerTypes DEF IdpSteps, idpChain
  <2> QED
    BY <1>1, <2>1, <2>2 DEF To, Handled, OnlyRecordedIsSent, idpChain
<1>7. CASE ResponseFails(a)
  <2>1. /\ To(a, "done") /\ step[a] = "handler" /\ Tell(a, "failure")
        /\ failures' \in 0 .. MaxFailures
        /\ UNCHANGED <<idpChain, unseen, valid, stored, queue, sent, callbacks, missed, crashes>>
    BY <1>1, <1>2, <1>7 DEF ResponseFails, Goes, Fails
  <2>2. told' \in [Answers -> SUBSET {"success", "failure"}]
    BY <1>1, <2>1 DEF Tell
  <2>3. IdpTypeOK' /\ Placed'
    BY <1>1, <2>1, <2>2, AnswerTypes DEF IdpSteps, idpChain
  <2> QED
    BY <1>1, <2>1, <2>3 DEF To, Tell, Handled, OnlyRecordedIsSent, idpChain
<1>8. CASE ReportResponse(a)
  <2>1. /\ To(a, "done") /\ step[a] = "sent" /\ Tell(a, "success")
        /\ UNCHANGED <<idpChain, unseen, valid, stored, queue, sent, callbacks, missed, failures, crashes>>
    BY <1>8 DEF ReportResponse, Goes
  <2>2. told' \in [Answers -> SUBSET {"success", "failure"}]
    BY <1>1, <2>1 DEF Tell
  <2>3. IdpTypeOK' /\ Placed'
    BY <1>1, <2>1, <2>2, AnswerTypes DEF IdpSteps, idpChain
  <2> QED
    BY <1>1, <2>1, <2>3 DEF To, Tell, Handled, OnlyRecordedIsSent, idpChain
<1> QED
  BY <1>3, <1>4, <1>5, <1>6, <1>7, <1>8 DEF Answering

\* A stop loses an answer, or leads it back to the result of its transaction.
LEMMA IdpCrashStep == ASSUME IdpIInv, IdpCrash PROVE IdpIInv'
<1> USE DEF IdpIInv
<1>1. step \in [Answers -> IdpSteps]
  BY DEF IdpTypeOK, IdpSteps
<1>2. \A at \in IdpSteps : AnswerAfterCrash(at) \in IdpSteps
  BY DEF AnswerAfterCrash, IdpSteps
<1>3. step' \in [Answers -> IdpSteps] /\ \A a \in Answers : step'[a] = AnswerAfterCrash(step[a])
  BY <1>1, <1>2 DEF IdpCrash
<1>4. queue' = <<>> /\ queue' \in Seq(Task) /\ Len(queue') = 0
  BY DEF IdpCrash
<1>5. crashes' \in 0 .. MaxCrashes /\ missed' \in BOOLEAN
  BY IdpAssumption DEF IdpCrash, IdpTypeOK
<1>6. UNCHANGED <<status, recorded, blocks, unseen, valid, stored, sent, told, given, shown, failures>>
  BY DEF IdpCrash, idpChain, client, callbacks
<1>7. IdpTypeOK'
  BY <1>3, <1>4, <1>5, <1>6 DEF IdpTypeOK, IdpSteps
<1>8. Placed'
  BY <1>4 DEF Placed
<1>9. Handled' /\ OnlyRecordedIsSent'
  BY <1>1, <1>3, <1>6 DEF Handled, OnlyRecordedIsSent, AnswerAfterCrash, IdpSteps
<1> QED
  BY <1>7, <1>8, <1>9

\* The end of the request changes nothing about the answers.
LEMMA EndStep == ASSUME IdpIInv, NEW kind \in Ends, EndRequest(kind) PROVE IdpIInv'
<1> USE DEF IdpIInv
<1>1. /\ blocks' \in Seq(Kinds) /\ Len(blocks) <= Len(blocks')
      /\ unseen' \subseteq 1 .. Len(blocks') /\ shown' \subseteq 1 .. Len(blocks')
  <2>1. /\ blocks \in Seq(Kinds) /\ shown' = shown
        /\ unseen \subseteq 1 .. Len(blocks) /\ shown \subseteq 1 .. Len(blocks)
    BY DEF EndRequest, IdpTypeOK, callbacks
  <2>2. kind \in Kinds /\ NewBlock(kind)
    BY DEF EndRequest, Kinds, Ends
  <2> QED
    BY <2>1, <2>2, BlockAdded, Zenon
<1>2. UNCHANGED <<recorded, valid, stored, queue, step, sent, told, given, missed, failures, crashes>>
      /\ status' = kind
  BY DEF EndRequest, client, callbacks
<1>3. IdpTypeOK'
  BY <1>1, <1>2 DEF IdpTypeOK
<1>4. Placed'
  BY <1>1, <1>2, SMTT(20) DEF Placed, IdpTypeOK
<1>5. Handled' /\ OnlyRecordedIsSent'
  BY <1>2 DEF Handled, OnlyRecordedIsSent
<1> QED
  BY <1>3, <1>4, <1>5

-----------------------------------------------------------------------------
(* The theorems.                                                           *)

\* The strengthening holds in every state of the specification.
THEOREM IdpInvariant ==
    IdpSpec => []IdpIInv
<1>1. IdpIInv /\ [IdpNext]_idpVars => IdpIInv'
  <2> SUFFICES ASSUME IdpIInv, [IdpNext]_idpVars PROVE IdpIInv'
    OBVIOUS
  <2>1. CASE UNCHANGED idpVars
    BY <2>1 DEF idpVars, idpChain, client, callbacks, IdpIInv, IdpTypeOK, Placed,
       Handled, OnlyRecordedIsSent
  <2>2. CASE IdpTasks \/ TaskFails \/ \E h \in unseen : SeeBlock(h)
    BY <2>2, QueueStep DEF IdpIInv, Handled, OnlyRecordedIsSent
  <2> QED
    BY <2>1, <2>2, AnswerStep, IdpCrashStep, EndStep DEF IdpNext
<1> QED
  BY IdpInitIInv, <1>1, PTL DEF IdpSpec

\* The variables keep their types: a task and a status shown to the client are
\* about a block that exists.
THEOREM IdpTypeCorrect ==
    IdpSpec => []IdpTypeOK
  BY IdpInvariant, PTL DEF IdpIInv

\* For any number of answers that race with each other, with the end of the
\* request and with stops of the process, the RP gets the one on the chain, and
\* the client is told the truth about each.
THEOREM OnlyTheRecordedAnswer ==
    IdpSpec => []OnlyRecordedIsSent
  BY IdpInvariant, PTL DEF IdpIInv

=============================================================================
