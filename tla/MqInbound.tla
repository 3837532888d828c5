----------------------------- MODULE MqInbound ------------------------------
(***************************************************************************)
(* Messages on their way from another node into this one: mq/index.js of   *)
(* the receiver.  onMessage() ignores copies of a message it has seen,     *)
(* saves the raw message, acknowledges it, and decrypts and checks it now  *)
(* or, while Tendermint is not ready, later; then the message is handed to *)
(* the handler of the node's role (module BlockWait).  Modelled with it:   *)
(* the sender, which repeats a message until it is acknowledged or it      *)
(* gives up (module MqSend has its inside), a network that loses copies    *)
(* and acknowledgements, outages of Tendermint, failing writes to Redis,   *)
(* crashes and restarts.                                                   *)
(***************************************************************************)
EXTENDS Integers, FiniteSets

CONSTANTS
    Incoming,       \* messages to this node, by their IDs
    MaxSends,       \* copies of a message the sender sends before it gives up
    MaxLosses,      \* bound: copies and acknowledgements lost
    MaxFailures,    \* bound: writes to Redis that fail
    MaxOutages,     \* bound: outages of Tendermint
    MaxCrashes      \* bound: crashes

ASSUME InboundAssumption ==
    /\ MaxSends \in Nat \ {0}
    /\ {MaxLosses, MaxFailures, MaxOutages, MaxCrashes} \subseteq Nat

VARIABLES
    \* The sender and the network
    invalid,    \* messages that cannot be decrypted or whose check fails
    sends,      \* copies sent so far
    outcome,    \* "open", "acked" or "timeout"
    copies,     \* messages with a copy on its way
    acksOnWay,  \* messages with an acknowledgement on its way
    \* This process
    start,      \* "down" until it subscribes, "subscribed", "reading" the backlog, "done"
    backlog,    \* what loadAndProcessBacklogMessages() has read
    timers,     \* messages whose copies are ignored
    saving,     \* messages being written to Redis
    processing, \* runs of processRawMessage() under way
    removing,   \* raw messages being removed from Redis
    toRetry,    \* rawMessagesToRetry
    handed,     \* calls of the message handler
    early,      \* messages that came before the backlog was processed, or in it
    ready,      \* Tendermint is connected and synced
    \* Redis
    raw,        \* raw messages
    dups,       \* times until which copies are ignored
    \* What has happened so far
    saved,      \* how often a message was saved
    given,      \* messages handed to the handler
    discarded,  \* messages that processRawMessage() threw away
    losses, failures, outages, crashes

sender == <<invalid, sends, outcome>>
onWay == <<copies, acksOnWay>>
startup == <<start, backlog, early>>
memory == <<timers, saving, processing, removing, toRetry, handed>>
redis == <<raw, dups>>
history == <<saved, given, discarded>>
bounds == <<losses, failures, outages, crashes>>
inboundVars == <<sender, onWay, startup, memory, ready, redis, history, bounds>>

Zero == [m \in Incoming |-> 0]

InboundInit ==
    /\ invalid \in SUBSET Incoming
    /\ sends = Zero /\ outcome = [m \in Incoming |-> "open"]
    /\ copies = {} /\ acksOnWay = {}
    /\ start = "down" /\ backlog = {} /\ early = {}
    /\ timers = {} /\ saving = {} /\ removing = {} /\ toRetry = {}
    /\ processing = Zero /\ handed = Zero
    /\ ready = TRUE
    /\ raw = {} /\ dups = {}
    /\ saved = Zero /\ given = {} /\ discarded = {}
    /\ losses = 0 /\ failures = 0 /\ outages = 0 /\ crashes = 0

-----------------------------------------------------------------------------
(* The sender and the network.                                             *)

Send(m) ==
    /\ outcome[m] = "open" /\ sends[m] < MaxSends /\ m \notin copies
    /\ sends' = [sends EXCEPT ![m] = @ + 1]
    /\ copies' = copies \cup {m}
    /\ UNCHANGED <<invalid, outcome, acksOnWay, startup, memory, ready, redis, history, bounds>>

\* A minute after the last copy: what is on its way by then has arrived.
GiveUp(m) ==
    /\ outcome[m] = "open" /\ sends[m] = MaxSends
    /\ m \notin copies \cup saving \cup acksOnWay
    /\ outcome' = [outcome EXCEPT ![m] = "timeout"]
    /\ UNCHANGED <<invalid, sends, onWay, startup, memory, ready, redis, history, bounds>>

AckArrives(m) ==
    /\ m \in acksOnWay
    /\ acksOnWay' = acksOnWay \ {m}
    /\ outcome' = [outcome EXCEPT ![m] = IF @ = "open" THEN "acked" ELSE @]
    /\ UNCHANGED <<invalid, sends, copies, startup, memory, ready, redis, history, bounds>>

\* A copy or an acknowledgement is lost, or nobody has subscribed to the copy.
Lose(m) ==
    /\ m \in copies \cup acksOnWay
    /\ \/ losses < MaxLosses /\ losses' = losses + 1
       \/ start = "down" /\ m \in copies /\ UNCHANGED losses
    /\ IF m \in copies THEN copies' = copies \ {m} /\ UNCHANGED acksOnWay
                       ELSE acksOnWay' = acksOnWay \ {m} /\ UNCHANGED copies
    /\ UNCHANGED <<sender, startup, memory, ready, redis, history, failures, outages, crashes>>

-----------------------------------------------------------------------------
(* onMessage()                                                             *)

\* Mutant: every copy is processed.
ArriveAnyway(m) ==
    /\ start # "down"
    /\ m \in copies
    /\ copies' = copies \ {m}
    /\ timers' = timers \cup {m}
    /\ dups' = dups \cup {m}
    /\ saving' = saving \cup {m}
    /\ early' = IF start = "done" THEN early ELSE early \cup {m}
    /\ UNCHANGED <<sender, acksOnWay, start, backlog, processing, removing, toRetry, handed, ready,
                   raw, history, bounds>>

\* A copy of a message that was seen is ignored; else it is saved.
Arrive(m) ==
    /\ start # "down"
    /\ m \in copies
    /\ copies' = copies \ {m}
    /\ IF m \in timers THEN UNCHANGED <<timers, dups, saving, early>>
       ELSE /\ timers' = timers \cup {m}
            /\ dups' = dups \cup {m}
            /\ saving' = saving \cup {m}
            /\ early' = IF start = "done" THEN early ELSE early \cup {m}
    /\ UNCHANGED <<sender, acksOnWay, start, backlog, processing, removing, toRetry, handed, ready,
                   raw, history, bounds>>

\* Mutant: the acknowledgement does not wait for Redis.
SavedAckFirst(m) ==
    /\ m \in saving
    /\ m \notin acksOnWay
    /\ acksOnWay' = acksOnWay \cup {m}
    /\ UNCHANGED <<sender, copies, startup, memory, ready, redis, history, bounds>>

\* The message is in Redis: acknowledge it, and process it now or later.
Saved(m) ==
    /\ m \in saving
    /\ saving' = saving \ {m}
    /\ raw' = raw \cup {m}
    /\ saved' = [saved EXCEPT ![m] = @ + 1]
    /\ acksOnWay' = acksOnWay \cup {m}
    /\ IF ready THEN /\ processing' = [processing EXCEPT ![m] = @ + 1]
                     /\ UNCHANGED toRetry
                ELSE /\ toRetry' = toRetry \cup {m}
                     /\ UNCHANGED processing
    /\ UNCHANGED <<sender, copies, startup, timers, removing, handed, ready, dups, given,
                   discarded, bounds>>

\* Redis refuses: an error callback, no acknowledgement, and the timer stays.
SaveFails(m) ==
    /\ failures < MaxFailures
    /\ failures' = failures + 1
    /\ m \in saving
    /\ saving' = saving \ {m}
    /\ UNCHANGED <<sender, onWay, startup, timers, processing, removing, toRetry, handed, ready,
                   redis, history, losses, outages, crashes>>

\* After ten minutes, when the sender has given up or succeeded long ago.
TimerExpires(m) ==
    /\ m \in timers
    /\ outcome[m] # "open" /\ m \notin copies \cup saving
    /\ timers' = timers \ {m}
    /\ dups' = dups \ {m}
    /\ UNCHANGED <<sender, onWay, startup, saving, processing, removing, toRetry, handed, ready,
                   raw, history, bounds>>

-----------------------------------------------------------------------------
(* processRawMessage() and what runs it.                                   *)

\* However it ends, the raw message is removed from Redis, and nobody waits for
\* that.
Ends(m) ==
    /\ processing[m] > 0
    /\ processing' = [processing EXCEPT ![m] = @ - 1]
    /\ removing' = removing \cup {m}

\* The message is decrypted, its signature and schema are right: the handler is
\* called.
HandOver(m) ==
    /\ m \notin invalid
    /\ Ends(m)
    /\ handed' = [handed EXCEPT ![m] = @ + 1]
    /\ given' = given \cup {m}
    /\ UNCHANGED <<sender, onWay, startup, timers, saving, toRetry, ready, redis, saved,
                   discarded, bounds>>

\* It throws: the message is bad, or a query fails because Tendermint is down.
Discard(m) ==
    /\ m \in invalid \/ ~ready
    /\ Ends(m)
    /\ discarded' = discarded \cup {m}
    /\ UNCHANGED <<sender, onWay, startup, timers, saving, toRetry, handed, ready, redis, saved,
                   given, bounds>>

RawRemoved(m) ==
    /\ m \in removing
    /\ removing' = removing \ {m}
    /\ raw' = raw \ {m}
    /\ UNCHANGED <<sender, onWay, startup, timers, saving, processing, toRetry, handed, ready,
                   dups, history, bounds>>

Outage ==
    /\ outages < MaxOutages
    /\ outages' = outages + 1
    /\ ready /\ ready' = FALSE
    /\ UNCHANGED <<sender, onWay, startup, memory, redis, history, losses, failures, crashes>>

\* retryProcessMessages(), on 'ready'
Ready ==
    /\ ~ready /\ ready' = TRUE
    /\ processing' = [m \in Incoming |-> processing[m] + IF m \in toRetry THEN 1 ELSE 0]
    /\ toRetry' = {}
    /\ UNCHANGED <<sender, onWay, startup, timers, saving, removing, handed, redis, history,
                   bounds>>

-----------------------------------------------------------------------------
(* Crashes and starts.                                                     *)

Crash ==
    /\ crashes < MaxCrashes
    /\ crashes' = crashes + 1
    /\ start # "down" /\ start' = "down"
    /\ backlog' = {} /\ early' = {}
    /\ timers' = {} /\ saving' = {} /\ removing' = {} /\ toRetry' = {}
    /\ processing' = Zero /\ handed' = Zero
    /\ ready' = TRUE
    /\ UNCHANGED <<sender, onWay, redis, history, losses, failures, outages>>

\* initDuplicateInboundMessageTimeout(), then subscribeToRecvMessages().  The
\* times that have not passed are removed; the others, whose messages are not
\* sent any more, get a timer.
Subscribe ==
    /\ start = "down" /\ start' = "subscribed"
    /\ \E passed \in SUBSET {m \in dups : outcome[m] # "open" /\ m \notin copies} :
           timers' = passed /\ dups' = passed
    /\ UNCHANGED <<sender, onWay, backlog, early, saving, processing, removing, toRetry, handed,
                   ready, raw, history, bounds>>

\* loadAndProcessBacklogMessages(): read, ...
ReadBacklog ==
    /\ start = "subscribed" /\ start' = "reading"
    /\ backlog' = raw
    /\ UNCHANGED <<sender, onWay, early, memory, ready, redis, history, bounds>>

\* Mutant: saved messages are not processed at the start.
SkipBacklog ==
    /\ start = "reading" /\ start' = "done"
    /\ early' = early \cup backlog
    /\ backlog' = {}
    /\ UNCHANGED <<sender, onWay, memory, ready, redis, history, bounds>>

\* ... then process what was read.
ProcessBacklog ==
    /\ start = "reading" /\ start' = "done"
    /\ processing' = [m \in Incoming |-> processing[m] + IF m \in backlog THEN 1 ELSE 0]
    /\ early' = early \cup backlog
    /\ backlog' = {}
    /\ UNCHANGED <<sender, onWay, timers, saving, removing, toRetry, handed, ready, redis,
                   history, bounds>>

Step(m) == Saved(m) \/ HandOver(m) \/ Discard(m) \/ RawRemoved(m)

InboundNext ==
    \/ \E m \in Incoming :
           \/ Send(m) \/ GiveUp(m) \/ AckArrives(m) \/ Lose(m)
           \/ Arrive(m) \/ Step(m) \/ SaveFails(m) \/ TimerExpires(m)
    \/ Outage \/ Ready \/ Crash \/ Subscribe \/ ReadBacklog \/ ProcessBacklog

InboundSpec == InboundInit /\ [][InboundNext]_inboundVars

\* The sender repeats the message, what is not lost arrives, the process goes
\* on and Tendermint gets ready again.
InboundFairness ==
    /\ \A m \in Incoming :
           /\ WF_inboundVars(Send(m)) /\ WF_inboundVars(GiveUp(m))
           /\ WF_inboundVars(AckArrives(m)) /\ WF_inboundVars(Arrive(m)) /\ WF_inboundVars(Step(m))
    /\ WF_inboundVars(Ready) /\ WF_inboundVars(Subscribe)
    /\ WF_inboundVars(ReadBacklog) /\ WF_inboundVars(ProcessBacklog)

InboundFairSpec == InboundSpec /\ InboundFairness

-----------------------------------------------------------------------------
(* Properties.                                                             *)

\* The type invariant.
InboundTypeOK ==
    /\ invalid \subseteq Incoming
    /\ sends \in [Incoming -> 0 .. MaxSends]
    /\ outcome \in [Incoming -> {"open", "acked", "timeout"}]
    /\ copies \subseteq Incoming /\ acksOnWay \subseteq Incoming
    /\ start \in {"down", "subscribed", "reading", "done"}
    /\ backlog \subseteq Incoming /\ early \subseteq Incoming
    /\ timers \subseteq dups /\ saving \subseteq timers
    /\ removing \subseteq Incoming /\ toRetry \subseteq Incoming
    /\ processing \in [Incoming -> Nat] /\ handed \in [Incoming -> Nat]
    /\ ready \in BOOLEAN
    /\ raw \subseteq Incoming /\ dups \subseteq Incoming
    /\ saved \in [Incoming -> Nat]
    /\ given \subseteq Incoming \ invalid /\ discarded \subseteq Incoming
    /\ losses \in 0 .. MaxLosses /\ failures \in 0 .. MaxFailures
    /\ outages \in 0 .. MaxOutages /\ crashes \in 0 .. MaxCrashes

\* What the sender takes for delivered is in Redis, from where it is processed
\* after a crash, until processRawMessage() has ended with it.
AckedIsKept ==
    \A m \in Incoming : m \in acksOnWay \/ outcome[m] = "acked" =>
                             m \in raw \cup given \cup discarded

\* A process hands a message over once, however many copies come and however
\* often Tendermint gets lost and ready again; messages that come while the
\* backlog is being loaded, or are in it, are the exception.
HandedOnce == \A m \in Incoming \ early : handed[m] <= 1

\* An acknowledged message is handed over or found bad some day, through outages,
\* crashes and restarts.
AckedIsHandled == \A m \in Incoming : outcome[m] = "acked" ~> m \in given \cup discarded

\* A raw message does not stay in Redis for ever.
RawGoes == \A m \in Incoming : m \in raw ~> m \notin raw

\* An acknowledged message moves on to the handlers, and its raw copy goes
\* (processRawMessage()).
InboundMoves == AckedIsHandled /\ RawGoes

\* CHANGELOG.md:432, "Fix loading MQ duplicate timeouts from cache DB on server
\* start": copies of a message are ignored, after a restart as before it.
SavedOnce == \A m \in Incoming : saved[m] <= 1

\* CHANGELOG.md:659, "wait for acknowledge from receivers, retry if fail to
\* receive ACK": a message that arrived is acknowledged, if not the first time
\* then after a retry.
ReceivedIsAcked == \A m \in Incoming : saved[m] > 0 ~> outcome[m] = "acked"

=============================================================================
