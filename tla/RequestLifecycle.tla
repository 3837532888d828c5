-------------------------- MODULE RequestLifecycle ---------------------------
(***************************************************************************)
(* The life of a request at the node that makes it: core/common.  A client *)
(* creates a request under a reference ID of its own, and may close it; a  *)
(* request that nobody closes is timed out.  What must survive a restart   *)
(* is in Redis: the data of the request, the reference ID, the time of its *)
(* timeout, and the transactions with the functions to call with their     *)
(* results (module ExpectedTx).  Timers and running functions are lost.    *)
(*                                                                         *)
(* One reference ID and the calls that use it.  Time is counted down in    *)
(* ticks; Node.js has timers of at most MaxDelay ticks.                    *)
(***************************************************************************)
EXTENDS Integers, FiniteSets

CONSTANTS
    Calls,          \* calls of createRequest() with the reference ID
    None,
    IdpNodes, AsNodes, \* nodes the chain may know for the identity and the service
    Wanted,         \* what the request asks for: mode, bypass, IdPs, ASes, minima
    Timeout,        \* request_timeout in ticks
    MaxDelay,       \* TIMEOUT_MAX: the longest delay of a timer
    MaxSendFailures, \* bound: failed sends of the request to the IdPs
    MaxCloses,      \* bound: requests the client closes
    MaxCrashes,     \* bound: stops of the process
    MaxCallsAtCrash \* bound: calls made when the process stops

ASSUME LifeAssumption ==
    /\ IsFiniteSet(Calls) /\ None \notin Calls /\ None \notin Int
    /\ IsFiniteSet(IdpNodes) /\ IsFiniteSet(AsNodes)
    /\ Wanted \in [mode : 1 .. 3, bypass : BOOLEAN, idps : SUBSET IdpNodes, minIdp : Nat,
                   ases : SUBSET AsNodes, minAs : Nat]
    /\ Timeout \in Nat \ {0} /\ MaxDelay \in Nat \ {0}
    /\ MaxSendFailures \in Nat /\ MaxCloses \in Nat
    /\ MaxCrashes \in Nat /\ MaxCallsAtCrash \in Nat

VARIABLES
    called,         \* calls made
    closes,         \* requests the client has closed
    mapping,        \* Redis: the request ID of the reference ID
    data,           \* Redis: requests whose requestData is stored
    scheduled,      \* Redis: ticks to the timeout of a request, or None
    timers,         \* timers that run: of a call, in pieces
    resuming,       \* schedulers read at the start and not yet run: ticks left
    jobs,           \* the steps each call has before it
    onChain,        \* state of each request on the chain
    age,            \* ticks since the request was scheduled first; 0 before
    told,           \* what the client was told
    sendFailures, crashes

redis == <<mapping, data, scheduled>>
memory == <<timers, resuming>>
calls == <<called, closes>>
lifeVars == <<calls, redis, memory, jobs, onChain, age, told, sendFailures, crashes>>

\* "tx", "close" and "timeout" are transactions on their way; the others are
\* functions that are running or about to.
Steps == {"check", "start", "tx", "handler", "timer", "send", "close", "closed", "timeout",
          "timedOut", "block"}
Results == {"created", "failed", "closed", "closeFailed"}

\* A timer runs for `wait' ticks, then again for the rest; the one that
\* timeoutScheduler holds for the request is the one that can be cleared.
Timer == [call : Calls, wait : 0 .. MaxDelay, rest : 0 .. Timeout, held : BOOLEAN]

LifeInit ==
    /\ called = {} /\ closes = {}
    /\ mapping = None /\ data = {}
    /\ scheduled = [c \in Calls |-> None]
    /\ timers = {}
    /\ resuming = [c \in Calls |-> None]
    /\ jobs = [c \in Calls |-> {}]
    /\ onChain = [c \in Calls |-> "none"]
    /\ age = [c \in Calls |-> 0]
    /\ told = [c \in Calls |-> {}]
    /\ sendFailures = 0 /\ crashes = 0

Goes(c, step, next) == /\ step \in jobs[c]
                       /\ jobs' = [jobs EXCEPT ![c] = (@ \ {step}) \cup next]
Begins(c, step) == jobs' = [jobs EXCEPT ![c] = @ \cup {step}]
Tell(c, what) == told' = [told EXCEPT ![c] = @ \cup {what}]

-----------------------------------------------------------------------------
(* Timers and schedulers.                                                  *)

\* Mutant: the delay is given to Node.js as it is; one that is too long ends at
\* once.
OneDelay(c, ticks) ==
    [call |-> c, wait |-> IF ticks <= MaxDelay THEN ticks ELSE 0, rest |-> 0, held |-> TRUE]

\* Timeout.start(): a long delay is cut into pieces.
Delay(c, ticks) ==
    IF ticks <= MaxDelay THEN [call |-> c, wait |-> ticks, rest |-> 0, held |-> TRUE]
                         ELSE [call |-> c, wait |-> MaxDelay, rest |-> ticks - MaxDelay,
                               held |-> TRUE]

\* Timers of the call that can no longer be cleared.
Release(c) == {IF t.call = c THEN [t EXCEPT !.held = FALSE] ELSE t : t \in timers}

\* removeTimeoutSchedulerInternal(): the timer that is held, then Redis.
RemoveScheduler(c) ==
    /\ timers' = {t \in timers : t.call # c \/ ~t.held}
    /\ scheduled' = [scheduled EXCEPT ![c] = None]

\* A tick of the clock, for everything that is counted down.
Less(n) == IF n = None \/ n = 0 THEN n ELSE n - 1
Tick ==
    /\ scheduled' = [c \in Calls |-> Less(scheduled[c])]
    /\ resuming' = [c \in Calls |-> Less(resuming[c])]
    /\ timers' = {[t EXCEPT !.wait = Less(t.wait)] : t \in timers}
    /\ age' = [c \in Calls |-> IF age[c] = 0 \/ age[c] > Timeout THEN age[c] ELSE age[c] + 1]
    /\ <<scheduled', resuming', timers', age'>> # <<scheduled, resuming, timers, age>>
    /\ UNCHANGED <<calls, mapping, data, jobs, onChain, told, sendFailures, crashes>>

\* The listener of a timer: the next piece, or timeoutRequest(), which sends the
\* transaction once the blockchain is ready.
TimerFires ==
    /\ \E t \in timers :
           /\ t.wait = 0
           /\ IF t.rest > 0
              THEN /\ timers' = (timers \ {t}) \cup {[Delay(t.call, t.rest) EXCEPT !.held = t.held]}
                   /\ UNCHANGED jobs
              ELSE timers' = timers \ {t} /\ Begins(t.call, "timeout")
    /\ UNCHANGED <<calls, redis, resuming, onChain, age, told, sendFailures, crashes>>

\* Mutant: a time that has passed is not made up for.
RunSchedulerLater(c, ticks, steps) ==
    /\ timers' = IF ticks = 0 THEN timers ELSE Release(c) \cup {Delay(c, ticks)}
    /\ jobs' = [jobs EXCEPT ![c] = steps]

\* runTimeoutScheduler(): at once if the time has passed, else with a timer, which
\* replaces the one that is held without clearing it.
RunScheduler(c, ticks, steps) ==
    /\ timers' = IF ticks = 0 THEN timers ELSE Release(c) \cup {Delay(c, ticks)}
    /\ jobs' = [jobs EXCEPT ![c] = steps \cup (IF ticks = 0 THEN {"timeout"} ELSE {})]

\* resumeTimeoutScheduler(): for what was in Redis at the start, one by one.
ResumeScheduler(c) ==
    /\ resuming[c] # None
    /\ RunScheduler(c, resuming[c], jobs[c])
    /\ resuming' = [resuming EXCEPT ![c] = None]
    /\ UNCHANGED <<calls, redis, onChain, age, told, sendFailures, crashes>>

-----------------------------------------------------------------------------
(* Creating a request.                                                     *)

\* createRequest() up to its look at the reference ID.  A purpose that does not
\* allow the mode fails before the look, and the clean-up on an error takes the
\* reference ID from whichever request has it.
CreateRequest(c, modeAllowed) ==
    /\ c \notin called
    /\ called' = called \cup {c}
    /\ IF ~modeAllowed THEN mapping' = None /\ UNCHANGED jobs
       ELSE /\ UNCHANGED mapping
            /\ IF mapping = None THEN Begins(c, "check") ELSE UNCHANGED jobs
    /\ UNCHANGED <<closes, data, scheduled, memory, onChain, age, told, sendFailures, crashes>>

\* checkIdpListCondition(): of the IdPs the request names, or of all, those
\* `found' on the chain with the level, the identity and the mode it asks for.
IdpsMeet(found) ==
    LET list == Wanted.idps
        receivers == IF list = {} THEN found ELSE found \cap list
    IN  /\ list # {} => Cardinality(list) >= Wanted.minIdp
        /\ (Wanted.mode = 1 \/ Wanted.bypass) => list # {}
        /\ Wanted.minIdp # 0 => /\ receivers # {}
                                /\ list \subseteq receivers
                                /\ Cardinality(receivers) >= Wanted.minIdp

\* checkAsListCondition() for a service: the ASes that offer it, and those of them
\* that do at the namespace and the levels of the request.
AsesMeet(offering, suited) ==
    LET list == Wanted.ases
        potential == IF list = {} THEN suited ELSE suited \cap list
    IN  /\ list # {} => Cardinality(list) >= Wanted.minAs /\ list \subseteq offering
        /\ Cardinality(potential) >= Wanted.minAs
        /\ list \subseteq suited

\* Mutant: the clean-up leaves the request data.
ForgetReference(c) == mapping' = None /\ UNCHANGED data

\* createRequestCleanUpOnError().
Forget(c) == /\ data' = data \ {c}
             /\ mapping' = None

\* The answer to the client and the clean-up when the transaction has failed.
FailTx(c) == Tell(c, "failed") /\ Forget(c)

\* The rest of createRequest(), after its reads of the chain: an error cleans up,
\* else the request is stored and takes the reference ID, whoever has it by now.
Validate(c, found, offering, suited) ==
    /\ IF IdpsMeet(found) /\ AsesMeet(offering, suited)
       THEN /\ data' = data \cup {c}
            /\ mapping' = c
            /\ Goes(c, "check", {"start"})
       ELSE Forget(c) /\ Goes(c, "check", {})
    /\ UNCHANGED <<calls, scheduled, memory, onChain, age, told, sendFailures, crashes>>

\* createRequestInternalAsync(): the transaction, kept in Redis from here on.
StartTx(c) ==
    /\ Goes(c, "start", {"tx"})
    /\ UNCHANGED <<calls, redis, memory, onChain, age, told, sendFailures, crashes>>

\* Its result; createRequestInternalAsyncAfterBlockchain() begins, or fails.
TxResult(c) ==
    /\ \/ /\ onChain' = [onChain EXCEPT ![c] = "open"]
          /\ Goes(c, "tx", {"handler"})
          /\ UNCHANGED <<mapping, data, told>>
       \/ FailTx(c) /\ Goes(c, "tx", {}) /\ UNCHANGED onChain
    /\ UNCHANGED <<calls, scheduled, memory, age, sendFailures, crashes>>

\* Mutant: the time is not saved.
ScheduleInMemory(c) ==
    /\ Goes(c, "handler", {"timer"})
    /\ age' = [age EXCEPT ![c] = IF @ = 0 THEN 1 ELSE @]
    /\ UNCHANGED <<calls, redis, memory, onChain, told, sendFailures, crashes>>

\* setTimeoutScheduler() up to its await: the time is saved.
Schedule(c) ==
    /\ Goes(c, "handler", {"timer"})
    /\ scheduled' = [scheduled EXCEPT ![c] = Timeout]
    /\ age' = [age EXCEPT ![c] = IF @ = 0 THEN 1 ELSE @]
    /\ UNCHANGED <<calls, mapping, data, memory, onChain, told, sendFailures, crashes>>

\* The rest of setTimeoutScheduler(): with the time it has computed before.
RunTimer(c) ==
    /\ "timer" \in jobs[c]
    /\ RunScheduler(c, IF scheduled[c] = None THEN 0 ELSE scheduled[c],
                    (jobs[c] \ {"timer"}) \cup {"send"})
    /\ UNCHANGED <<calls, redis, resuming, onChain, age, told, sendFailures, crashes>>

\* The request to the IdPs, and the answer to the client.
Announce(c) ==
    /\ Goes(c, "send", {})
    /\ Tell(c, "created")
    /\ UNCHANGED <<calls, redis, memory, onChain, age, sendFailures, crashes>>

\* The catch clause: the client is told of a failure, the request is forgotten and
\* its timeout removed, while it stays open on the chain.
AnnounceFails(c) ==
    /\ sendFailures < MaxSendFailures
    /\ sendFailures' = sendFailures + 1
    /\ Goes(c, "send", {})
    /\ Tell(c, "failed")
    /\ Forget(c)
    /\ RemoveScheduler(c)
    /\ UNCHANGED <<calls, resuming, onChain, age, crashes>>

-----------------------------------------------------------------------------
(* The end of a request.                                                   *)

\* closeRequest(): the client, once, of a request it has been given the ID of.
CloseRequest(c) ==
    /\ c \in data /\ c \notin closes
    /\ Cardinality(closes) < MaxCloses
    /\ closes' = closes \cup {c}
    /\ Begins(c, "close")
    /\ UNCHANGED <<called, redis, memory, onChain, age, told, sendFailures, crashes>>

\* closeRequestInternalAsyncAfterBlockchain() begins, or fails.
CloseResult(c) ==
    /\ IF onChain[c] = "open"
       THEN /\ onChain' = [onChain EXCEPT ![c] = "closed"]
            /\ Goes(c, "close", {"closed", "block"})
            /\ UNCHANGED told
       ELSE Tell(c, "closeFailed") /\ Goes(c, "close", {}) /\ UNCHANGED onChain
    /\ UNCHANGED <<calls, redis, memory, age, sendFailures, crashes>>

AfterClose(c) ==
    /\ Goes(c, "closed", {})
    /\ RemoveScheduler(c)
    /\ Tell(c, "closed")
    /\ UNCHANGED <<calls, mapping, data, resuming, onChain, age, sendFailures, crashes>>

\* The result of timeoutRequest(); timeoutRequestAfterBlockchain() begins, or
\* fails, and then the time stays in Redis.
TimeoutResult(c) ==
    /\ IF onChain[c] = "open"
       THEN /\ onChain' = [onChain EXCEPT ![c] = "timedOut"]
            /\ Goes(c, "timeout", {"timedOut", "block"})
       ELSE Goes(c, "timeout", {}) /\ UNCHANGED onChain
    /\ UNCHANGED <<calls, redis, memory, age, told, sendFailures, crashes>>

AfterTimeout(c) ==
    /\ Goes(c, "timedOut", {})
    /\ scheduled' = [scheduled EXCEPT ![c] = None]
    /\ UNCHANGED <<calls, mapping, data, memory, onChain, age, told, sendFailures, crashes>>

\* processRequestUpdate() of core/rp when it reads the end of the request: what is
\* stored is removed, with the reference ID the data has.
SeeEnd(c) ==
    /\ Goes(c, "block", {})
    /\ IF c \in data THEN Forget(c) ELSE UNCHANGED <<mapping, data>>
    /\ UNCHANGED <<calls, scheduled, memory, onChain, age, told, sendFailures, crashes>>

\* The process stops and starts again.  A result whose function has begun is
\* applied anew: it is removed from Redis when the function has ended.  A block is
\* read again unless its height has been saved.
Restart(steps) ==
    {s \in steps : s \notin {"check", "start", "handler", "timer", "send", "block"}}
    \cup (IF steps \cap {"handler", "timer", "send"} # {} THEN {"handler"} ELSE {})
Crash(again) ==
    /\ crashes < MaxCrashes /\ Cardinality(called) <= MaxCallsAtCrash
    /\ crashes' = crashes + 1
    /\ timers' = {}
    /\ resuming' = scheduled
    /\ jobs' = [c \in Calls |-> Restart(jobs[c]) \cup (jobs[c] \cap again)]
    /\ UNCHANGED <<calls, redis, onChain, age, told, sendFailures>>

Step(c) == \/ StartTx(c) \/ TxResult(c) \/ Schedule(c) \/ RunTimer(c) \/ Announce(c)
           \/ CloseResult(c) \/ AfterClose(c) \/ TimeoutResult(c) \/ AfterTimeout(c)
           \/ SeeEnd(c) \/ ResumeScheduler(c)

LifeNext == \/ \E c \in Calls : \/ \E allowed \in BOOLEAN : CreateRequest(c, allowed)
                                \/ \E found \in SUBSET IdpNodes, offering \in SUBSET AsNodes :
                                       \E suited \in SUBSET offering :
                                           Validate(c, found, offering, suited)
                                \/ Step(c) \/ AnnounceFails(c) \/ CloseRequest(c)
            \/ Tick \/ TimerFires
            \/ \E again \in {{}, {"block"}} : Crash(again)

\* Node.js runs what is ready, the clock and the chain go on; clients and stops
\* of the process are free.
LifeFairness == /\ \A c \in Calls : WF_lifeVars(Step(c))
                /\ WF_lifeVars(Tick) /\ WF_lifeVars(TimerFires)

LifeSpec == LifeInit /\ [][LifeNext]_lifeVars /\ LifeFairness

-----------------------------------------------------------------------------
(* Properties.                                                             *)

LifeTypeOK ==
    /\ called \subseteq Calls /\ closes \subseteq called
    /\ mapping \in Calls \cup {None}
    /\ data \subseteq Calls
    /\ scheduled \in [Calls -> 0 .. Timeout \cup {None}]
    /\ timers \subseteq Timer
    /\ resuming \in [Calls -> 0 .. Timeout \cup {None}]
    /\ jobs \in [Calls -> SUBSET Steps]
    /\ onChain \in [Calls -> {"none", "open", "closed", "timedOut"}]
    /\ age \in [Calls -> 0 .. Timeout + 1]
    /\ told \in [Calls -> SUBSET Results]
    /\ sendFailures \in 0 .. MaxSendFailures
    /\ crashes \in 0 .. MaxCrashes

\* A request announced as created and open on the chain has the time of its timeout
\* in Redis, and something that will act on it: a timer, one to be resumed, the
\* transaction, or the function that sets it (setTimeoutScheduler() before the
\* answer, resumeTimeoutScheduler(), removeTimeoutScheduler() only when it is over).
TimeoutTended ==
    \A c \in Calls :
        "created" \in told[c] /\ "failed" \notin told[c] /\ onChain[c] = "open" =>
            /\ scheduled[c] # None
            /\ \/ \E t \in timers : t.call = c
               \/ resuming[c] # None
               \/ jobs[c] \cap {"timeout", "handler", "timer"} # {}

\* No request is timed out before its time, however long the delay and whatever is
\* resumed or set again (Timeout.start(), runTimeoutScheduler()).
NeverEarly == \A c \in Calls : onChain[c] = "timedOut" => age[c] > Timeout

\* The reference ID leads to a request whose data is stored, and unless the process
\* stopped, data is stored only for a request that is being made, open or seen to
\* its end (createRequestCleanUpOnError(), processRequestUpdate()).
StoredIsCurrent ==
    /\ mapping # None => mapping \in data
    /\ crashes = 0 => \A c \in data : jobs[c] # {} \/ onChain[c] = "open"

\* A request announced as created is over some day, whatever the client does and
\* however often the process stops, unless its announcement fails after a restart.
CreatedEnds ==
    \A c \in Calls : "created" \in told[c] ~> \/ onChain[c] \in {"closed", "timedOut"}
                                              \/ "failed" \in told[c]
=============================================================================
