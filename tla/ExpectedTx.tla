----------------------------- MODULE ExpectedTx -----------------------------
(***************************************************************************)
(* Transactions and their results: transact() of tendermint/index.js sends *)
(* a transaction, keeps it in expectedTx and in Redis, and the result is   *)
(* given to a callback, or to the caller if there is none, when a block    *)
(* with the transaction is seen.  Modelled with it: the retries on a full  *)
(* mempool and on a disabled chain, lost responses, the loss of the        *)
(* WebSocket that tells of new blocks, crashes and restarts, and the API,  *)
(* which accepts calls before the saved transactions are loaded.           *)
(***************************************************************************)
EXTENDS Integers, FiniteSets

CONSTANTS
    Calls,          \* transactions somebody asks for
    Retrying,       \* those with retryOnFail, if they have a callback
    Saving,         \* those with saveForRetryOnChainDisabled, likewise
    None,           \* no transaction
    MaxAttempts,    \* bound: transactions sent for one call
    MaxLosses,      \* bound: lost responses, failed queries and lost WebSockets
    MaxCrashes      \* bound: crashes

ASSUME ConstantsAssumption ==
    /\ IsFiniteSet(Calls)
    /\ Retrying \subseteq Calls
    /\ Saving \subseteq Calls
    /\ MaxAttempts \in Nat \ {0}
    /\ MaxLosses \in Nat
    /\ MaxCrashes \in Nat

\* The n-th transaction sent for a call; each has a hash of its own, because of
\* the nonce.
Tx == Calls \X (1 .. MaxAttempts)

CallOf(tx) == tx[1]

VARIABLES
    \* This process
    phase,      \* how far transact() has come with a transaction
    expected,   \* expectedTx
    count,      \* expectedTxsCount
    events,     \* processExpectedTx() calls to come: block results and tx results
    lookups,    \* tx queries of processMissingExpectedTxs() under way
    settled,    \* transactions without callback whose promise is settled
    finishing,  \* how far processExpectedTx() has come with a transaction
    timers,     \* calls to be retried by a timer
    stubborn,   \* transactions sent with retryOnFail
    origin,     \* the backlog record that transact() is a retry of
    subscribed, \* NewBlock events come in and are handled
    loading,    \* "no" until loadExpectedTxFromDB(), what it has read, "done"
    snapshot,
    early,      \* transactions begun before that was done
    missed,     \* transactions whose last query failed
    calls,      \* how often this process has called the callback
    \* Redis
    metadata,   \* expectedTx metadata
    retryData,  \* tendermintTransaction: what to retry if a block refuses it
    backlog,    \* transactRequestForRetry: refused because of a disabled chain
    \* The chain, and what has happened so far
    sync,       \* calls without a callback: the caller waits for the commit
    attempts,   \* transactions sent so far for each call
    mempool, result,
    told,       \* what callbacks and callers were told
    losses, crashes

bookkeeping == <<stubborn, origin, early>>
memory == <<phase, expected, count, settled, finishing, timers, bookkeeping, calls>>
intake == <<events, lookups, missed>>
startup == <<subscribed, loading, snapshot>>
redis == <<metadata, retryData, backlog>>
world == <<sync, attempts, mempool, result>>
vars == <<memory, intake, startup, redis, world, told, losses, crashes>>

Results == {"ok", "failed", "again", "disabled"}

Init ==
    /\ phase = [tx \in Tx |-> "none"]
    /\ expected = {} /\ count = 0
    /\ events = {} /\ lookups = {} /\ missed = {} /\ settled = {}
    /\ finishing = [tx \in Tx |-> "no"]
    /\ timers = {} /\ stubborn = {}
    /\ origin = [tx \in Tx |-> None]
    /\ early = {}
    /\ calls = [tx \in Tx |-> 0]
    /\ subscribed = TRUE /\ loading = "no" /\ snapshot = {}
    /\ metadata = {} /\ retryData = {} /\ backlog = {}
    /\ sync \in SUBSET Calls
    /\ attempts = [c \in Calls |-> 0]
    /\ mempool = {}
    /\ result = [tx \in Tx |-> "none"]
    /\ told = {}
    /\ losses = 0 /\ crashes = 0

-----------------------------------------------------------------------------
(* transact()                                                              *)

\* The transaction is signed and expected from now on; its metadata is on its
\* way to Redis.  What is kept for a disabled chain lacks retryOnFail.
Begin(c, from) ==
    LET tx == <<c, attempts[c] + 1>> IN
    /\ attempts[c] < MaxAttempts
    /\ attempts' = [attempts EXCEPT ![c] = @ + 1]
    /\ phase' = [phase EXCEPT ![tx] = "saving"]
    /\ origin' = [origin EXCEPT ![tx] = from]
    /\ stubborn' = IF from = None /\ c \in Retrying \ sync THEN stubborn \cup {tx} ELSE stubborn
    /\ expected' = expected \cup {tx}
    /\ count' = count + 1
    /\ early' = IF loading = "done" THEN early ELSE early \cup {tx}
    /\ UNCHANGED <<settled, finishing, calls, intake, startup, redis, sync, mempool, result,
                   told, losses, crashes>>

Call == \E c \in Calls : attempts[c] = 0 /\ Begin(c, None) /\ UNCHANGED timers

\* The timer of retryOnTransactFail(); the counter stays 0, so every attempt is
\* like the first one.
RetryTimer == \E c \in timers : timers' = timers \ {c} /\ Begin(c, None)

\* retryBacklogTransactRequest(): when the chain is enabled again, or after a
\* reconnection or a start.
RetryBacklog == \E old \in backlog : loading = "done" /\ Begin(CallOf(old), old) /\ UNCHANGED timers

\* Mutant: the metadata is not saved.
SavedNowhere(tx) ==
    /\ phase[tx] = "saving"
    /\ phase' = [phase EXCEPT ![tx] = "sent"]
    /\ UNCHANGED <<expected, count, settled, finishing, timers, bookkeeping, calls, intake,
                   startup, redis, world, told, losses, crashes>>

\* Redis has the metadata, and what is needed for a retry; the transaction is
\* broadcast.
Saved(tx) ==
    /\ phase[tx] = "saving"
    /\ phase' = [phase EXCEPT ![tx] = "sent"]
    /\ metadata' = metadata \cup {tx}
    /\ retryData' = IF tx \in stubborn THEN retryData \cup {tx} ELSE retryData
    /\ UNCHANGED <<expected, count, settled, finishing, timers, bookkeeping, calls, intake,
                   startup, backlog, world, told, losses, crashes>>

\* Tendermint takes the transaction.
Accept(tx) ==
    /\ phase[tx] = "sent"
    /\ phase' = [phase EXCEPT ![tx] = "accepted"]
    /\ mempool' = mempool \cup {tx}
    /\ UNCHANGED <<expected, count, settled, finishing, timers, bookkeeping, calls, intake,
                   startup, redis, sync, attempts, result, told, losses, crashes>>

\* ... and answers: without a callback transact() goes on to wait.
Respond(tx) ==
    /\ phase[tx] = "accepted"
    /\ phase' = [phase EXCEPT ![tx] = IF CallOf(tx) \in sync THEN "waiting" ELSE "returned"]
    /\ UNCHANGED <<expected, count, settled, finishing, timers, bookkeeping, calls, intake,
                   startup, redis, world, told, losses, crashes>>

\* Only the first transaction of a call has a caller who gets what transact()
\* returns or throws; a timer and retryBacklogTransactRequest() ignore it.
Tell(tx, what) == IF tx[2] = 1 THEN {<<CallOf(tx), what>>} ELSE {}

\* The catch clause: nothing is expected any more; keep the call for later, try
\* again soon, or throw.
Catch(tx, code) ==
    LET c == CallOf(tx) IN
    /\ expected' = expected \ {tx}
    /\ count' = count - 1
    /\ metadata' = metadata \ {tx}
    /\ IF code = "disabled" /\ c \in Saving \ sync
       THEN /\ backlog' = backlog \cup {tx}
            /\ told' = told \cup Tell(tx, "later")
            /\ phase' = [phase EXCEPT ![tx] = "later"]
            /\ UNCHANGED timers
       ELSE IF code = "again" /\ tx \in stubborn
       THEN /\ timers' = timers \cup {c}
            /\ phase' = [phase EXCEPT ![tx] = "later"]
            /\ UNCHANGED <<backlog, told>>
       ELSE /\ told' = told \cup Tell(tx, "error")
            /\ phase' = [phase EXCEPT ![tx] = "thrown"]
            /\ UNCHANGED <<backlog, timers>>

\* Tendermint refuses the transaction.
Refuse(tx) ==
    /\ phase[tx] = "sent"
    /\ \E code \in Results \ {"ok"} : Catch(tx, code)
    /\ UNCHANGED <<settled, finishing, bookkeeping, calls, intake, startup, retryData, world,
                   losses, crashes>>

\* The connection closes before the answer: the transaction may be on its way.
LoseResponse(tx) ==
    /\ losses < MaxLosses
    /\ losses' = losses + 1
    /\ phase[tx] \in {"sent", "accepted"}
    /\ Catch(tx, "failed")
    /\ UNCHANGED <<settled, finishing, bookkeeping, calls, intake, startup, retryData, world,
                   crashes>>

\* The caller that waited for the commit gets the result; an error is caught by
\* the same clause as an error of the broadcast.
WaitEnds(tx) ==
    /\ phase[tx] = "waiting"
    /\ tx \in settled
    /\ IF result[tx] = "ok"
       THEN /\ told' = told \cup {<<CallOf(tx), "ok">>}
            /\ phase' = [phase EXCEPT ![tx] = "returned"]
            /\ UNCHANGED <<expected, count, timers, metadata, backlog>>
       ELSE Catch(tx, result[tx])
    /\ UNCHANGED <<settled, finishing, bookkeeping, calls, intake, startup, retryData, world,
                   losses, crashes>>

\* Mutant: the record goes as soon as its retry begins.
DropEarly(tx) ==
    /\ phase[tx] \in {"saving", "sent", "accepted", "returned", "later"} /\ origin[tx] # None
    /\ backlog' = backlog \ {origin[tx]}
    /\ origin' = [origin EXCEPT ![tx] = None]
    /\ UNCHANGED <<phase, expected, count, settled, finishing, timers, stubborn, early, calls,
                   intake, startup, metadata, retryData, world, told, losses, crashes>>

\* retryBacklogTransactRequest() removes its record after transact().
DropRecord(tx) ==
    /\ phase[tx] \in {"returned", "later"} /\ origin[tx] # None
    /\ backlog' = backlog \ {origin[tx]}
    /\ origin' = [origin EXCEPT ![tx] = None]
    /\ UNCHANGED <<phase, expected, count, settled, finishing, timers, stubborn, early, calls,
                   intake, startup, metadata, retryData, world, told, losses, crashes>>

-----------------------------------------------------------------------------
(* Blocks, and processExpectedTx().                                        *)

Commit(tx) ==
    /\ tx \in mempool
    /\ mempool' = mempool \ {tx}
    /\ \E r \in Results : result' = [result EXCEPT ![tx] = r]
    /\ events' = IF subscribed THEN events \cup {tx} ELSE events
    /\ UNCHANGED <<memory, lookups, missed, startup, redis, sync, attempts, told, losses, crashes>>

\* A query of processMissingExpectedTxs() finds the transaction in a block.
LookUp(tx) ==
    /\ tx \in lookups
    /\ lookups' = lookups \ {tx}
    /\ events' = IF result[tx] = "none" THEN events ELSE events \cup {tx}
    /\ UNCHANGED <<memory, missed, startup, redis, world, told, losses, crashes>>

\* A query fails: of getBlockResults() after an event, or of the transaction.
QueryFails(tx) ==
    /\ losses < MaxLosses
    /\ losses' = losses + 1
    /\ tx \in events \cup lookups
    /\ events' = events \ {tx}
    /\ lookups' = lookups \ {tx}
    /\ missed' = missed \cup {tx}
    /\ UNCHANGED <<memory, startup, redis, world, told, crashes>>

\* Mutant: whether the transaction is still expected is not asked again.
IsExpectedAlways(tx) == TRUE

IsExpected(tx) == tx \in expected

\* processExpectedTx() up to the call of the callback.
Process(tx) ==
    LET c == CallOf(tx) IN
    /\ tx \in events
    /\ events' = events \ {tx}
    /\ IF ~IsExpected(tx)
       THEN UNCHANGED <<expected, count, settled, finishing, timers, retryData, backlog>>
       ELSE /\ expected' = expected \ {tx}
            /\ count' = count - 1
            /\ IF c \in sync
               THEN /\ settled' = settled \cup {tx}
                    /\ finishing' = [finishing EXCEPT ![tx] = "clearing"]
                    /\ UNCHANGED <<timers, retryData, backlog>>
               ELSE /\ finishing' = [finishing EXCEPT ![tx] = "calling"]
                    /\ backlog' = IF result[tx] = "disabled" /\ c \in Saving \ sync
                                  THEN backlog \cup {tx} ELSE backlog
                    /\ timers' = IF result[tx] = "again" /\ tx \in retryData
                                 THEN timers \cup {c} ELSE timers
                    /\ retryData' = retryData \ {tx}
                    /\ UNCHANGED settled
    /\ UNCHANGED <<phase, bookkeeping, calls, lookups, missed, startup, metadata, world, told,
                   losses, crashes>>

\* What the callback is told: a call that is kept for later is no error.
Outcome(tx) == CASE result[tx] = "ok" -> "ok"
                 [] result[tx] = "disabled" /\ CallOf(tx) \in Saving \ sync -> "later"
                 [] OTHER -> "error"

\* The callback function is called.
Callback(tx) ==
    /\ finishing[tx] = "calling"
    /\ finishing' = [finishing EXCEPT ![tx] = "clearing"]
    /\ calls' = [calls EXCEPT ![tx] = @ + 1]
    /\ told' = told \cup {<<CallOf(tx), Outcome(tx)>>}
    /\ UNCHANGED <<phase, expected, count, settled, timers, bookkeeping, intake, startup,
                   redis, world, losses, crashes>>

\* The metadata goes last.
Clear(tx) ==
    /\ finishing[tx] = "clearing"
    /\ finishing' = [finishing EXCEPT ![tx] = "no"]
    /\ metadata' = metadata \ {tx}
    /\ UNCHANGED <<phase, expected, count, settled, timers, bookkeeping, calls, intake, startup,
                   retryData, backlog, world, told, losses, crashes>>

-----------------------------------------------------------------------------
(* The WebSocket, crashes and starts.                                      *)

Disconnect ==
    /\ losses < MaxLosses
    /\ losses' = losses + 1
    /\ subscribed
    /\ subscribed' = FALSE
    /\ UNCHANGED <<memory, intake, loading, snapshot, redis, world, told, crashes>>

\* Mutant: nobody asks what became of the transactions.
ReconnectOnly ==
    /\ ~subscribed
    /\ subscribed' = TRUE
    /\ UNCHANGED <<memory, intake, loading, snapshot, redis, world, told, losses, crashes>>

\* The 'connected' handler: subscribe, wait until synced, then ask for every
\* expected transaction.
Reconnect ==
    /\ ~subscribed
    /\ subscribed' = TRUE
    /\ lookups' = lookups \cup expected
    /\ missed' = missed \ expected
    /\ UNCHANGED <<memory, events, loading, snapshot, redis, world, told, losses, crashes>>

CrashAndRestart ==
    /\ crashes < MaxCrashes
    /\ crashes' = crashes + 1
    /\ phase' = [tx \in Tx |-> "none"]
    /\ expected' = {} /\ count' = 0
    /\ events' = {} /\ lookups' = {} /\ missed' = {} /\ settled' = {}
    /\ finishing' = [tx \in Tx |-> "no"]
    /\ timers' = {} /\ stubborn' = {}
    /\ origin' = [tx \in Tx |-> None]
    /\ early' = {}
    /\ calls' = [tx \in Tx |-> 0]
    /\ subscribed' = TRUE /\ loading' = "no" /\ snapshot' = {}
    /\ UNCHANGED <<redis, world, told, losses>>

\* loadExpectedTxFromDB(): read, ...
ReadSaved ==
    /\ loading = "no"
    /\ loading' = "read"
    /\ snapshot' = metadata
    /\ UNCHANGED <<memory, intake, subscribed, redis, world, told, losses, crashes>>

\* ... then expect what was read, and ask for every expected transaction.
LoadSaved ==
    /\ loading = "read"
    /\ loading' = "done"
    /\ expected' = expected \cup snapshot
    /\ count' = count + Cardinality(snapshot)
    /\ lookups' = lookups \cup expected'
    /\ missed' = missed \ expected'
    /\ snapshot' = {}
    /\ UNCHANGED <<phase, settled, finishing, timers, bookkeeping, calls, events, subscribed,
                   redis, world, told, losses, crashes>>

Step(tx) ==
    \/ Saved(tx) \/ Respond(tx) \/ WaitEnds(tx) \/ DropRecord(tx)
    \/ LookUp(tx) \/ Process(tx) \/ Callback(tx) \/ Clear(tx)

Next ==
    \/ Call \/ RetryTimer \/ RetryBacklog
    \/ \E tx \in Tx : \/ Step(tx)
                      \/ Accept(tx) \/ Refuse(tx) \/ LoseResponse(tx)
                      \/ Commit(tx) \/ QueryFails(tx)
    \/ Disconnect \/ Reconnect \/ CrashAndRestart \/ ReadSaved \/ LoadSaved

Spec == Init /\ [][Next]_vars

\* The process goes on with what it has begun, reconnects, and starts up;
\* Tendermint answers a broadcast and commits what is in the mempool.
Fairness ==
    /\ \A tx \in Tx : /\ WF_vars(Step(tx))
                      /\ WF_vars(Accept(tx) \/ Refuse(tx))
                      /\ WF_vars(Commit(tx))
    /\ WF_vars(Reconnect) /\ WF_vars(ReadSaved) /\ WF_vars(LoadSaved)

FairSpec == Spec /\ Fairness

-----------------------------------------------------------------------------
(* Properties                                                              *)

Sent == {tx \in Tx : tx[2] <= attempts[CallOf(tx)]}

\* The variables have their types, and everything kept is about a transaction
\* that was really begun: no two transactions share a hash.
TypeOK ==
    /\ phase \in [Tx -> {"none", "saving", "sent", "accepted", "waiting", "returned", "later",
                         "thrown"}]
    /\ finishing \in [Tx -> {"no", "calling", "clearing"}]
    /\ origin \in [Tx -> Sent \cup {None}]
    /\ result \in [Tx -> Results \cup {"none"}]
    /\ expected \cup settled \cup early \cup stubborn \cup missed \subseteq Sent
    /\ events \cup lookups \cup snapshot \cup mempool \subseteq Sent
    /\ metadata \cup retryData \cup backlog \subseteq Sent
    /\ sync \subseteq Calls /\ timers \subseteq Retrying \ sync
    /\ told \subseteq Calls \X {"ok", "error", "later"}
    /\ attempts \in [Calls -> 0 .. MaxAttempts]
    /\ calls \in [Tx -> Nat]
    /\ count \in Int
    /\ subscribed \in BOOLEAN /\ loading \in {"no", "read", "done"}
    /\ losses \in 0 .. MaxLosses /\ crashes \in 0 .. MaxCrashes

\* A process calls the callback of a transaction at most once, although the
\* transaction may come in a block event, from the queries after a reconnection
\* and from those after loading the saved ones; for transactions that were
\* begun after loading (processExpectedTx(), index.js:291).
CalledOnce == \A tx \in Tx \ early : calls[tx] <= 1

\* What the comment at that place says, without the restriction.
CalledOnceAlways == \A tx \in Tx : calls[tx] <= 1

\* Whoever was told that his call is retried when the chain is enabled again can
\* rely on it: until he is told the result, Redis has the call, or a transaction
\* for it that is still expected; through retries, refusals and crashes.
LaterIsKept ==
    \A c \in Calls : <<c, "later">> \in told /\ told \cap {<<c, "ok">>, <<c, "error">>} = {}
                        => \E tx \in backlog \cup metadata : CallOf(tx) = c

\* When transact() has returned normally, the callback is called some day,
\* whatever happens to the WebSocket and to the process; only a failed query
\* can leave it open.
ResultIsReported ==
    \A tx \in Tx : CallOf(tx) \notin sync /\ phase[tx] = "returned"
                     ~> (tx \in missed \/ \E what \in {"ok", "error", "later"} :
                                                <<CallOf(tx), what>> \in told)

\* Whoever waits for his transaction to be committed does not wait for ever: he
\* gets the result, unless the query for it fails or the process is restarted.
WaiterIsAnswered == \A tx \in Tx : phase[tx] = "waiting" ~> tx \in missed \/ phase[tx] # "waiting"

\* The metadata of a transaction that is in a block is removed some day, so that
\* it is not loaded at every start; only a failed query can keep it.
MetadataGoes ==
    \A tx \in Tx : tx \in metadata /\ result[tx] # "none" ~> tx \in missed \/ tx \notin metadata

\* A transaction moves on to its end: whoever waits is answered and what is kept for
\* the result goes (transact(), processExpectedTx()).
TransactionsMove == WaiterIsAnswered /\ MetadataGoes

=============================================================================
