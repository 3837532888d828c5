----------------------------- MODULE BlockWait ------------------------------
(***************************************************************************)
(* Messages that wait for a block.  A message from the message queue names *)
(* the height of the block that holds the transaction it is about, and may *)
(* arrive before the node has seen that block final: it is then kept in    *)
(* Redis until processNewBlock() of tendermint/index.js comes to its       *)
(* height.  handleMessageFromMqWithBlockWait() and processMessageInBlocks() *)
(* of core/request_process_manager.js race for the same message; a lock    *)
(* per message decides who takes it.  Standalone mode is modelled, with    *)
(* failing calls to Tendermint, crashes and restarts.                      *)
(***************************************************************************)
EXTENDS Integers, FiniteSets

CONSTANTS
    Messages,       \* message IDs
    HeightOf,       \* HeightOf[m]: message.height
    MaxHeight,      \* bound: height at which the modelled chain ends
    FreshStart,     \* TRUE: the node starts without a latest block height file
    MaxFailures,    \* bound: calls to Tendermint or Redis that fail
    MaxCrashes      \* bound: crashes

Heights == 1 .. MaxHeight

ASSUME ConstantsAssumption ==
    /\ IsFiniteSet(Messages)
    /\ MaxHeight \in Nat \ {0, 1}
    /\ HeightOf \in [Messages -> Heights]
    /\ FreshStart \in BOOLEAN
    /\ MaxFailures \in Nat
    /\ MaxCrashes \in Nat

VARIABLES
    chain,      \* height of the blockchain
    latest,     \* latestBlockHeight, 0 for null (null <= n is 0 <= n in the code)
    saved,      \* latestProcessedBlockHeight and its file, 0 for null or none
    appHash,    \* lastKnownAppHash
    scans,      \* processNewBlock() calls that have a range to process
    stage,      \* how far this process has come with handling a message
    raw,        \* rawReceivedMessageFromMQ in Redis
    stored,     \* messageFromMQ and messageIdToProcessAtBlock in Redis
    lock,       \* messageProcessLock
    tasks,      \* process-message tasks in the request queue
    processed,  \* how often this process has started to process a message
    failures, crashes   \* what happened so far, for the bounds

blocks == <<latest, saved, appHash, scans>>
messages == <<stage, raw, stored, lock, tasks, processed>>
vars == <<chain, blocks, messages, failures, crashes>>

Stages == {"unsent", "received", "saving", "saved", "removing", "adding", "over"}

\* A task is known by its message and by who added it: 0 for the handler of the
\* message, else the first height of the range that was being processed.
Task == [message : Messages, by : 0 .. MaxHeight, phase : {"queued", "running", "cleaning"}]

Scan == [from : Heights, to : Heights, ids : SUBSET Messages,
         phase : {"fetching", "querying", "checking", "getting", "adding"}]

\* The app hash in the header of block h tells which blocks below h held a
\* transaction; a message names a block that does.
AppHash(h) == {HeightOf[m] : m \in Messages} \cap 1 .. h - 1
NoHash == {0}

Larger(a, b) == IF a < b THEN b ELSE a

Init ==
    /\ chain \in 1 .. 2
    /\ latest = IF FreshStart THEN 0 ELSE chain
    /\ saved = chain            \* pollStatusUntilSynced() saves it on a fresh start
    /\ appHash = NoHash
    /\ scans = {}
    /\ stage = [m \in Messages |-> "unsent"]
    /\ raw = {} /\ stored = {} /\ lock = {} /\ tasks = {}
    /\ processed = [m \in Messages |-> 0]
    /\ failures = 0
    /\ crashes = 0

-----------------------------------------------------------------------------
(* The chain, and processNewBlock().                                       *)

ChainGrows ==
    /\ chain < MaxHeight
    /\ chain' = chain + 1
    /\ UNCHANGED <<blocks, messages, failures, crashes>>

\* Mutant: the last known block, whose messages still wait, is left out.
NewScanShort(h) == [from |-> latest + 1, to |-> h - 1, ids |-> {}, phase |-> "fetching"]

\* The blocks from the last known one to the one that block h closes.
NewScan(h) == [from |-> latest, to |-> h - 1, ids |-> {}, phase |-> "fetching"]

\* A NewBlock event or a status after a sync tells of height h; events of some
\* heights may be missing.  The range is empty work if no block in it changed
\* the state of the chain, and is unknown if no height was known before.
ProcessNewBlock(h) ==
    /\ h <= chain
    /\ latest < h
    /\ latest' = h
    /\ IF latest # 0 /\ appHash # AppHash(h)
       THEN /\ scans' = scans \cup {NewScan(h)}
            /\ UNCHANGED <<saved, appHash>>
       ELSE /\ appHash' = AppHash(h)
            /\ saved' = Larger(saved, h)
            /\ UNCHANGED scans
    /\ UNCHANGED <<chain, messages, failures, crashes>>

Moves(s, phase, ids) ==
    scans' = (scans \ {s}) \cup {[s EXCEPT !.phase = phase, !.ids = ids]}

\* The block is processed: saveLatestBlockHeight() never lowers the height.
BlockProcessed(s) ==
    /\ scans' = scans \ {s}
    /\ appHash' = AppHash(s.to + 1)
    /\ saved' = Larger(saved, s.to + 1)

\* getParsedTxsInBlocks() returns, handleTendermintNewBlock() is called.
BlocksFetched(s) ==
    /\ s.phase = "fetching"
    /\ Moves(s, "querying", {})
    /\ UNCHANGED <<chain, latest, saved, appHash, messages, failures, crashes>>

\* getParsedTxsInBlocks() throws out of processNewBlock().
FetchFails(s) ==
    /\ s.phase = "fetching"
    /\ failures < MaxFailures
    /\ failures' = failures + 1
    /\ scans' = scans \ {s}
    /\ UNCHANGED <<chain, latest, saved, appHash, messages, crashes>>

-----------------------------------------------------------------------------
(* processMessageInBlocks().                                               *)

\* Redis evaluates the query for the message IDs of the range.
IdsRead(s) ==
    /\ s.phase = "querying"
    /\ Moves(s, "checking", {m \in stored : HeightOf[m] \in s.from .. s.to})
    /\ UNCHANGED <<chain, latest, saved, appHash, messages, failures, crashes>>

\* Mutant: the lock is not looked at.
SkipNone(s) ==
    /\ s.phase = "checking"
    /\ Moves(s, "getting", s.ids)
    /\ UNCHANGED <<chain, latest, saved, appHash, messages, failures, crashes>>

\* The IDs are there: locked messages are left to their handler.
SkipLocked(s) ==
    /\ s.phase = "checking"
    /\ Moves(s, "getting", s.ids \ lock)
    /\ UNCHANGED <<chain, latest, saved, appHash, messages, failures, crashes>>

\* Redis returns the messages: one that is gone is left out.
MessagesRead(s) ==
    /\ s.phase = "getting"
    /\ Moves(s, "adding", s.ids \cap stored)
    /\ UNCHANGED <<chain, latest, saved, appHash, messages, failures, crashes>>

\* addTaskToQueue() for one of the messages is done.
ScanAddsTask(s) ==
    /\ s.phase = "adding"
    /\ \E m \in s.ids :
           /\ Moves(s, "adding", s.ids \ {m})
           /\ tasks' = tasks \cup {[message |-> m, by |-> s.from, phase |-> "queued"]}
    /\ UNCHANGED <<chain, latest, saved, appHash, stage, raw, stored, lock, processed,
                   failures, crashes>>

\* All tasks are added: processNewBlock() goes on.
ScanDone(s) ==
    /\ s.phase = "adding"
    /\ s.ids = {}
    /\ BlockProcessed(s)
    /\ UNCHANGED <<chain, latest, messages, failures, crashes>>

\* A Redis call fails.  handleTendermintNewBlock() catches it and reports it, and
\* the height is saved as if the block had been processed.
ScanFails(s) ==
    /\ s.phase # "fetching"
    /\ failures < MaxFailures
    /\ failures' = failures + 1
    /\ BlockProcessed(s)
    /\ UNCHANGED <<chain, latest, messages, crashes>>

-----------------------------------------------------------------------------
(* A message: onMessage(), processRawMessage() and                         *)
(* handleMessageFromMqWithBlockWait().                                     *)

\* The raw message is saved and acknowledged.
Receive(m) ==
    /\ stage[m] = "unsent"
    /\ HeightOf[m] <= chain
    /\ stage' = [stage EXCEPT ![m] = "received"]
    /\ raw' = raw \cup {m}
    /\ UNCHANGED <<chain, blocks, stored, lock, tasks, processed, failures, crashes>>

\* Mutant: the block of the message itself is taken for its closing block.
TooEarlyStrict(m) == latest < HeightOf[m]

\* latestBlockHeight <= message.height: the block is not yet closed.
TooEarly(m) == latest <= HeightOf[m]

\* The message is decrypted and verified: the raw copy is to be removed, and the
\* message is taken up at once if its block is final, else locked and saved.
HandleMessage(m) ==
    /\ stage[m] = "received"
    /\ IF TooEarly(m)
       THEN /\ lock' = lock \cup {m}
            /\ stage' = [stage EXCEPT ![m] = "saving"]
       ELSE /\ stage' = [stage EXCEPT ![m] = "adding"]
            /\ UNCHANGED lock
    /\ UNCHANGED <<chain, blocks, raw, stored, tasks, processed, failures, crashes>>

\* Redis removes the raw copy, which nobody waits for, before it executes any
\* command that is sent for the message later.
RawRemoved(m) ==
    /\ m \in raw
    /\ stage[m] \in {"saving", "adding"}
    /\ raw' = raw \ {m}
    /\ UNCHANGED <<chain, blocks, stage, stored, lock, tasks, processed, failures, crashes>>

MessageSaved(m) ==
    /\ stage[m] = "saving"
    /\ m \notin raw
    /\ stage' = [stage EXCEPT ![m] = "saved"]
    /\ stored' = stored \cup {m}
    /\ UNCHANGED <<chain, blocks, raw, lock, tasks, processed, failures, crashes>>

\* Mutant: the height is not checked again.
CheckAgainNever(m) ==
    /\ stage[m] = "saved"
    /\ lock' = lock \ {m}
    /\ stage' = [stage EXCEPT ![m] = "over"]
    /\ UNCHANGED <<chain, blocks, raw, stored, tasks, processed, failures, crashes>>

\* After the await the height is checked again: still too low, and the message
\* waits unlocked; else this handler keeps the lock and takes the message back.
CheckAgain(m) ==
    /\ stage[m] = "saved"
    /\ IF TooEarly(m)
       THEN /\ lock' = lock \ {m}
            /\ stage' = [stage EXCEPT ![m] = "over"]
       ELSE /\ stage' = [stage EXCEPT ![m] = "removing"]
            /\ UNCHANGED lock
    /\ UNCHANGED <<chain, blocks, raw, stored, tasks, processed, failures, crashes>>

MessageRemoved(m) ==
    /\ stage[m] = "removing"
    /\ stage' = [stage EXCEPT ![m] = "adding"]
    /\ stored' = stored \ {m}
    /\ UNCHANGED <<chain, blocks, raw, lock, tasks, processed, failures, crashes>>

\* addMqMessageTaskToQueue() is done.
HandlerAddsTask(m) ==
    /\ stage[m] = "adding"
    /\ m \notin raw
    /\ stage' = [stage EXCEPT ![m] = "over"]
    /\ tasks' = tasks \cup {[message |-> m, by |-> 0, phase |-> "queued"]}
    /\ UNCHANGED <<chain, blocks, raw, stored, lock, processed, failures, crashes>>

\* The request queue runs the task.
StartTask(t) ==
    /\ t.phase = "queued"
    /\ tasks' = (tasks \ {t}) \cup {[t EXCEPT !.phase = "running"]}
    /\ processed' = [processed EXCEPT ![t.message] = @ + 1]
    /\ UNCHANGED <<chain, blocks, stage, raw, stored, lock, failures, crashes>>

\* releaseLock(), or releaseLockAndCleanUp() for the task of a scan: the stored
\* copy is to be removed.
FinishTask(t) ==
    /\ t.phase = "running"
    /\ lock' = lock \ {t.message}
    /\ tasks' = IF t.by = 0 THEN tasks \ {t}
                ELSE (tasks \ {t}) \cup {[t EXCEPT !.phase = "cleaning"]}
    /\ UNCHANGED <<chain, blocks, stage, raw, stored, processed, failures, crashes>>

\* cleanUpMessage(), which nobody waits for.
CleanUpMessage(t) ==
    /\ t.phase = "cleaning"
    /\ tasks' = tasks \ {t}
    /\ stored' = stored \ {t.message}
    /\ UNCHANGED <<chain, blocks, stage, raw, lock, processed, failures, crashes>>

-----------------------------------------------------------------------------
\* The process dies and is started again: loadSavedData() reads the height,
\* loadAndProcessBacklogMessages() takes up the raw messages.
CrashAndRestart ==
    /\ crashes < MaxCrashes
    /\ crashes' = crashes + 1
    /\ latest' = saved
    /\ appHash' = NoHash
    /\ scans' = {} /\ lock' = {} /\ tasks' = {}
    /\ stage' = [m \in Messages |-> IF m \in raw THEN "received"
                                    ELSE IF stage[m] = "unsent" THEN "unsent" ELSE "over"]
    /\ processed' = [m \in Messages |-> 0]
    /\ UNCHANGED <<chain, saved, raw, stored, failures>>

ScanStep(s) == \/ BlocksFetched(s) \/ IdsRead(s) \/ SkipLocked(s) \/ MessagesRead(s)
               \/ ScanAddsTask(s) \/ ScanDone(s)
HandlerStep(m) == \/ HandleMessage(m) \/ RawRemoved(m) \/ MessageSaved(m) \/ CheckAgain(m)
                  \/ MessageRemoved(m) \/ HandlerAddsTask(m)
TaskStep(t) == StartTask(t) \/ FinishTask(t) \/ CleanUpMessage(t)

Next ==
    \/ ChainGrows
    \/ \E h \in Heights : ProcessNewBlock(h)
    \/ \E s \in scans : ScanStep(s) \/ FetchFails(s) \/ ScanFails(s)
    \/ \E m \in Messages : Receive(m) \/ HandlerStep(m)
    \/ \E t \in tasks : TaskStep(t)
    \/ CrashAndRestart

Spec == Init /\ [][Next]_vars

\* Tendermint closes every block that holds a transaction with another one, the
\* node learns of it, and started work goes on.  Nobody has to send a message.
Fairness ==
    /\ WF_vars(ChainGrows)
    /\ WF_vars(\E h \in Heights : ProcessNewBlock(h))
    /\ \A f \in Heights : WF_vars(\E s \in scans : s.from = f /\ ScanStep(s))
    /\ \A m \in Messages : WF_vars(HandlerStep(m))
    /\ \A m \in Messages : WF_vars(\E t \in tasks : t.message = m /\ TaskStep(t))

FairSpec == Spec /\ Fairness

-----------------------------------------------------------------------------
(* Properties.                                                             *)

\* Every variable has the values its counterpart can have.
TypeOK ==
    /\ chain \in Heights
    /\ latest \in 0 .. chain
    /\ saved \in 0 .. chain
    /\ appHash \subseteq 0 .. MaxHeight
    /\ scans \subseteq Scan
    /\ stage \in [Messages -> Stages]
    /\ raw \subseteq Messages /\ stored \subseteq Messages /\ lock \subseteq Messages
    /\ tasks \subseteq Task
    /\ processed \in [Messages -> Nat]
    /\ failures \in 0 .. MaxFailures
    /\ crashes \in 0 .. MaxCrashes

\* No message is processed before the node knows the block that closes the one
\* the message refers to, so what it says can be checked against the chain.
NeverEarly ==
    [][\A m \in Messages : processed'[m] > processed[m] => HeightOf[m] < latest]_vars

\* The handler of a message and the processing of its block never both take it:
\* one process handles no message twice (messageProcessLock, removal on the
\* second check of the height).
AtMostOnce == \A m \in Messages : processed[m] <= 1

\* A message left waiting whose block has been passed is still on the way to be
\* seen by the processing of a range: ranges neither overlap nor leave gaps,
\* skipping a range of unchanged app hash passes over no message, and neither
\* side leaves a message to the other when the other has left it too; unless a
\* call has failed or the process has crashed.
NoneForgotten ==
    \A m \in stored \ lock :
        HeightOf[m] < latest /\ failures = 0 /\ crashes = 0 =>
            \/ \E t \in tasks : t.message = m
            \/ \E s \in scans :
                   /\ HeightOf[m] \in s.from .. s.to
                   /\ s.phase \in {"fetching", "querying"} \/ m \in s.ids

\* Every message received is processed, unless a call fails or the process
\* crashes.
EveryMessageProcessed ==
    \A m \in Messages :
        stage[m] = "received" ~> processed[m] > 0 \/ failures > 0 \/ crashes > 0

\* Nothing is left behind in Redis or in the lock table for a message that has
\* been processed.
LeavesNothingBehind ==
    \A m \in Messages : processed[m] > 0 ~> m \notin stored \cup lock \cup raw \/ crashes > 0

\* A message on its way gets processed and leaves nothing behind
\* (handleMessageFromMqWithBlockWait(), processMessageInBlocks()).
MessagesMove == EveryMessageProcessed /\ LeavesNothingBehind

=============================================================================
