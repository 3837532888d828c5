------------------------------ MODULE Responder ------------------------------
(***************************************************************************)
(* What an IdP (IdpNode) and an AS (AsNode) have in common: the message    *)
(* with a request and the blocks with news of it are tasks of one queue;   *)
(* beside the queue, what the client gives for the request, an answer or   *)
(* data, goes from one step to the next, through the blockchain to the RP. *)
(***************************************************************************)
EXTENDS Integers, Sequences, FiniteSets

CONSTANTS
    None,
    MaxFailures,    \* bound: reads, transactions and sends that fail
    MaxCrashes      \* bound: stops of the process

VARIABLES
    status,         \* chain: the state of the request
    unseen,         \* what is still to be read: heights, or whether it is the end
    queue,          \* tasks of the request; the first is running
    step,           \* the step each answer or data has before it
    sent,           \* answers or data that have gone to the RP
    told,           \* what the client was told of each
    missed,         \* an end of the request that became no task, or was lost with it
    failures, crashes

Fails == failures < MaxFailures /\ failures' = failures + 1

\* The task that is running, and what it goes on with.
At(task) == queue # <<>> /\ Head(queue) = task
Becomes(task) == queue' = <<task>> \o Tail(queue)

To(a, next) == step' = [step EXCEPT ![a] = next]
Goes(a, at, next) == step[a] = at /\ To(a, next)
Tell(a, what) == told' = [told EXCEPT ![a] = @ \cup {what}]

=============================================================================
