------------------------------ MODULE SendCall ------------------------------
(***************************************************************************)
(* What the message queue service promises to the main server: a call of   *)
(* sendMessage is answered at most once, with success only when the        *)
(* receiver has acknowledged the message, and is then over for good.       *)
(***************************************************************************)
CONSTANTS Calls, Messages, MessageOf(_)

VARIABLES
    answer,         \* "none", or "ok" or "failed" when a call was answered
    acknowledged    \* messages the receiver has acknowledged

vars == <<answer, acknowledged>>

Init == answer = [c \in Calls |-> "none"] /\ acknowledged = {}

Acknowledge(m) == acknowledged' = acknowledged \cup {m} /\ UNCHANGED answer

Succeed(c) ==
    /\ answer[c] = "none"
    /\ MessageOf(c) \in acknowledged
    /\ answer' = [answer EXCEPT ![c] = "ok"]
    /\ UNCHANGED acknowledged

Fail(c) ==
    /\ answer[c] = "none"
    /\ answer' = [answer EXCEPT ![c] = "failed"]
    /\ UNCHANGED acknowledged

Next ==
    \/ \E m \in Messages : Acknowledge(m)
    \/ \E c \in Calls : Succeed(c) \/ Fail(c)

Spec == Init /\ [][Next]_vars

=============================================================================
