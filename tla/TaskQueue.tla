----------------------------- MODULE TaskQueue ------------------------------
(***************************************************************************)
(* What a subscriber relies on, whatever connection serves it: a task is   *)
(* delivered, settled or returned to the queue, and it leaves the queue    *)
(* only by a settlement asked for since its last delivery.  Nothing else   *)
(* of the broker (order, routing, persistence) is promised.                *)
(***************************************************************************)
CONSTANT Messages
VARIABLES status, asked

Settlements == {"acked", "rejected", "requeued"}

Init ==
    /\ status = [m \in Messages |-> "ready"]
    /\ asked = [m \in Messages |-> {}]

Deliver(m) ==
    /\ status[m] = "ready"
    /\ status' = [status EXCEPT ![m] = "unacked"]
    /\ UNCHANGED asked

Ask(m, op) ==
    /\ status[m] = "unacked"
    /\ asked' = [asked EXCEPT ![m] = @ \cup {op}]
    /\ UNCHANGED status

Settle(m, op) ==
    /\ status[m] = "unacked" /\ op \in asked[m]
    /\ status' = [status EXCEPT ![m] = IF op = "requeued" THEN "ready" ELSE op]
    /\ asked' = [asked EXCEPT ![m] = {}]

\* A connection ends: what it held is ready again, and what was asked is void.
Return(S) ==
    /\ \A m \in S : status[m] = "unacked"
    /\ status' = [m \in Messages |-> IF m \in S THEN "ready" ELSE status[m]]
    /\ asked' = [m \in Messages |-> IF m \in S THEN {} ELSE asked[m]]

Next ==
    \/ \E m \in Messages : Deliver(m)
    \/ \E m \in Messages, op \in Settlements : Ask(m, op) \/ Settle(m, op)
    \/ \E S \in SUBSET Messages : Return(S)

Spec == Init /\ [][Next]_<<status, asked>>
=============================================================================
