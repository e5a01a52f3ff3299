---------------------------- MODULE ResultRequest ----------------------------
(***************************************************************************)
(* What request() promises, however the result travels (README.md, "To     *)
(* wait for a result"): it waits for a terminal state of its own task,     *)
(* intermediate states keep it waiting, and otherwise it raises.           *)
(***************************************************************************)
CONSTANTS
    Callers,
    Terminal    \* the outcomes that complete a task

VARIABLES
    asking,     \* callers with a request in progress
    finished,   \* of a caller's request: the terminal outcomes its task had so far
    reply       \* of a caller: what its last request returned, or that it raised

vars == <<asking, finished, reply>>

Init ==
    /\ asking = {}
    /\ finished = [p \in Callers |-> {}]
    /\ reply = [p \in Callers |-> "raised"]

\* A request is in progress, or raised at once.
Ask(p) ==
    /\ p \notin asking
    /\ asking' \in {asking, asking \cup {p}}
    /\ finished' = [finished EXCEPT ![p] = {}]
    /\ reply' = [reply EXCEPT ![p] = "raised"]

\* The executor finishes the tasks of some requests, each with some outcome.
Finish ==
    /\ finished' \in [Callers -> SUBSET Terminal]
    /\ \A p \in Callers : finished[p] \subseteq finished'[p]
    /\ UNCHANGED <<asking, reply>>

Return(p) ==
    /\ p \in asking
    /\ asking' = asking \ {p}
    /\ reply' \in {[reply EXCEPT ![p] = r] : r \in finished[p] \cup {"raised"}}
    /\ UNCHANGED finished

Next == Finish \/ \E p \in Callers : Ask(p) \/ Return(p)
Spec == Init /\ [][Next]_vars
=============================================================================
