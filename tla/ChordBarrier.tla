----------------------------- MODULE ChordBarrier -----------------------------
(***************************************************************************)
(* What a chord promises its client: the header tasks finish one by one,   *)
(* and once all of them have, the body is published with all their results *)
(* in header order, or it is failed -- for certain if a header task        *)
(* failed, and possibly if the body cannot be published -- and then its    *)
(* errbacks are published.  Each of the three happens once at most.  A     *)
(* body that was published is failed only if its publisher could not know: *)
(* the publication was in doubt.                                           *)
(***************************************************************************)
EXTENDS Naturals

CONSTANT Size     \* number of header tasks

VARIABLES
    results,      \* of a header task: its outcome
    bodies,       \* what the body was published with, each time
    doubt,        \* was it published by a publication that raised?
    failures,     \* times the body was stored as failed
    errbacks      \* times its errbacks were published

vars == <<results, bodies, doubt, failures, errbacks>>

Header == 1..Size

Init ==
    /\ results = [i \in Header |-> "none"]
    /\ bodies = <<>> /\ doubt = FALSE
    /\ failures = 0 /\ errbacks = 0

Finish(i) ==
    /\ results[i] = "none"
    /\ \E outcome \in {"ok", "bad"} : results' = [results EXCEPT ![i] = outcome]
    /\ UNCHANGED <<bodies, doubt, failures, errbacks>>

Complete == \A i \in Header : results[i] # "none"

Publish ==
    /\ bodies = <<>> /\ failures = 0
    /\ \A i \in Header : results[i] = "ok"
    /\ bodies' = <<[i \in Header |-> <<i, "ok">>]>>
    /\ doubt' \in BOOLEAN
    /\ UNCHANGED <<results, failures, errbacks>>

Fail ==
    /\ Complete /\ failures = 0
    /\ bodies = <<>> \/ doubt
    /\ failures' = 1
    /\ UNCHANGED <<results, bodies, doubt, errbacks>>

Errback ==
    /\ failures = 1 /\ errbacks = 0
    /\ errbacks' = 1
    /\ UNCHANGED <<results, bodies, doubt, failures>>

Next == Publish \/ Fail \/ Errback \/ \E i \in Header : Finish(i)

Spec == Init /\ [][Next]_vars
=============================================================================
