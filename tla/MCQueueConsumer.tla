--------------------------- MODULE MCQueueConsumer ---------------------------
(* Small instances of QueueConsumer for TLC. *)
EXTENDS QueueConsumer, TLC

CONSTANTS a, b, p, any, t1, t2, x, y, z

\* a claims the task x, b every task, or y; p has no handler and pulls.
ClaimXAny == (a :> x) @@ (b :> any) @@ (p :> any)
ClaimXY   == (a :> x) @@ (b :> y) @@ (p :> any)

NamesXY == (t1 :> x) @@ (t2 :> y)
NamesXX == (t1 :> x) @@ (t2 :> x)
NamesXZ == (t1 :> x) @@ (t2 :> z)

Due          == [t \in {t1, t2} |-> {"now"}]
AnyFate      == [t \in {t1, t2} |-> {"now", "defer", "expired"}]
DueOrLater   == [t \in {t1, t2} |-> {"now", "defer"}]
=============================================================================
