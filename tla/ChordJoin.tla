------------------------------ MODULE ChordJoin ------------------------------
(***************************************************************************)
(* The chord header, from the delivery of its tasks to the fate of the     *)
(* body: ResultMiddleware.consume_scope (middlewares.py),                  *)
(* CanvasDispatcher.on_chord_part and _fail_chord (canvas.py), and         *)
(* record_chord_part, join_group and clear_chord (backend/redis.py).       *)
(*                                                                         *)
(* Executors -- processes that share the Redis backend and the broker --   *)
(* take header tasks, run them and join the group through three Redis      *)
(* keys.  An action is one round trip to Redis or to the broker, or what   *)
(* happens between two; every round trip may fail, which the               *)
(* acknowledgement policy answers, and a connection may be lost, which     *)
(* redelivers a task whose first delivery is still being executed.         *)
(* The Celery client, which sends the header and sets the group size       *)
(* before the last task, and the broker are external.                      *)
(***************************************************************************)
EXTENDS Naturals, Sequences, FiniteSets, SequencesExt

CONSTANTS
    Size,        \* number of header tasks
    Executors,
    Outcomes,    \* how a handler may end: a subset of {"ok", "bad"}
    MaySave,     \* may the client have saved the GroupResult?
    MaySkip,     \* header tasks that may carry ignore_result
    OnError,     \* what the policy does after an exception: "rejected" or "requeued"
    MaxFaults,   \* bound: failed round trips
    MaxLosses    \* bound: connections lost with a delivery unsettled

ASSUME SizeAssumption == Size \in Nat \ {0}
ASSUME OutcomeAssumption == Outcomes \subseteq {"ok", "bad"} /\ Outcomes # {}
ASSUME SwitchAssumption == MaySave \in BOOLEAN
ASSUME PolicyAssumption == OnError \in {"rejected", "requeued"}
ASSUME BoundAssumption == MaxFaults \in Nat /\ MaxLosses \in Nat

Header == 1..Size

VARIABLES
    sent,        \* header tasks the client has sent, in order
    size,        \* the key .s (0: absent)
    journal,     \* the key .j: a sorted set of entries <<index, outcome>>
    meta,        \* of a header task: its key celery-task-meta-<id>
    saved,       \* did the client save the GroupResult?
    ignores,     \* header tasks with ignore_result
    status,      \* of a header task: its message at the broker
    work,        \* of an executor: the delivery it executes
    bodies,      \* argument lists the body was published with, in order
    doubt,       \* did a publication of the body raise after it had reached the broker?
    failures,    \* times the body was stored as failed
    errbacks,    \* times the errbacks of the body were published
    faults, losses

keys == <<size, journal, meta>>
given == <<saved, ignores>>
body == <<bodies, doubt, failures, errbacks>>
vars == <<sent, keys, given, status, work, body, faults, losses>>

Entries == Header \X {"ok", "bad"}
Steps == {"idle", "handler", "store", "record", "look", "read", "join", "decide", "fail",
          "errback", "clear", "settle"}
Idle == [at |-> "idle", task |-> 0, outcome |-> "none", parts |-> <<>>, owns |-> FALSE]

TypeOK ==
    /\ sent \in 0..Size /\ size \in {0, Size}
    /\ journal \subseteq Entries
    /\ meta \in [Header -> {"none", "ok", "bad"}]
    /\ saved \in BOOLEAN /\ ignores \subseteq MaySkip
    /\ status \in [Header -> {"unsent", "ready", "unacked", "acked", "rejected"}]
    /\ work \in [Executors -> [at : Steps, task : 0..Size, outcome : {"none", "ok", "bad"},
                               parts : Seq(Entries), owns : BOOLEAN]]
    /\ bodies \in Seq(Seq(Entries)) /\ doubt \in BOOLEAN
    /\ failures \in Nat /\ errbacks \in Nat
    /\ faults \in 0..MaxFaults /\ losses \in 0..MaxLosses

Init ==
    /\ sent = 0 /\ size = 0 /\ journal = {}
    /\ meta = [i \in Header |-> "none"]
    /\ saved \in IF MaySave THEN BOOLEAN ELSE {FALSE}
    /\ ignores \in SUBSET MaySkip
    /\ status = [i \in Header |-> "unsent"]
    /\ work = [e \in Executors |-> Idle]
    /\ bodies = <<>> /\ doubt = FALSE /\ failures = 0 /\ errbacks = 0
    /\ faults = 0 /\ losses = 0

-----------------------------------------------------------------------------
(* The client and the broker *)

\* The client sends the header in order, and sets the size before the last task.
SetSize ==
    /\ sent = Size - 1 /\ size = 0
    /\ size' = Size
    /\ UNCHANGED <<sent, journal, meta, given, status, work, body, faults, losses>>

Send ==
    /\ sent < Size /\ (sent = Size - 1 => size = Size)
    /\ sent' = sent + 1
    /\ status' = [status EXCEPT ![sent + 1] = "ready"]
    /\ UNCHANGED <<keys, given, work, body, faults, losses>>

\* The connection an executor reads from is lost: the broker redelivers the task,
\* while the executor goes on with it.
Lose(e) ==
    /\ losses < MaxLosses /\ losses' = losses + 1
    /\ work[e].owns
    /\ work' = [work EXCEPT ![e].owns = FALSE]
    /\ status' = [status EXCEPT ![work[e].task] = "ready"]
    /\ UNCHANGED <<sent, keys, given, body, faults>>

\* The process of an executor dies.
Crash(e) ==
    /\ losses < MaxLosses /\ losses' = losses + 1
    /\ work[e].at # "idle"
    /\ work' = [work EXCEPT ![e] = Idle]
    /\ status' = [status EXCEPT ![work[e].task] = IF work[e].owns THEN "ready" ELSE @]
    /\ UNCHANGED <<sent, keys, given, body, faults>>

-----------------------------------------------------------------------------
(* The executor *)

At(e, step) == work[e].at = step
Goto(e, step) == work' = [work EXCEPT ![e].at = step]
With(e, step, parts) == work' = [work EXCEPT ![e].at = step, ![e].parts = parts]

\* The delivery ends; settling a lost one does nothing.
End(e, outcome) ==
    /\ work' = [work EXCEPT ![e] = Idle]
    /\ status' = [status EXCEPT ![work[e].task] =
                      IF ~work[e].owns THEN @
                      ELSE IF outcome = "requeued" THEN "ready" ELSE outcome]

\* A round trip raises: the exception leaves consume_scope, the policy settles.
Raise(e) ==
    /\ faults < MaxFaults /\ faults' = faults + 1
    /\ End(e, OnError)

Take(e, i) ==
    /\ At(e, "idle") /\ status[i] = "ready"
    /\ status' = [status EXCEPT ![i] = "unacked"]
    /\ work' = [work EXCEPT ![e] = [Idle EXCEPT !.at = "handler", !.task = i, !.owns = TRUE]]
    /\ UNCHANGED <<sent, keys, given, body, faults, losses>>

\* The handler ends.  should_report_outcome: a failure that will be requeued is
\* not an outcome.
Reports(outcome) == outcome = "ok" \/ OnError = "rejected"
Handle(e) ==
    /\ At(e, "handler")
    /\ \E outcome \in Outcomes :
          \/ /\ Reports(outcome)
             /\ work' = [work EXCEPT ![e].outcome = outcome, ![e].at =
                             IF work[e].task \in ignores THEN "record" ELSE "store"]
             /\ UNCHANGED <<status, faults>>
          \/ ~Reports(outcome) /\ Raise(e)
    /\ UNCHANGED <<sent, keys, given, body, losses>>

\* _report: the result meta.
SetMeta(e) ==
    /\ meta' = [meta EXCEPT ![work[e].task] = work[e].outcome]
    /\ UNCHANGED <<size, journal>>
Store(e) ==
    /\ At(e, "store")
    /\ SetMeta(e)
    /\ Goto(e, "record")
    /\ UNCHANGED <<sent, given, status, body, faults, losses>>

\* record_chord_part: one transaction adds the entry and reads both counts.
Entry(e) == <<work[e].task, work[e].outcome>>
AddEntry(e) == journal' = journal \cup {Entry(e)} /\ UNCHANGED <<size, meta>>
ReadyIfNew(entries, entry) ==
    size # 0 /\ Cardinality(entries) = size /\ entry \notin journal
Ready(entries, entry) == size # 0 /\ Cardinality(entries) = size
Record(e) ==
    /\ At(e, "record")
    /\ AddEntry(e)
    /\ Goto(e, IF Ready(journal \cup {Entry(e)}, Entry(e)) THEN "look" ELSE "settle")
    /\ UNCHANGED <<sent, given, status, body, faults, losses>>

\* Has the client saved the group?
Look(e) ==
    /\ At(e, "look")
    /\ Goto(e, IF saved THEN "join" ELSE "read")
    /\ UNCHANGED <<sent, keys, given, status, body, faults, losses>>

\* ZRANGE: the entries by group index, those of one index by their text.
Precedes(p, q) == p[1] < q[1] \/ (p[1] = q[1] /\ p[2] = "bad" /\ q[2] = "ok")
InOrder(entries) ==
    CHOOSE s \in [1..Cardinality(entries) -> entries] :
        \A i, j \in 1..Cardinality(entries) : i < j => Precedes(s[i], s[j])
Read(e) ==
    /\ At(e, "read")
    /\ With(e, "decide", InOrder(journal))
    /\ UNCHANGED <<sent, keys, given, status, body, faults, losses>>

\* join_group: one MGET of the results not read yet; those read are kept.  A
\* failed leaf ends the join at once, the deadline with a ChordJoinError.
JoinAny(found) == found # {}
JoinAll(found) == Cardinality(found) = Size
Join(e) ==
    LET kept    == Range(work[e].parts)
        fresh   == {i \in Header : meta[i] # "none" /\ \A p \in kept : p[1] # i}
        found   == kept \cup {<<i, meta[i]>> : i \in fresh}
        failing == {p \in found : p[2] = "bad"}
    IN  /\ At(e, "join")
        /\ \/ failing # {} /\ \E p \in failing : With(e, "decide", <<p>>)
           \/ failing = {} /\ JoinAll(found) /\ With(e, "decide", InOrder(found))
           \/ failing = {} /\ ~JoinAll(found) /\ With(e, "join", InOrder(found))
        /\ UNCHANGED <<sent, keys, given, status, body, faults, losses>>

JoinTimeout(e) ==
    /\ At(e, "join") /\ Cardinality({i \in Header : meta[i] # "none"}) # Size
    /\ Goto(e, "fail")
    /\ UNCHANGED <<sent, keys, given, status, body, faults, losses>>

\* on_chord_part: a failed part fails the body, otherwise the body is published.  A
\* publication that raises one of PUBLISH_ERRORS fails the body too, though it may have
\* reached the broker before it raised.
Fails(parts) == \E p \in Range(parts) : p[2] = "bad"
PublishTwice(e) == bodies' = bodies \o <<work[e].parts, work[e].parts>>
PublishBody(e) == bodies' = Append(bodies, work[e].parts)
Decide(e) ==
    /\ At(e, "decide")
    /\ \/ /\ Fails(work[e].parts)
          /\ Goto(e, "fail")
          /\ UNCHANGED <<bodies, doubt, faults>>
       \/ /\ ~Fails(work[e].parts)
          /\ PublishBody(e)
          /\ Goto(e, "clear")
          /\ UNCHANGED <<doubt, faults>>
       \/ /\ ~Fails(work[e].parts)
          /\ faults < MaxFaults /\ faults' = faults + 1
          /\ \/ UNCHANGED <<bodies, doubt>>
             \/ PublishBody(e) /\ doubt' = TRUE
          /\ Goto(e, "fail")
    /\ UNCHANGED <<sent, keys, given, status, failures, errbacks, losses>>

\* _fail_chord: the failure of the body, then its errbacks.
SetFailure == failures' = failures + 1 /\ UNCHANGED <<bodies, doubt, errbacks>>
StoreFailure(e) ==
    /\ At(e, "fail")
    /\ SetFailure
    /\ Goto(e, "errback")
    /\ UNCHANGED <<sent, keys, given, status, faults, losses>>

PublishErrbacks == errbacks' = errbacks + 1 /\ UNCHANGED <<bodies, doubt, failures>>
Errback(e) ==
    /\ At(e, "errback")
    /\ PublishErrbacks
    /\ Goto(e, "clear")
    /\ UNCHANGED <<sent, keys, given, status, faults, losses>>

\* clear_chord.
KeepSize(e) == journal' = {} /\ size' = size + 1 /\ UNCHANGED meta
Delete(e) == journal' = {} /\ size' = 0 /\ UNCHANGED meta
Clear(e) ==
    /\ At(e, "clear")
    /\ Delete(e)
    /\ Goto(e, "settle")
    /\ UNCHANGED <<sent, given, status, body, faults, losses>>

\* The exception of a failed handler goes on to the policy; success is acked.
Finish(e) ==
    /\ At(e, "settle")
    /\ End(e, IF work[e].outcome = "ok" THEN "acked" ELSE OnError)
    /\ UNCHANGED <<sent, keys, given, body, faults, losses>>

\* A round trip fails, before or after it has taken effect in Redis or at the broker.
Fault(e) ==
    /\ work[e].at \in {"store", "record", "look", "read", "join", "fail", "errback", "clear"}
    /\ Raise(e)
    /\ \/ UNCHANGED <<keys, body>>
       \/ At(e, "store") /\ SetMeta(e) /\ UNCHANGED body
       \/ At(e, "record") /\ AddEntry(e) /\ UNCHANGED body
       \/ At(e, "fail") /\ SetFailure /\ UNCHANGED keys
       \/ At(e, "errback") /\ PublishErrbacks /\ UNCHANGED keys
       \/ At(e, "clear") /\ Delete(e) /\ UNCHANGED body
    /\ UNCHANGED <<sent, given, losses>>

Step(e) ==
    \/ Handle(e) \/ Store(e) \/ Record(e) \/ Look(e) \/ Read(e) \/ Join(e) \/ JoinTimeout(e)
    \/ Decide(e) \/ StoreFailure(e) \/ Errback(e) \/ Clear(e) \/ Finish(e)

Next ==
    \/ SetSize \/ Send
    \/ \E e \in Executors : Lose(e) \/ Crash(e) \/ Fault(e) \/ Step(e)
    \/ \E e \in Executors, i \in Header : Take(e, i)

Spec == Init /\ [][Next]_vars

\* The client sends the whole header, executors take what is ready and go on with
\* it, and a join that cannot complete meets its deadline.
FairSpec ==
    /\ Spec
    /\ WF_vars(SetSize \/ Send)
    /\ \A e \in Executors :
          /\ WF_vars(Step(e))
          /\ WF_vars(JoinTimeout(e))
          /\ WF_vars(\E i \in Header : Take(e, i))

-----------------------------------------------------------------------------
(* Properties *)

\* "The executor completing the group publishes the body with results in header
\* order" (docs/design.md): every publication has one result per header task.
BodyIsWhole ==
    \A n \in 1..Len(bodies) : bodies[n] = [i \in Header |-> <<i, "ok">>]

\* The same of a saved group, whose results are read one by one from their own
\* keys: redeliveries and executors that clear the journal do not matter (join_group).
SavedBodyIsWhole == saved => BodyIsWhole

\* Every chord comes to an end its client sees: the body is published, or its
\* failure is stored and its errbacks are published -- also after a failed read of
\* a ready group (ADR-0006).
ChordEnds == <>(bodies # <<>> \/ errbacks > 0)

\* A chord is what ChordBarrier says: body, failure and errbacks happen once, and a body
\* that was published is failed only by the executor whose publication of it raised.
Abstract == INSTANCE ChordBarrier WITH results <- meta
ImplementsBarrier == Abstract!Spec
=============================================================================
