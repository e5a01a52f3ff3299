----------------------------- MODULE TaskOutcome -----------------------------
(***************************************************************************)
(* What becomes of one task message: CeleryResultMiddleware.consume_scope  *)
(* (middlewares.py), the continuations of CanvasDispatcher (canvas.py),    *)
(* failed_chain_results (schemas/result.py), the automatic reply, the      *)
(* acknowledgement policy and CelerySubscriber._settle_unhandled           *)
(* (subscriber/usecase.py).                                                *)
(*                                                                         *)
(* A worker takes the message, acknowledges it first or not, runs the      *)
(* handler, and reports: one effect -- a stored result, a reply, a chord   *)
(* part, a published signature -- after the other, each a round trip that  *)
(* may fail.  A failure leaves the rest undone and goes to the policy.     *)
(* A lost connection redelivers the message while its first delivery is    *)
(* still being processed, so several attempts may run at once.  How a      *)
(* chord part joins its group is ChordJoin's matter.                       *)
(***************************************************************************)
EXTENDS Naturals, Sequences, FiniteSets, SequencesExt

CONSTANTS
    Workers,
    Tasks,       \* the messages the run chooses from
    Policies,    \* the acknowledgement policies it chooses from
    Fates,       \* how handlers end
    MaxFaults,   \* bound: effects that fail
    MaxLosses    \* bound: connections lost, processes dead

AllPolicies == {"ACK_FIRST", "ACK", "REJECT_ON_ERROR", "NACK_ON_ERROR", "MANUAL"}
Instructions == {"ack", "nack", "reject", "skip"}   \* FastStream's HandlerException
Dispositions == {"none", "acked", "requeued", "rejected"}

\* A handler settles the message itself or does not, and then returns, raises an
\* error or raises an instruction; a message that no filter accepts has no handler.
Unmatched == [settles |-> "none", ends |-> "unmatched"]
AllFates == [settles : Dispositions, ends : {"return", "error"} \cup Instructions] \cup {Unmatched}

\* What a message carries, as far as its report depends on it: its options, a chord and
\* callbacks, the rest of its chain, and what validate_signature will refuse.
Kinds == {"success", "failure", "reply", "failure reply", "chord", "callback", "next", "errback"}
Signatures == [frozen : BOOLEAN, reply_to : BOOLEAN, chord : BOOLEAN]
Messages == [ignores : BOOLEAN, reply_to : BOOLEAN, no_reply : BOOLEAN, chord : BOOLEAN,
             linked : BOOLEAN, errors : BOOLEAN, unsupported : SUBSET Kinds,
             chain : Seq(Signatures)]

ASSUME TaskAssumption == Tasks \subseteq Messages
ASSUME PolicyAssumption == Policies \subseteq AllPolicies /\ Policies # {}
ASSUME FateAssumption == Fates \subseteq AllFates /\ Fates # {}
ASSUME BoundAssumption == MaxFaults \in Nat /\ MaxLosses \in Nat

VARIABLES
    task,        \* the message: its options and what it carries
    policy,
    status,      \* of the message at the broker
    work,        \* of a worker: its attempt
    done,        \* effects that took place, in any attempt
    faults, losses

vars == <<task, policy, status, work, done, faults, losses>>

Steps == {"idle", "receive", "handler", "scope", "reply", "exit", "unhandled", "held"}
NoFate == [settles |-> "none", ends |-> "none"]
Idle == [at |-> "idle", fate |-> NoFate, raising |-> "none", committed |-> "none",
         plan |-> <<>>, did |-> {}, owns |-> FALSE]

\* An effect and its subject: 0 is the task itself, n the nth signature of its chain.
Effects == Kinds \X (0..Len(task.chain))
Attempts == [at : Steps, fate : Fates \cup {NoFate},
             raising : {"none", "error", "unmatched"} \cup Instructions,
             committed : Dispositions, plan : Seq(Effects), did : SUBSET Effects, owns : BOOLEAN]

TypeOK ==
    /\ task \in Tasks /\ policy \in Policies
    /\ status \in {"ready", "unacked", "acked", "rejected"}
    /\ work \in [Workers -> Attempts]
    /\ done \subseteq Effects
    /\ faults \in 0..MaxFaults /\ losses \in 0..MaxLosses
    /\ status = "unacked" <=> \E w \in Workers : work[w].owns

Init ==
    /\ task \in Tasks /\ policy \in Policies
    /\ status = "ready"
    /\ work = [w \in Workers |-> Idle]
    /\ done = {}
    /\ faults = 0 /\ losses = 0

-----------------------------------------------------------------------------
(* What an attempt reports *)

When(condition, effect) == IF condition THEN <<effect>> ELSE <<>>

\* _report: ignore_result of the executed task suppresses storage and reply, for
\* the tasks downstream as well; no_reply of the subscriber only the reply.
Report(result, n, reply_to) ==
    When(~task.ignores, <<result, n>>)
        \o When(~task.ignores /\ reply_to /\ ~task.no_reply, <<"failure reply", n>>)

Continuations == When(task.linked, <<"callback", 0>>) \o When(task.chain # <<>>, <<"next", 0>>)

\* on_success fires the callbacks and steps the chain.
SuccessPlan ==
    Report("success", 0, FALSE) \o When(task.chord, <<"chord", 0>>) \o Continuations

Downstream(n) ==
    IF task.chain[n].frozen
    THEN Report("failure", n, task.chain[n].reply_to) \o When(task.chain[n].chord, <<"chord", n>>)
    ELSE <<>>

FailurePlan ==
    Report("failure", 0, task.reply_to) \o When(task.chord, <<"chord", 0>>)
        \o FlattenSeq([n \in 1..Len(task.chain) |-> Downstream(n)])
        \o When(task.errors, <<"errback", 0>>)

\* should_report_outcome.
IgnoresPolicy(committed, failed) == committed \notin {"requeued", "rejected"}
IgnoresCommitted(committed, failed) == failed => policy # "NACK_ON_ERROR"
Reports(committed, failed) ==
    /\ committed \notin {"requeued", "rejected"}
    /\ failed /\ committed = "none" => policy # "NACK_ON_ERROR"

-----------------------------------------------------------------------------
(* The broker *)

Set(w, attempt) == work' = [work EXCEPT ![w] = attempt]

Take(w) ==
    /\ work[w].at = "idle" /\ status = "ready"
    /\ status' = "unacked"
    /\ Set(w, [Idle EXCEPT !.at = "receive", !.owns = TRUE])
    /\ UNCHANGED <<task, policy, done, faults, losses>>

\* The connection is lost and the attempt goes on, or the process dies with it; a
\* delivery that nobody processes any more just goes back.
Lose(w) ==
    /\ losses < MaxLosses /\ losses' = losses + 1
    /\ work[w].owns
    /\ status' = "ready"
    /\ \/ work[w].at # "held" /\ Set(w, [work[w] EXCEPT !.owns = FALSE])
       \/ Set(w, Idle)
    /\ UNCHANGED <<task, policy, done, faults>>

\* CeleryMessage.settle: once; it raises, and commits nothing, on a lost delivery.
SettlesAnyway(attempt, disposition) == disposition # "none"
Settles(attempt, disposition) ==
    attempt.committed = "none" /\ attempt.owns /\ disposition # "none"
Settled(attempt, disposition) ==
    IF Settles(attempt, disposition)
    THEN [attempt EXCEPT !.committed = disposition, !.owns = FALSE]
    ELSE attempt
StatusAfter(attempt, disposition) ==
    IF ~Settles(attempt, disposition) THEN status
    ELSE IF disposition = "requeued" THEN "ready" ELSE disposition

-----------------------------------------------------------------------------
(* An attempt *)

\* A message no filter accepts goes by the middlewares.  The acknowledgement
\* middleware is the outermost: ACK_FIRST settles here.
Receive(w) ==
    /\ work[w].at = "receive"
    /\ \/ /\ Unmatched \in Fates
          /\ Set(w, [work[w] EXCEPT !.at = "exit", !.fate = Unmatched, !.raising = "unmatched"])
          /\ UNCHANGED status
       \/ LET first == IF policy = "ACK_FIRST" THEN "acked" ELSE "none" IN
          /\ Fates # {Unmatched}
          /\ status' = StatusAfter(work[w], first)
          /\ Set(w, [Settled(work[w], first) EXCEPT !.at = "handler"])
    /\ UNCHANGED <<task, policy, done, faults, losses>>

\* The handler settles, or fails to, and ends; consume_scope decides what to report.
Plan(ends, committed) ==
    CASE ends = "error" /\ Reports(committed, TRUE)   -> FailurePlan
      [] ends = "return" /\ Reports(committed, FALSE) -> SuccessPlan
      [] OTHER -> <<>>
Handle(w) ==
    /\ work[w].at = "handler"
    /\ \E fate \in Fates \ {Unmatched} :
          LET broken  == fate.settles # "none" /\ work[w].committed = "none" /\ ~work[w].owns
              attempt == Settled(work[w], fate.settles)
              ends    == IF broken THEN "error" ELSE fate.ends
          IN  /\ status' = StatusAfter(work[w], fate.settles)
              /\ Set(w, [attempt EXCEPT !.at = "scope", !.fate = fate,
                                        !.plan = Plan(ends, attempt.committed),
                                        !.raising = IF ends = "return" THEN "none" ELSE ends])
    /\ UNCHANGED <<task, policy, done, faults, losses>>

\* The next effect takes place.
Refused(effect) == effect[1] \in task.unsupported   \* validate_signature: SetupError
Doing(w, effect) == [work[w] EXCEPT !.plan = Tail(@), !.did = @ \cup {effect}]
Do(w) ==
    LET effect == Head(work[w].plan) IN
    /\ work[w].at \in {"scope", "reply"} /\ work[w].plan # <<>> /\ ~Refused(effect)
    /\ done' = done \cup {effect}
    /\ Set(w, Doing(w, effect))
    /\ UNCHANGED <<task, policy, status, faults, losses>>

\* It is refused, or fails before or after it took place: the exception leaves
\* consume_scope, in place of the handler's own.
ReportsFailure(attempt) ==
    [attempt EXCEPT !.at = "scope", !.raising = "error",
                    !.plan = IF @ # <<>> /\ attempt.raising = "none" THEN FailurePlan ELSE <<>>]
Swallows(attempt) == [attempt EXCEPT !.at = "exit", !.plan = <<>>]
Breaks(attempt) == [attempt EXCEPT !.at = "exit", !.raising = "error", !.plan = <<>>]
Fail(w) ==
    LET effect == Head(work[w].plan) IN
    /\ work[w].at \in {"scope", "reply"} /\ work[w].plan # <<>>
    /\ \/ /\ Refused(effect)
          /\ Set(w, Breaks(work[w]))
          /\ UNCHANGED <<done, faults>>
       \/ /\ ~Refused(effect) /\ faults < MaxFaults /\ faults' = faults + 1
          /\ \/ Set(w, Breaks(work[w])) /\ UNCHANGED done
             \/ Set(w, Breaks(Doing(w, effect))) /\ done' = done \cup {effect}
    /\ UNCHANGED <<task, policy, status, losses>>

\* consume_scope ends.  The automatic reply to a value it returned: none for a
\* message the handler gave back or rejected (_make_response_publisher).
RepliesAlways(attempt) == task.reply_to /\ ~task.no_reply /\ ~task.ignores
Replies(attempt) ==
    /\ task.reply_to /\ ~task.no_reply /\ ~task.ignores
    /\ attempt.committed \notin {"requeued", "rejected"}
LeaveScope(w) ==
    /\ work[w].at = "scope" /\ work[w].plan = <<>>
    /\ Set(w, IF work[w].raising # "none" THEN [work[w] EXCEPT !.at = "exit"]
              ELSE [work[w] EXCEPT !.at = "reply",
                                   !.plan = When(Replies(work[w]), <<"reply", 0>>)])
    /\ UNCHANGED <<task, policy, status, done, faults, losses>>

LeaveReply(w) ==
    /\ work[w].at = "reply" /\ work[w].plan = <<>>
    /\ Set(w, [work[w] EXCEPT !.at = "exit"])
    /\ UNCHANGED <<task, policy, status, done, faults, losses>>

\* The acknowledgement middleware at the end; what it cannot settle it logs.
LeftAlone == policy \in {"MANUAL", "ACK_FIRST"}   \* the policies that settle nothing at the end
RejectsErrors(raising) ==
    IF LeftAlone THEN "none"
    ELSE CASE raising \in {"none", "ack"} -> "acked"
           [] raising = "nack" -> "requeued"
           [] raising \notin {"none", "ack", "nack"} -> "rejected"
OnError ==
    CASE policy = "ACK" -> "acked"
      [] policy = "NACK_ON_ERROR" -> "requeued"
      [] policy = "REJECT_ON_ERROR" -> "rejected"
Disposition(raising) ==
    IF LeftAlone THEN "none"
    ELSE CASE raising \in {"none", "ack"} -> "acked"
           [] raising = "nack" -> "requeued"
           [] raising = "reject" -> "rejected"
           [] raising \in {"skip", "unmatched"} -> "none"
           [] raising = "error" -> OnError
Exit(w) ==
    /\ work[w].at = "exit"
    /\ status' = StatusAfter(work[w], Disposition(work[w].raising))
    /\ Set(w, [Settled(work[w], Disposition(work[w].raising)) EXCEPT !.at = "unhandled"])
    /\ UNCHANGED <<task, policy, done, faults, losses>>

\* consume() swallows the exception; a message nobody settled is rejected, but under
\* MANUAL it stays with the connection.
KeepUnhandled(attempt) == "none"
Unhandled(attempt) == IF policy = "MANUAL" THEN "none" ELSE "rejected"
SettleUnhandled(w) ==
    LET attempt == Settled(work[w], Unhandled(work[w])) IN
    /\ work[w].at = "unhandled"
    /\ status' = StatusAfter(work[w], Unhandled(work[w]))
    /\ Set(w, IF attempt.owns THEN [Idle EXCEPT !.at = "held", !.owns = TRUE] ELSE Idle)
    /\ UNCHANGED <<task, policy, done, faults, losses>>

Run(w) ==
    \/ Receive(w) \/ Handle(w) \/ Do(w) \/ LeaveScope(w) \/ LeaveReply(w) \/ Exit(w)
    \/ SettleUnhandled(w)

Next == \E w \in Workers : Take(w) \/ Lose(w) \/ Run(w) \/ Fail(w)

Spec == Init /\ [][Next]_vars

\* The event loop runs every attempt on; the broker delivers what is ready.
FairSpec ==
    /\ Spec
    /\ \A w \in Workers : WF_vars(Run(w) \/ Fail(w)) /\ WF_vars(Take(w))

-----------------------------------------------------------------------------
(* Properties *)

Failures(effects) == {e \in effects : e[1] \in {"failure", "failure reply", "errback"}}
Finished(w) == work[w].at \in {"exit", "unhandled"}

\* "Reporting them as Celery FAILURE lets a client finish before a requeued task
\* succeeds" (ADR-0004): an attempt that reported any failure -- of the task, of its
\* chain, to its errbacks -- never gives the message back, whoever settles it and
\* whatever breaks.
FailureIsFinal ==
    \A w \in Workers : work[w].committed = "requeued" => Failures(work[w].did) = {}

\* "HandlerException instructions produce no result envelope or canvas continuation.
\* Explicit nack() and reject() likewise" (ADR-0004), the automatic reply included.
NoOutcomeForInstruction ==
    \A w \in Workers :
        \/ work[w].raising \in Instructions
        \/ work[w].committed = work[w].fate.settles /\ work[w].committed \in {"requeued", "rejected"}
        => work[w].did = {}

\* A message that the policy acknowledges has been dealt with: its result is stored,
\* its callbacks and the next link of its chain are published, the reply is sent.
AckedMeansDone ==
    \A w \in Workers :
        /\ work[w].at = "unhandled" /\ work[w].committed = "acked"
        /\ policy \in {"REJECT_ON_ERROR", "NACK_ON_ERROR"}
        /\ work[w].fate.settles = "none" /\ work[w].fate.ends = "return"
        => /\ Range(SuccessPlan) \subseteq work[w].did
           /\ Replies([work[w] EXCEPT !.committed = "none"]) => <<"reply", 0>> \in work[w].did

\* An attempt that reported success, or moved its chain on, does not fail the task or
\* that chain when a later effect breaks: on_success is outside the try of
\* consume_scope.
OneVerdict ==
    \A w \in Workers :
        Failures(work[w].did) # {} =>
            work[w].did \cap {<<"success", 0>>, <<"callback", 0>>, <<"next", 0>>, <<"reply", 0>>} = {}

\* "A later processing attempt may complete a requeued task's result" (ADR-0004): what
\* an attempt reports no other attempt has reported, unless a connection was lost, or
\* an effect broke under the policy that requeues.
Repeatable ==
    \/ losses > 0
    \/ policy = "NACK_ON_ERROR" /\ (faults > 0 \/ task.unsupported # {})
NothingRepeats ==
    [][~Repeatable => \A w \in Workers : (work'[w].did \ work[w].did) \cap done = {}]_vars

\* "It would stay unacked -- and with a prefetch window that stalls the consumer for
\* good" (_settle_unhandled): unless the policy is MANUAL every delivery is settled,
\* whatever its handler does and whether it has one.
DeliveriesEnd ==
    policy # "MANUAL" => \A w \in Workers : work[w].owns ~> ~work[w].owns

\* Under NACK_ON_ERROR a handler that returns is retried until everything it has to
\* report has taken place and the message is acknowledged.
Returning == \A w \in Workers : work[w].fate \in {NoFate, [settles |-> "none", ends |-> "return"]}
RetryCompletes ==
    policy = "NACK_ON_ERROR" /\ task.unsupported = {} /\ []Returning
        => <>(status = "acked" /\ Range(SuccessPlan) \subseteq done)
=============================================================================
