-------------------------- MODULE TaskOutcome_proofs --------------------------
(* Theorems about TaskOutcome, for every message, policy, fate of a handler *)
(* and number of workers, faults and losses.                                *)
EXTENDS TaskOutcome, SequenceFacts

-----------------------------------------------------------------------------
(* The invariant, of one attempt *)

\* Where an attempt has nothing planned or done yet, and where nothing is left.
Early == {"idle", "receive", "handler", "held"}
Late == {"exit", "unhandled"}
Settling == {"requeued", "rejected"}

\* The effects of a success and of the reply.
Harmless == {"success", "chord", "callback", "next", "reply"} \X {0}

Fields == {"at", "fate", "raising", "committed", "plan", "did", "owns"}
Attempt(a) == DOMAIN a = Fields

Nothing(a) == a.plan = <<>> /\ a.did = {}
Mild(a) == a.plan \in Seq(Harmless) /\ Failures(a.did) = {}

Fresh(a) ==
    /\ a.at \in Early =>
          /\ Nothing(a) /\ a.fate = NoFate /\ a.raising = "none"
          /\ a.committed = "none" \/ (a.committed = "acked" /\ policy = "ACK_FIRST")
    /\ a.at \in Late => a.plan = <<>>
    /\ a.raising \in {"none", "error", "unmatched"} \cup Instructions

\* A delivery is settled once; a handler that settles has settled, or lost it.
Once(a) ==
    /\ a.committed # "none" => ~a.owns
    /\ a.fate.settles # "none" => ~a.owns

\* An instruction of the handler, as an exception or as a call, leaves nothing to do;
Instructed(a) ==
    /\ a.raising \in Instructions => Nothing(a)
    /\ a.committed = a.fate.settles /\ a.committed \in Settling => Nothing(a)

\* and what may go back, or went back, has no failure to report.
GoesBack(a) ==
    a.committed = "requeued" \/ (a.committed = "none" /\ policy = "NACK_ON_ERROR") => Mild(a)

Strict == {"REJECT_ON_ERROR", "NACK_ON_ERROR"}
Answers == task.reply_to /\ ~task.no_reply /\ ~task.ignores

\* A handler that returned, under a policy that acknowledges only successes: nobody
\* settles before the end, and what is not done is planned.
Returned(a) ==
    policy \in Strict /\ a.fate.settles = "none" /\ a.fate.ends = "return" =>
       /\ a.raising \in {"none", "error"}
       /\ a.at \in {"scope", "reply", "exit"} => a.committed = "none"
       /\ a.at = "unhandled" /\ a.committed = "acked" => a.raising = "none"
       /\ a.raising = "none" =>
             /\ a.plan \in Seq(Harmless)
             /\ Range(SuccessPlan) \subseteq a.did \cup Range(a.plan)
             /\ a.at # "scope" /\ Answers => <<"reply", 0>> \in a.did \cup Range(a.plan)

Sound(a) == Attempt(a) /\ Fresh(a) /\ Once(a) /\ Instructed(a) /\ GoesBack(a) /\ Returned(a)
OutcomeInv ==
    policy \in AllPolicies /\ DOMAIN work = Workers /\ \A w \in Workers : Sound(work[w])

-----------------------------------------------------------------------------
(* Plans *)

LEMMA SuccessIsHarmless == SuccessPlan \in Seq(Harmless)
<1>1. /\ <<"success", 0>> \in Harmless /\ <<"chord", 0>> \in Harmless
      /\ <<"callback", 0>> \in Harmless /\ <<"next", 0>> \in Harmless
  BY DEF Harmless
<1>2. ASSUME NEW s \in Seq(Harmless), NEW t \in Seq(Harmless) PROVE s \o t \in Seq(Harmless)
  OBVIOUS
<1>3. Report("success", 0, FALSE) \in Seq(Harmless)
  <2>1. When(~task.ignores, <<"success", 0>>) \in Seq(Harmless)
    BY <1>1 DEF When
  <2>2. When(~task.ignores /\ FALSE /\ ~task.no_reply, <<"failure reply", 0>>) \in Seq(Harmless)
    BY DEF When
  <2> QED BY <1>2, <2>1, <2>2 DEF Report
<1>4. When(task.chord, <<"chord", 0>>) \in Seq(Harmless)
  BY <1>1 DEF When
<1>5. Continuations \in Seq(Harmless)
  <2>1. When(task.linked, <<"callback", 0>>) \in Seq(Harmless)
    BY <1>1 DEF When
  <2>2. When(task.chain # <<>>, <<"next", 0>>) \in Seq(Harmless)
    BY <1>1 DEF When
  <2> QED BY <1>2, <2>1, <2>2 DEF Continuations
<1> QED BY <1>2, <1>3, <1>4, <1>5 DEF SuccessPlan

LEMMA HarmlessIsNoFailure == \A e \in Harmless : Failures({e}) = {}
BY DEF Harmless, Failures

LEMMA NoPlan == <<>> \in Seq(Harmless) /\ Failures({}) = {}
BY DEF Failures

-----------------------------------------------------------------------------
(* Steps *)

LEMMA SetKeeps ==
    ASSUME OutcomeInv, NEW w \in Workers, NEW b, Set(w, b), Sound(b), UNCHANGED <<task, policy>>
    PROVE  OutcomeInv'
<1>1. DOMAIN work' = Workers /\ \A v \in Workers : work'[v] = IF v = w THEN b ELSE work[v]
  BY DEF OutcomeInv, Set
<1>2. SuccessPlan' = SuccessPlan
  BY DEF SuccessPlan, Report, Continuations
<1>3. ASSUME NEW v \in Workers PROVE Sound(work[v])'
  <2> DEFINE a == work'[v]
  <2>1. Sound(a)
    BY <1>1 DEF OutcomeInv
  <2>2. Attempt(work[v])' /\ Fresh(work[v])' /\ Once(work[v])' /\ Instructed(work[v])'
    BY <2>1 DEF Sound, Attempt, Fresh, Once, Instructed, Nothing
  <2>3. GoesBack(work[v])'
    BY <2>1 DEF Sound, GoesBack, Mild
  <2>4. Returned(work[v])'
    BY <1>2, <2>1 DEF Sound, Returned, Answers
  <2> QED BY <2>2, <2>3, <2>4 DEF Sound
<1> QED BY <1>1, <1>3 DEF OutcomeInv

\* An attempt that has not reached its handler, or none.
LEMMA EarlyIsSound ==
    ASSUME NEW a, Attempt(a), Fresh(a), a.at \in Early, a.committed # "none" => ~a.owns
    PROVE  Sound(a)
<1>1. /\ Nothing(a) /\ a.fate = NoFate /\ a.raising = "none"
      /\ a.committed = "none" \/ (a.committed = "acked" /\ policy = "ACK_FIRST")
  BY DEF Fresh
<1>2. Once(a) /\ Instructed(a)
  BY <1>1 DEF Once, Instructed, Instructions, Settling, NoFate
<1>3. GoesBack(a) /\ Returned(a)
  BY <1>1, NoPlan DEF GoesBack, Mild, Nothing, Returned, NoFate
<1> QED BY <1>2, <1>3 DEF Sound

LEMMA IdleIsSound ==
    ASSUME NEW a, Attempt(a), a.at \in Early, a.fate = NoFate, a.raising = "none",
           a.committed = "none", a.plan = <<>>, a.did = {}
    PROVE  Sound(a)
BY EarlyIsSound DEF Fresh, Nothing, Early, Late

\* What a settlement changes.
LEMMA SettledIs ==
    ASSUME NEW a, Attempt(a), NEW d
    PROVE  /\ Attempt(Settled(a, d))
           /\ Settled(a, d).at = a.at /\ Settled(a, d).fate = a.fate
           /\ Settled(a, d).raising = a.raising /\ Settled(a, d).plan = a.plan
           /\ Settled(a, d).did = a.did
           /\ \/ /\ a.committed = "none" /\ a.owns /\ d # "none"
                 /\ Settled(a, d).committed = d /\ ~Settled(a, d).owns
              \/ ~Settles(a, d) /\ Settled(a, d) = a
<1>1. CASE Settles(a, d)
  <2>1. Settled(a, d) = [a EXCEPT !.committed = d, !.owns = FALSE]
    BY <1>1 DEF Settled
  <2> QED BY <1>1, <2>1 DEF Settles, Attempt, Fields
<1>2. CASE ~Settles(a, d)
  BY <1>2 DEF Settled
<1> QED BY <1>1, <1>2

LEMMA PlanIs ==
    ASSUME NEW ends, NEW committed
    PROVE  /\ committed \in Settling \/ ends \notin {"error", "return"} => Plan(ends, committed) = <<>>
           /\ policy = "NACK_ON_ERROR" /\ committed = "none" =>
                 Plan(ends, committed) \in {<<>>, SuccessPlan}
           /\ ends = "return" /\ committed = "none" => Plan(ends, committed) = SuccessPlan
<1>1. committed \in Settling => ~Reports(committed, TRUE) /\ ~Reports(committed, FALSE)
  BY DEF Reports, Settling
<1>2. policy = "NACK_ON_ERROR" /\ committed = "none" => ~Reports(committed, TRUE)
  BY DEF Reports
<1>3. committed = "none" => Reports(committed, FALSE)
  BY DEF Reports
<1> QED BY <1>1, <1>2, <1>3 DEF Plan

LEMMA ReceiveKeeps ==
    ASSUME OutcomeInv, NEW w \in Workers, Receive(w)
    PROVE  OutcomeInv'
<1> DEFINE a == work[w]
<1>1. Sound(a) /\ a.at = "receive" /\ UNCHANGED <<task, policy>>
  BY DEF OutcomeInv, Receive
<1>2. CASE Set(w, [a EXCEPT !.at = "exit", !.fate = Unmatched, !.raising = "unmatched"])
  <2> DEFINE b == [a EXCEPT !.at = "exit", !.fate = Unmatched, !.raising = "unmatched"]
  <2>1. /\ Attempt(b) /\ b.at = "exit" /\ b.fate = Unmatched /\ b.raising = "unmatched"
        /\ b.committed = a.committed /\ b.plan = a.plan /\ b.did = a.did /\ b.owns = a.owns
    BY <1>1 DEF Sound, Attempt, Fields
  <2>2. Nothing(a) /\ (a.committed = "none" \/ (a.committed = "acked" /\ policy = "ACK_FIRST"))
        /\ (a.committed # "none" => ~a.owns)
    BY <1>1 DEF Sound, Fresh, Early, Once
  <2> HIDE DEF b
  <2>3. Fresh(b) /\ Once(b) /\ Instructed(b)
    BY <2>1, <2>2 DEF Fresh, Once, Instructed, Nothing, Early, Late, Unmatched,
                      Instructions, Settling
  <2>4. GoesBack(b) /\ Returned(b)
    BY <2>1, <2>2, NoPlan DEF GoesBack, Mild, Nothing, Returned, Unmatched
  <2>5. Set(w, b)
    BY <1>2 DEF b
  <2> QED BY <1>1, <2>1, <2>3, <2>4, <2>5, SetKeeps DEF Sound
<1>3. ASSUME NEW first, first = IF policy = "ACK_FIRST" THEN "acked" ELSE "none",
             Set(w, [Settled(a, first) EXCEPT !.at = "handler"])
      PROVE  OutcomeInv'
  <2> DEFINE s == Settled(a, first)
             b == [s EXCEPT !.at = "handler"]
  <2>1. /\ Attempt(s) /\ s.fate = a.fate /\ s.raising = a.raising /\ s.plan = a.plan /\ s.did = a.did
        /\ \/ a.committed = "none" /\ first # "none" /\ s.committed = first /\ ~s.owns
           \/ s = a
    BY <1>1, SettledIs DEF Sound
  <2> HIDE DEF s
  <2>2. /\ Attempt(b) /\ b.at = "handler" /\ b.fate = s.fate /\ b.raising = s.raising
        /\ b.committed = s.committed /\ b.plan = s.plan /\ b.did = s.did /\ b.owns = s.owns
    BY <2>1 DEF Attempt, Fields
  <2> HIDE DEF b
  <2>3. Fresh(b) /\ (b.committed # "none" => ~b.owns)
    BY <1>1, <1>3, <2>1, <2>2 DEF Sound, Fresh, Once, Nothing, Early, Late
  <2>4. Set(w, b)
    BY <1>3 DEF b, s
  <2> QED BY <1>1, <2>2, <2>3, <2>4, SetKeeps, EarlyIsSound DEF Early
<1> QED BY <1>2, <1>3 DEF Receive

LEMMA BrokerKeeps ==
    ASSUME OutcomeInv, NEW w \in Workers, Take(w) \/ Lose(w) \/ SettleUnhandled(w)
    PROVE  OutcomeInv'
<1> DEFINE a == work[w]
<1>1. Sound(a) /\ UNCHANGED <<task, policy>>
  BY DEF OutcomeInv, Take, Lose, SettleUnhandled
<1>2. ASSUME NEW b, Set(w, b), b = Idle \/ b = [Idle EXCEPT !.at = "receive", !.owns = TRUE]
                              \/ b = [Idle EXCEPT !.at = "held", !.owns = TRUE]
      PROVE  OutcomeInv'
  <2>1. /\ Attempt(Idle) /\ Idle.at = "idle" /\ Idle.fate = NoFate /\ Idle.raising = "none"
        /\ Idle.committed = "none" /\ Idle.plan = <<>> /\ Idle.did = {}
    BY DEF Idle, Attempt, Fields
  <2>2. /\ Attempt(b) /\ b.at \in Early /\ b.fate = NoFate /\ b.raising = "none"
        /\ b.committed = "none" /\ b.plan = <<>> /\ b.did = {}
    BY <1>2, <2>1 DEF Attempt, Fields, Early
  <2> QED BY <1>1, <1>2, <2>2, IdleIsSound, SetKeeps
<1>3. CASE Set(w, [a EXCEPT !.owns = FALSE])
  <2> DEFINE b == [a EXCEPT !.owns = FALSE]
  <2>1. /\ Attempt(b) /\ b.at = a.at /\ b.fate = a.fate /\ b.raising = a.raising
        /\ b.committed = a.committed /\ b.plan = a.plan /\ b.did = a.did /\ ~b.owns
    BY <1>1 DEF Sound, Attempt, Fields
  <2>2. Set(w, b)
    BY <1>3
  <2> HIDE DEF b
  <2>3. Fresh(b) /\ Once(b) /\ Instructed(b) /\ GoesBack(b) /\ Returned(b)
    BY <1>1, <2>1 DEF Sound, Fresh, Once, Instructed, GoesBack, Returned, Nothing, Mild, Answers
  <2> HIDE DEF a
  <2> QED BY <1>1, <2>1, <2>2, <2>3, SetKeeps DEF Sound
<1> QED BY <1>2, <1>3 DEF Take, Lose, SettleUnhandled

LEMMA HandleKeeps == ASSUME OutcomeInv, NEW w \in Workers, Handle(w) PROVE OutcomeInv'
<1> DEFINE a == work[w]
<1>1. Sound(a) /\ a.at = "handler" /\ UNCHANGED <<task, policy>>
  BY DEF OutcomeInv, Handle
<1> DEFINE S(f) == Settled(a, f.settles)
           E(f) == IF f.settles # "none" /\ a.committed = "none" /\ ~a.owns THEN "error" ELSE f.ends
           B(f) == [S(f) EXCEPT !.at = "scope", !.fate = f, !.plan = Plan(E(f), S(f).committed),
                                !.raising = IF E(f) = "return" THEN "none" ELSE E(f)]
<1>2. PICK fate \in Fates \ {Unmatched} : Set(w, B(fate))
  BY DEF Handle
<1> DEFINE s == S(fate)
           ends == E(fate)
           b == B(fate)
<1>3. /\ Attempt(s) /\ s.did = a.did
      /\ \/ a.committed = "none" /\ a.owns /\ fate.settles # "none" /\ ~s.owns
            /\ s.committed = fate.settles
         \/ ~Settles(a, fate.settles) /\ s = a
  BY <1>1, SettledIs DEF Sound
<1> HIDE DEF s
<1>4. /\ Attempt(b) /\ b.at = "scope" /\ b.fate = fate /\ b.did = s.did
      /\ b.plan = Plan(ends, s.committed) /\ b.raising = (IF ends = "return" THEN "none" ELSE ends)
      /\ b.committed = s.committed /\ b.owns = s.owns
  BY <1>3 DEF Attempt, Fields, s
<1>5. Set(w, b)
  BY <1>2
<1> HIDE DEF b
<1>6. /\ Nothing(a) /\ (a.committed = "none" \/ (a.committed = "acked" /\ policy = "ACK_FIRST"))
      /\ (a.committed # "none" => ~a.owns)
  BY <1>1 DEF Sound, Fresh, Once, Early
<1>7. Fresh(b)
  <2>1. fate.ends \in {"return", "error"} \cup Instructions
    BY FateAssumption DEF AllFates
  <2>2. b.raising \in {"none", "error"} \cup Instructions
    BY <1>2, <1>4, <2>1 DEF Instructions
  <2> QED BY <1>4, <2>2 DEF Fresh, Early, Late
<1>8. Once(b)
  BY <1>3, <1>4, <1>6 DEF Once, Settles
<1>9. Instructed(b)
  <2>1. b.raising \in Instructions => ends \notin {"error", "return"}
    BY <1>4 DEF Instructions
  <2> QED BY <1>3, <1>4, <1>6, <2>1, PlanIs DEF Instructed, Nothing
<1>10. GoesBack(b)
  BY <1>3, <1>4, <1>6, PlanIs, SuccessIsHarmless, NoPlan DEF GoesBack, Mild, Nothing, Settling
<1>11. Returned(b)
  <2> SUFFICES ASSUME policy \in Strict, fate.settles = "none", fate.ends = "return" PROVE Returned(b)
    BY <1>4 DEF Returned
  <2>1. s.committed = "none" /\ ends = "return"
    BY <1>2, <1>3, <1>6 DEF Strict
  <2>2. b.plan = SuccessPlan /\ b.raising = "none" /\ b.committed = "none"
    BY <1>4, <2>1, PlanIs
  <2> QED BY <1>4, <2>2, SuccessIsHarmless DEF Returned
<1> QED BY <1>1, <1>4, <1>5, <1>7, <1>8, <1>9, <1>10, <1>11, SetKeeps DEF Sound

\* One effect less is planned, and one more took place.
LEMMA TailOf ==
    ASSUME NEW s \in Seq(Harmless), s # <<>>
    PROVE  /\ Head(s) \in Harmless /\ Tail(s) \in Seq(Harmless)
           /\ Range(s) \subseteq {Head(s)} \cup Range(Tail(s))
<1>1. /\ Head(s) = s[1] /\ Head(s) \in Harmless /\ Tail(s) \in Seq(Harmless)
      /\ Len(Tail(s)) = Len(s) - 1 /\ \A i \in 1..Len(Tail(s)) : Tail(s)[i] = s[i + 1]
      /\ DOMAIN s = 1..Len(s) /\ DOMAIN Tail(s) = 1..Len(Tail(s)) /\ Len(s) \in Nat
  OBVIOUS
<1>2. ASSUME NEW i \in 1..Len(s) PROVE s[i] \in {Head(s)} \cup Range(Tail(s))
  <2>1. CASE i = 1
    BY <1>1, <2>1
  <2>2. CASE i # 1
    <3>1. i - 1 \in 1..Len(Tail(s)) /\ (i - 1) + 1 = i
      BY <1>1, <2>2
    <3>2. s[i] = Tail(s)[i - 1]
      BY <1>1, <3>1
    <3> QED BY <1>1, <3>1, <3>2 DEF Range
  <2> QED BY <2>1, <2>2
<1> QED BY <1>1, <1>2 DEF Range

LEMMA DoKeeps == ASSUME OutcomeInv, NEW w \in Workers, Do(w) PROVE OutcomeInv'
<1> DEFINE a == work[w]
           e == Head(a.plan)
           b == [a EXCEPT !.plan = Tail(a.plan), !.did = a.did \cup {e}]
<1>1. /\ Sound(a) /\ a.at \in {"scope", "reply"} /\ a.plan # <<>> /\ UNCHANGED <<task, policy>>
  BY DEF OutcomeInv, Do
<1>2. Set(w, b)
  BY DEF Do, Doing
<1>3. /\ Attempt(b) /\ b.at = a.at /\ b.fate = a.fate /\ b.raising = a.raising
      /\ b.committed = a.committed /\ b.owns = a.owns
      /\ b.plan = Tail(a.plan) /\ b.did = a.did \cup {e}
  BY <1>1 DEF Sound, Attempt, Fields
<1> HIDE DEF b
<1>4. Fresh(b) /\ Once(b) /\ Instructed(b)
  BY <1>1, <1>3 DEF Sound, Fresh, Once, Instructed, Nothing, Early, Late
<1>5. GoesBack(b)
  <2>1. \A x : Failures(a.did \cup {x}) = Failures(a.did) \cup Failures({x})
    BY DEF Failures
  <2> QED BY <1>1, <1>3, <2>1, TailOf, HarmlessIsNoFailure DEF Sound, GoesBack, Mild
<1>6. Returned(b)
  <2> SUFFICES ASSUME policy \in Strict, a.fate.settles = "none", a.fate.ends = "return"
               PROVE  Returned(b)
    BY <1>3 DEF Returned
  <2>1. a.raising = "none" => /\ b.plan \in Seq(Harmless)
                              /\ a.did \cup Range(a.plan) \subseteq b.did \cup Range(b.plan)
    BY <1>1, <1>3, TailOf DEF Sound, Returned
  <2> QED BY <1>1, <1>3, <2>1 DEF Sound, Returned
<1> QED BY <1>1, <1>2, <1>3, <1>4, <1>5, <1>6, SetKeeps DEF Sound

\* The rest of the report is dropped when an effect fails, and the exception is an error.
LEMMA FailKeeps == ASSUME OutcomeInv, NEW w \in Workers, Fail(w) PROVE OutcomeInv'
<1> DEFINE a == work[w]
           e == Head(a.plan)
<1>1. /\ Sound(a) /\ a.at \in {"scope", "reply"} /\ a.plan # <<>> /\ UNCHANGED <<task, policy>>
  BY DEF OutcomeInv, Fail
<1>2. ASSUME NEW c, c = a \/ c = Doing(w, e), Set(w, Breaks(c)) PROVE OutcomeInv'
  <2> DEFINE b == Breaks(c)
  <2>1. /\ Attempt(c) /\ c.fate = a.fate /\ c.committed = a.committed /\ c.owns = a.owns
        /\ c.did = a.did \/ c.did = a.did \cup {e}
    BY <1>1, <1>2 DEF Sound, Attempt, Fields, Doing
  <2>2. /\ Attempt(b) /\ b.at = "exit" /\ b.raising = "error" /\ b.plan = <<>> /\ b.fate = a.fate
        /\ b.committed = a.committed /\ b.owns = a.owns
        /\ b.did = a.did \/ b.did = a.did \cup {e}
    BY <2>1 DEF Breaks, Attempt, Fields
  <2> HIDE DEF b
  <2>3. Fresh(b) /\ Once(b) /\ Instructed(b)
    BY <1>1, <2>2 DEF Sound, Fresh, Once, Instructed, Nothing, Early, Late, Instructions
  <2>4. GoesBack(b)
    <3>1. \A x : Failures(a.did \cup {x}) = Failures(a.did) \cup Failures({x})
      BY DEF Failures
    <3>2. Mild(a) => e \in Harmless
      BY <1>1, TailOf DEF Mild
    <3> QED BY <1>1, <2>2, <3>1, <3>2, NoPlan, HarmlessIsNoFailure DEF Sound, GoesBack, Mild
  <2>5. Returned(b)
    BY <1>1, <2>2 DEF Sound, Returned
  <2> QED BY <1>1, <1>2, <2>2, <2>3, <2>4, <2>5, SetKeeps DEF Sound, b
<1> QED BY <1>2 DEF Fail

LEMMA LeaveKeeps ==
    ASSUME OutcomeInv, NEW w \in Workers, LeaveScope(w) \/ LeaveReply(w)
    PROVE  OutcomeInv'
<1> DEFINE a == work[w]
<1>1. /\ Sound(a) /\ a.at \in {"scope", "reply"} /\ a.plan = <<>> /\ UNCHANGED <<task, policy>>
  BY DEF OutcomeInv, LeaveScope, LeaveReply
<1>2. CASE Set(w, [a EXCEPT !.at = "exit"]) /\ (a.at = "reply" \/ a.raising # "none")
  <2> DEFINE b == [a EXCEPT !.at = "exit"]
  <2>1. /\ Attempt(b) /\ b.at = "exit" /\ b.fate = a.fate /\ b.raising = a.raising
        /\ b.committed = a.committed /\ b.plan = a.plan /\ b.did = a.did /\ b.owns = a.owns
    BY <1>1 DEF Sound, Attempt, Fields
  <2>2. Set(w, b)
    BY <1>2
  <2> HIDE DEF b
  <2>3. Fresh(b) /\ Once(b) /\ Instructed(b) /\ GoesBack(b)
    BY <1>1, <2>1 DEF Sound, Fresh, Once, Instructed, GoesBack, Nothing, Mild, Early, Late
  <2>4. Returned(b)
    BY <1>1, <1>2, <2>1 DEF Sound, Returned
  <2> QED BY <1>1, <2>1, <2>2, <2>3, <2>4, SetKeeps DEF Sound
<1>3. CASE a.raising = "none"
           /\ Set(w, [a EXCEPT !.at = "reply", !.plan = When(Replies(a), <<"reply", 0>>)])
  <2> DEFINE b == [a EXCEPT !.at = "reply", !.plan = When(Replies(a), <<"reply", 0>>)]
  <2>1. /\ Attempt(b) /\ b.at = "reply" /\ b.fate = a.fate /\ b.raising = a.raising
        /\ b.committed = a.committed /\ b.did = a.did /\ b.owns = a.owns
        /\ b.plan = IF Replies(a) THEN <<(<<"reply", 0>>)>> ELSE <<>>
    BY <1>1 DEF Sound, Attempt, Fields, When
  <2>2. Set(w, b)
    BY <1>3
  <2> HIDE DEF b
  <2>3. b.plan \in Seq(Harmless)
    <3>1. <<"reply", 0>> \in Harmless
      BY DEF Harmless
    <3> QED BY <2>1, <3>1
  <2>4. Fresh(b) /\ Once(b)
    BY <1>1, <2>1 DEF Sound, Fresh, Once, Early, Late
  <2>5. Instructed(b)
    <3>1. a.committed \in Settling => b.plan = <<>>
      BY <2>1 DEF Replies, Settling
    <3> QED BY <1>1, <1>3, <2>1, <3>1 DEF Sound, Instructed, Nothing, Instructions
  <2>6. GoesBack(b)
    BY <1>1, <2>1, <2>3 DEF Sound, GoesBack, Mild
  <2>7. Returned(b)
    <3> SUFFICES ASSUME policy \in Strict, a.fate.settles = "none", a.fate.ends = "return"
                 PROVE  Returned(b)
      BY <2>1 DEF Returned
    <3>1. a.committed = "none" /\ Range(SuccessPlan) \subseteq a.did
      BY <1>1, <1>3 DEF Sound, Returned, Range
    <3>2. Answers => <<"reply", 0>> \in Range(b.plan)
      <4>1. Answers => b.plan = <<(<<"reply", 0>>)>>
        BY <2>1, <3>1 DEF Answers, Replies
      <4> QED BY <4>1 DEF Range
    <3> QED BY <1>3, <2>1, <2>3, <3>1, <3>2 DEF Returned
  <2> QED BY <1>1, <2>1, <2>2, <2>4, <2>5, <2>6, <2>7, SetKeeps DEF Sound
<1> QED BY <1>2, <1>3 DEF LeaveScope, LeaveReply

\* The acknowledgement middleware has the last word only on what nobody settled.
LEMMA ExitKeeps == ASSUME OutcomeInv, NEW w \in Workers, Exit(w) PROVE OutcomeInv'
<1> DEFINE a == work[w]
           d == Disposition(a.raising)
           s == Settled(a, d)
           b == [s EXCEPT !.at = "unhandled"]
<1>1. /\ Sound(a) /\ a.at = "exit" /\ a.plan = <<>> /\ UNCHANGED <<task, policy>> /\ Set(w, b)
  BY DEF OutcomeInv, Exit, Sound, Fresh, Late
<1>2. /\ Attempt(s) /\ s.fate = a.fate /\ s.raising = a.raising /\ s.plan = a.plan /\ s.did = a.did
      /\ \/ a.committed = "none" /\ a.owns /\ d # "none" /\ s.committed = d /\ ~s.owns
         \/ s.committed = a.committed /\ s.owns = a.owns
  BY <1>1, SettledIs DEF Sound
<1> HIDE DEF s
<1>3. /\ Attempt(b) /\ b.at = "unhandled" /\ b.fate = s.fate /\ b.raising = s.raising
      /\ b.committed = s.committed /\ b.plan = s.plan /\ b.did = s.did /\ b.owns = s.owns
  BY <1>2 DEF Attempt, Fields
<1>4. /\ d = "requeued" => a.raising = "nack" \/ (a.raising = "error" /\ policy = "NACK_ON_ERROR")
      /\ d = "acked" /\ policy \in Strict => a.raising \in {"none", "ack"}
  <2> HIDE DEF a
  <2>1. policy \in AllPolicies /\ a.raising \in {"none", "error", "unmatched"} \cup Instructions
    BY <1>1 DEF OutcomeInv, Sound, Fresh
  <2>2. CASE LeftAlone
    BY <2>2 DEF Disposition, LeftAlone, Strict
  <2>3. CASE ~LeftAlone /\ a.raising = "error"
    <3>1. d = OnError
      BY <2>3 DEF Disposition
    <3>2. (OnError = "requeued" => policy = "NACK_ON_ERROR")
          /\ (OnError = "acked" => policy \notin Strict)
      BY <2>1, <2>3 DEF OnError, LeftAlone, AllPolicies, Strict
    <3> QED BY <2>3, <3>1, <3>2
  <2>4. CASE ~LeftAlone /\ a.raising # "error"
    BY <2>1, <2>4 DEF Disposition, Instructions
  <2> QED BY <2>2, <2>3, <2>4
<1> HIDE DEF d, b
<1>5. Fresh(b) /\ Once(b)
  BY <1>1, <1>2, <1>3 DEF Sound, Fresh, Once, Early, Late
<1>6. Instructed(b)
  BY <1>1, <1>2, <1>3 DEF Sound, Instructed, Once, Nothing, Settling
<1>7. GoesBack(b)
  BY <1>1, <1>2, <1>3, <1>4, NoPlan DEF Sound, GoesBack, Instructed, Nothing, Mild, Instructions
<1>8. Returned(b)
  BY <1>1, <1>2, <1>3, <1>4 DEF Sound, Returned
<1> QED BY <1>1, <1>3, <1>5, <1>6, <1>7, <1>8, SetKeeps DEF Sound

LEMMA OutcomeInit == Init => OutcomeInv
<1> SUFFICES ASSUME Init PROVE OutcomeInv
  OBVIOUS
<1>1. policy \in AllPolicies /\ DOMAIN work = Workers /\ \A w \in Workers : work[w] = Idle
  BY PolicyAssumption DEF Init
<1>2. /\ Attempt(Idle) /\ Idle.at \in Early /\ Idle.fate = NoFate /\ Idle.raising = "none"
      /\ Idle.committed = "none" /\ Idle.plan = <<>> /\ Idle.did = {}
  BY DEF Idle, Attempt, Fields, Early
<1> QED BY <1>1, <1>2, IdleIsSound DEF OutcomeInv

LEMMA OutcomeStep == OutcomeInv /\ [Next]_vars => OutcomeInv'
<1> SUFFICES ASSUME OutcomeInv, [Next]_vars PROVE OutcomeInv'
  OBVIOUS
<1>1. ASSUME NEW w \in Workers, Take(w) \/ Lose(w) \/ Run(w) \/ Fail(w) PROVE OutcomeInv'
  BY <1>1, BrokerKeeps, ReceiveKeeps, HandleKeeps, DoKeeps, FailKeeps, LeaveKeeps, ExitKeeps DEF Run
<1>2. CASE UNCHANGED vars
  <2>1. UNCHANGED <<task, policy, work>> /\ SuccessPlan' = SuccessPlan
    BY <1>2 DEF vars, SuccessPlan, Report, Continuations
  <2> QED BY <2>1 DEF OutcomeInv, Sound, Attempt, Fresh, Once, Instructed, GoesBack, Returned,
                      Nothing, Mild, Answers
<1> QED BY <1>1, <1>2 DEF Next

-----------------------------------------------------------------------------
(* One verdict: what an attempt reports never tells of a success and a failure *)

Praise == {<<"success", 0>>, <<"callback", 0>>, <<"next", 0>>, <<"reply", 0>>}
Blame == ({"failure", "failure reply", "chord"} \X Nat) \cup {<<"errback", 0>>}

OneStory(a) ==
    /\ Mild(a) \/ (a.plan \in Seq(Blame) /\ a.did \cap Praise = {})
    /\ a.raising = "none" => Mild(a)
Verdicts == \A w \in Workers : OneStory(work[w])

LEMMA EffectsAre ==
    ASSUME task \in Messages
    PROVE  /\ Harmless \subseteq Effects
           /\ \A n \in 0..Len(task.chain) : {<<"failure", n>>, <<"failure reply", n>>, <<"chord", n>>}
                                               \subseteq Blame \cap Effects
           /\ <<"errback", 0>> \in Blame \cap Effects
<1>1. Len(task.chain) \in Nat
  BY DEF Messages
<1>2. 0 \in 0..Len(task.chain) /\ 0..Len(task.chain) \subseteq Nat
  BY <1>1
<1>3. Harmless \subseteq Effects
  BY <1>2 DEF Harmless, Effects, Kinds
<1>4. ASSUME NEW n \in 0..Len(task.chain), NEW k \in {"failure", "failure reply", "chord"}
      PROVE  <<k, n>> \in Blame \cap Effects
  BY <1>2 DEF Effects, Blame, Kinds
<1>5. <<"errback", 0>> \in Blame \cap Effects
  BY <1>2 DEF Effects, Blame, Kinds
<1> QED BY <1>3, <1>4, <1>5

\* A plan of a failure tells of nothing else, whatever the chain.
LEMMA FailureBlames == ASSUME task \in Messages PROVE FailurePlan \in Seq(Blame \cap Effects)
<1> DEFINE B == Blame \cap Effects
           parts == [n \in 1..Len(task.chain) |-> Downstream(n)]
<1>1. ASSUME NEW s \in Seq(B), NEW t \in Seq(B) PROVE s \o t \in Seq(B)
  OBVIOUS
<1>2. ASSUME NEW e \in B, NEW condition PROVE When(condition, e) \in Seq(B)
  <2>1. <<e>> \in Seq(B) /\ <<>> \in Seq(B)
    OBVIOUS
  <2> QED BY <2>1, Zenon DEF When
<1>3. /\ \A n \in 0..Len(task.chain) : /\ <<"failure", n>> \in B /\ <<"failure reply", n>> \in B
                                       /\ <<"chord", n>> \in B
      /\ <<"errback", 0>> \in B
  BY EffectsAre
<1>4. Len(task.chain) \in Nat
  BY DEF Messages
<1> HIDE DEF B
<1>5. ASSUME NEW n \in 0..Len(task.chain), NEW reply_to PROVE Report("failure", n, reply_to) \in Seq(B)
  BY <1>1, <1>2, <1>3 DEF Report
<1>6. parts \in Seq(Seq(B))
  <2>1. ASSUME NEW n \in 1..Len(task.chain) PROVE Downstream(n) \in Seq(B)
    <3>1. n \in 0..Len(task.chain)
      BY <1>4
    <3>2. When(task.chain[n].chord, <<"chord", n>>) \in Seq(B)
      BY <1>2, <1>3, <3>1
    <3>3. Report("failure", n, task.chain[n].reply_to) \in Seq(B)
      BY <1>5, <3>1
    <3>4. <<>> \in Seq(B)
      OBVIOUS
    <3> QED BY <1>1, <3>2, <3>3, <3>4 DEF Downstream
  <2>2. parts \in [1..Len(task.chain) -> Seq(B)]
    BY <2>1
  <2> QED BY <1>4, <2>2, SeqDef
<1>7. FlattenSeq(parts) \in Seq(B)
  BY <1>6, FlattenedIn
<1>8. 0 \in 0..Len(task.chain)
  BY <1>4
<1>9. /\ Report("failure", 0, task.reply_to) \in Seq(B) /\ When(task.chord, <<"chord", 0>>) \in Seq(B)
      /\ When(task.errors, <<"errback", 0>>) \in Seq(B)
  BY <1>2, <1>3, <1>5, <1>8
<1> HIDE DEF parts
<1>10. FailurePlan = Report("failure", 0, task.reply_to) \o When(task.chord, <<"chord", 0>>)
                        \o FlattenSeq(parts) \o When(task.errors, <<"errback", 0>>)
  BY DEF FailurePlan, parts
<1> QED BY <1>1, <1>7, <1>9, <1>10 DEF B

LEMMA PlanTyped ==
    ASSUME task \in Messages, NEW ends, NEW committed
    PROVE  /\ Plan(ends, committed) \in Seq(Effects)
           /\ Plan(ends, committed) \in Seq(Harmless) \/ Plan(ends, committed) \in Seq(Blame)
           /\ ends # "error" => Plan(ends, committed) \in Seq(Harmless)
<1>1. /\ SuccessPlan \in Seq(Harmless) /\ SuccessPlan \in Seq(Effects)
      /\ FailurePlan \in Seq(Blame) /\ FailurePlan \in Seq(Effects)
  BY SuccessIsHarmless, FailureBlames, EffectsAre, SeqOfMore
<1>2. <<>> \in Seq(Effects) /\ <<>> \in Seq(Harmless)
  OBVIOUS
<1>3. Plan(ends, committed) \in {<<>>, SuccessPlan, FailurePlan}
      /\ (ends # "error" => Plan(ends, committed) \in {<<>>, SuccessPlan})
  BY DEF Plan
<1> QED BY <1>1, <1>2, <1>3

-----------------------------------------------------------------------------
(* Attempts one after the other, as long as nothing is lost and nothing breaks that *)
(* the policy would repeat *)

\* An attempt that reports nothing and never will.
Quiet(a) == Nothing(a) /\ (a.at \in {"idle", "held"} \/ a.committed = "requeued")

\* At most one attempt speaks; it has said all that was ever said, and while it speaks,
\* and when it has spoken, the message is not delivered again.
Serial ==
    ~Repeatable =>
       /\ \A v, w \in Workers : v # w => Quiet(work[v]) \/ Quiet(work[w])
       /\ \A w \in Workers : ~Quiet(work[w]) => done = work[w].did /\ status # "ready"
       /\ status = "ready" => done = {}
       /\ policy = "NACK_ON_ERROR" =>
             \A w \in Workers : work[w].raising = "error" /\ work[w].committed = "none"
                                   => Nothing(work[w])

-----------------------------------------------------------------------------
(* Types *)

Typed ==
    /\ task \in Tasks /\ policy \in Policies
    /\ work \in [Workers -> Attempts]
    /\ done \subseteq Effects
    /\ faults \in 0..MaxFaults /\ losses \in 0..MaxLosses

\* A delivery has one owner, and the message is unacked exactly while it has one.
Owners ==
    /\ status \in {"ready", "unacked", "acked", "rejected"}
    /\ \A v, w \in Workers : work[v].owns /\ work[w].owns => v = w
    /\ status = "unacked" <=> \E w \in Workers : work[w].owns

LEMMA TypedIs ==
    ASSUME Typed
    PROVE  /\ task \in Messages /\ policy \in AllPolicies
           /\ \A w \in Workers : work[w] \in Attempts
           /\ \A a \in Attempts : Attempt(a)
BY TaskAssumption, PolicyAssumption DEF Typed, Attempts, Attempt, Fields

LEMMA TypedMove ==
    ASSUME Typed, NEW w \in Workers, NEW b \in Attempts, Set(w, b), UNCHANGED <<task, policy>>,
           done' \subseteq Effects, faults' \in 0..MaxFaults, losses' \in 0..MaxLosses
    PROVE  Typed'
<1>1. Attempts' = Attempts /\ Effects' = Effects
  BY DEF Attempts, Effects
<1>2. work' \in [Workers -> Attempts]
  <2> HIDE DEF Attempts
  <2> QED BY DEF Typed, Set
<1> QED BY <1>1, <1>2 DEF Typed

LEMMA IdleTyped ==
    /\ Idle \in Attempts /\ [Idle EXCEPT !.at = "receive", !.owns = TRUE] \in Attempts
    /\ [Idle EXCEPT !.at = "held", !.owns = TRUE] \in Attempts
<1>1. <<>> \in Seq(Effects) /\ {} \in SUBSET Effects
  OBVIOUS
<1> QED BY <1>1 DEF Idle, Attempts, Steps, Dispositions

\* What a settlement does: at most once, and to the message, too.
Settlement(a, b) ==
    \/ b.committed = a.committed /\ b.owns = a.owns /\ status' = status
    \/ /\ a.committed = "none" /\ a.owns /\ ~b.owns
       /\ b.committed \in {"acked", "requeued", "rejected"}
       /\ status' = IF b.committed = "requeued" THEN "ready" ELSE b.committed

LEMMA SettledMoves ==
    ASSUME NEW a \in Attempts, NEW d \in Dispositions, status' = StatusAfter(a, d)
    PROVE  LET s == Settled(a, d) IN
           /\ s \in Attempts /\ Settlement(a, s)
           /\ s.at = a.at /\ s.fate = a.fate /\ s.raising = a.raising
           /\ s.plan = a.plan /\ s.did = a.did
           /\ s.committed \in {a.committed, d}
<1>1. CASE Settles(a, d)
  <2> DEFINE s == [a EXCEPT !.committed = d, !.owns = FALSE]
  <2>1. /\ s \in Attempts /\ s.at = a.at /\ s.fate = a.fate /\ s.raising = a.raising
        /\ s.plan = a.plan /\ s.did = a.did /\ s.committed = d /\ ~s.owns
    BY DEF Attempts
  <2>2. Settled(a, d) = s /\ status' = IF d = "requeued" THEN "ready" ELSE d
    BY <1>1 DEF Settled, StatusAfter
  <2>3. Settlement(a, s)
    BY <1>1, <2>1, <2>2 DEF Settles, Settlement, Dispositions
  <2> QED BY <2>1, <2>2, <2>3
<1>2. CASE ~Settles(a, d)
  BY <1>2 DEF Settled, StatusAfter, Settlement
<1> QED BY <1>1, <1>2

LEMMA ReceiveMoves ==
    ASSUME Typed, OutcomeInv, NEW w \in Workers, Receive(w)
    PROVE  \E b \in Attempts : /\ Set(w, b) /\ Settlement(work[w], b)
                               /\ work[w].at = "receive" /\ b.at \in {"handler", "exit"}
                               /\ Nothing(b) /\ b.raising \in {"none", "unmatched"}
                               /\ b.committed \in {work[w].committed, "acked"}
<1> DEFINE a == work[w]
<1>1. a \in Attempts /\ Nothing(a) /\ a.raising = "none" /\ a.at = "receive"
  BY TypedIs DEF OutcomeInv, Sound, Fresh, Early, Receive
<1>2. ASSUME Unmatched \in Fates, status' = status,
             Set(w, [a EXCEPT !.at = "exit", !.fate = Unmatched, !.raising = "unmatched"])
      PROVE  \E b \in Attempts : /\ Set(w, b) /\ Settlement(a, b) /\ b.at = "exit" /\ Nothing(b)
                                 /\ b.raising = "unmatched" /\ b.committed = a.committed
  <2> DEFINE b == [a EXCEPT !.at = "exit", !.fate = Unmatched, !.raising = "unmatched"]
  <2> HIDE DEF a
  <2>1. /\ b \in Attempts /\ b.at = "exit" /\ b.raising = "unmatched" /\ b.committed = a.committed
        /\ b.owns = a.owns /\ b.plan = a.plan /\ b.did = a.did
    BY <1>1, <1>2 DEF Attempts, Steps
  <2>2. Set(w, b)
    BY <1>2
  <2> HIDE DEF b
  <2> QED BY <1>1, <1>2, <2>1, <2>2 DEF Nothing, Settlement
<1>3. ASSUME NEW first \in Dispositions, first \in {"acked", "none"}, status' = StatusAfter(a, first),
             Set(w, [Settled(a, first) EXCEPT !.at = "handler"])
      PROVE  \E b \in Attempts : /\ Set(w, b) /\ Settlement(a, b) /\ b.at = "handler" /\ Nothing(b)
                                 /\ b.raising = "none" /\ b.committed \in {a.committed, "acked"}
  <2> DEFINE s == Settled(a, first)
             b == [s EXCEPT !.at = "handler"]
  <2> HIDE DEF a
  <2>1. /\ s \in Attempts /\ Settlement(a, s) /\ s.raising = a.raising
        /\ s.plan = a.plan /\ s.did = a.did /\ s.committed \in {a.committed, first}
    BY <1>1, <1>3, SettledMoves
  <2>2. a.committed = "none" \/ s.committed = a.committed
    BY <2>1 DEF Settlement
  <2>3. Set(w, b)
    BY <1>3
  <2> HIDE DEF s
  <2>4. /\ b \in Attempts /\ b.at = "handler" /\ b.raising = s.raising /\ b.committed = s.committed
        /\ b.owns = s.owns /\ b.plan = s.plan /\ b.did = s.did
    BY <2>1 DEF Attempts, Steps
  <2> HIDE DEF b
  <2>5. Settlement(a, b)
    BY <2>1, <2>4 DEF Settlement
  <2>6. b.committed \in {a.committed, "acked"}
    BY <1>3, <2>1, <2>2, <2>4 DEF Settlement
  <2> QED BY <1>1, <2>1, <2>3, <2>4, <2>5, <2>6 DEF Nothing
<1> QED BY <1>1, <1>2, <1>3 DEF Receive, Dispositions

\* How a handler ends, as its message sees it.
Endings == {"return", "error"} \cup Instructions

LEMMA HandleMoves ==
    ASSUME Typed, OutcomeInv, NEW w \in Workers, Handle(w)
    PROVE  \E b \in Attempts, ends \in Endings :
              /\ Set(w, b) /\ Settlement(work[w], b)
              /\ work[w].at = "handler" /\ b.at = "scope" /\ b.did = {}
              /\ b.plan = Plan(ends, b.committed)
              /\ b.raising = IF ends = "return" THEN "none" ELSE ends
<1> DEFINE a == work[w]
<1>1. a \in Attempts /\ Nothing(a) /\ a.at = "handler" /\ task \in Messages
  BY TypedIs DEF OutcomeInv, Sound, Fresh, Early, Handle
<1> DEFINE E(f) == IF f.settles # "none" /\ a.committed = "none" /\ ~a.owns THEN "error" ELSE f.ends
           B(f) == [Settled(a, f.settles) EXCEPT !.at = "scope", !.fate = f,
                       !.plan = Plan(E(f), Settled(a, f.settles).committed),
                       !.raising = IF E(f) = "return" THEN "none" ELSE E(f)]
<1>2. PICK fate \in Fates \ {Unmatched} : Set(w, B(fate)) /\ status' = StatusAfter(a, fate.settles)
  BY DEF Handle
<1>3. fate.settles \in Dispositions /\ fate.ends \in {"return", "error"} \cup Instructions
  BY FateAssumption DEF AllFates
<1>4. PICK ends : ends = E(fate)
  OBVIOUS
<1>5. ends \in {"return", "error"} \cup Instructions
  BY <1>3, <1>4
<1> DEFINE s == Settled(a, fate.settles)
           b == [s EXCEPT !.at = "scope", !.fate = fate, !.plan = Plan(ends, s.committed),
                          !.raising = IF ends = "return" THEN "none" ELSE ends]
<1>6. Set(w, b)
  BY <1>2, <1>4
<1> HIDE DEF a
<1>7. s \in Attempts /\ Settlement(a, s) /\ s.did = a.did
  BY <1>1, <1>2, <1>3, SettledMoves
<1> HIDE DEF s
<1>8. Plan(ends, s.committed) \in Seq(Effects)
  BY <1>1, PlanTyped
<1>9. /\ b \in Attempts /\ b.at = "scope" /\ b.did = s.did /\ b.plan = Plan(ends, s.committed)
      /\ b.raising = (IF ends = "return" THEN "none" ELSE ends)
      /\ b.committed = s.committed /\ b.owns = s.owns
  BY <1>5, <1>7, <1>8 DEF Attempts, Steps
<1> HIDE DEF b
<1>10. Settlement(a, b)
  BY <1>7, <1>9 DEF Settlement
<1>11. b.did = {} /\ b.plan = Plan(ends, b.committed)
  BY <1>1, <1>7, <1>9 DEF Nothing
<1> QED BY <1>1, <1>5, <1>6, <1>9, <1>10, <1>11 DEF a, Endings

LEMMA DoMoves ==
    ASSUME Typed, NEW w \in Workers, Do(w)
    PROVE  \E b \in Attempts, e \in Effects :
              /\ Set(w, b) /\ done' = done \cup {e} /\ e = Head(work[w].plan)
              /\ work[w].at \in {"scope", "reply"} /\ work[w].plan # <<>>
              /\ b.at = work[w].at /\ b.raising = work[w].raising
              /\ b.committed = work[w].committed /\ b.owns = work[w].owns
              /\ b.plan = Tail(work[w].plan) /\ b.did = work[w].did \cup {e}
<1> DEFINE a == work[w]
           e == Head(a.plan)
           b == [a EXCEPT !.plan = Tail(a.plan), !.did = a.did \cup {e}]
<1>1. a \in Attempts /\ a.at \in {"scope", "reply"} /\ a.plan # <<>> /\ done' = done \cup {e}
  BY TypedIs DEF Do
<1>2. Set(w, b)
  BY DEF Do, Doing
<1> HIDE DEF a
<1>3. a.plan \in Seq(Effects) /\ a.did \subseteq Effects
  BY <1>1 DEF Attempts
<1>4. e \in Effects /\ Tail(a.plan) \in Seq(Effects)
  BY <1>1, <1>3
<1> HIDE DEF e
<1>5. /\ b \in Attempts /\ b.at = a.at /\ b.raising = a.raising /\ b.committed = a.committed
      /\ b.owns = a.owns /\ b.plan = Tail(a.plan) /\ b.did = a.did \cup {e}
  BY <1>1, <1>3, <1>4 DEF Attempts
<1> HIDE DEF b
<1> QED BY <1>1, <1>2, <1>4, <1>5 DEF a, e

LEMMA FailMoves ==
    ASSUME Typed, NEW w \in Workers, Fail(w)
    PROVE  \E b \in Attempts, e \in Effects :
              /\ Set(w, b) /\ e = Head(work[w].plan) /\ work[w].plan # <<>>
              /\ work[w].at \in {"scope", "reply"}
              /\ b.at = "exit" /\ b.raising = "error" /\ b.plan = <<>>
              /\ b.committed = work[w].committed /\ b.owns = work[w].owns
              /\ \/ b.did = work[w].did /\ done' = done
                 \/ b.did = work[w].did \cup {e} /\ done' = done \cup {e}
              /\ faults' \in 0..MaxFaults /\ (faults' > 0 \/ task.unsupported # {})
<1> DEFINE a == work[w]
           e == Head(a.plan)
<1>1. a \in Attempts /\ a.at \in {"scope", "reply"} /\ a.plan # <<>>
  BY TypedIs DEF Fail
<1>2. \/ Set(w, Breaks(a)) /\ done' = done
      \/ Set(w, Breaks(Doing(w, e))) /\ done' = done \cup {e}
  BY DEF Fail
<1>3. faults' \in 0..MaxFaults /\ (faults' > 0 \/ task.unsupported # {})
  <2>1. faults \in Nat /\ MaxFaults \in Nat
    BY BoundAssumption DEF Typed
  <2>2. CASE Refused(Head(a.plan)) /\ UNCHANGED faults
    BY <2>2 DEF Refused, Typed
  <2>3. CASE faults < MaxFaults /\ faults' = faults + 1
    BY <2>1, <2>3
  <2> QED BY <2>2, <2>3 DEF Fail
<1>4. Doing(w, e) = [a EXCEPT !.plan = Tail(a.plan), !.did = a.did \cup {e}]
  BY DEF Doing
<1> HIDE DEF a
<1>5. a.plan \in Seq(Effects) /\ a.did \subseteq Effects
  BY <1>1 DEF Attempts
<1>6. e \in Effects /\ Tail(a.plan) \in Seq(Effects) /\ <<>> \in Seq(Effects)
  BY <1>1, <1>5
<1> HIDE DEF e
<1>7. ASSUME NEW c \in Attempts
      PROVE  /\ Breaks(c) \in Attempts /\ Breaks(c).at = "exit" /\ Breaks(c).raising = "error"
             /\ Breaks(c).plan = <<>> /\ Breaks(c).committed = c.committed
             /\ Breaks(c).owns = c.owns /\ Breaks(c).did = c.did
  BY <1>6 DEF Breaks, Attempts, Steps
<1>8. /\ Doing(w, e) \in Attempts /\ Doing(w, e).committed = a.committed
      /\ Doing(w, e).owns = a.owns /\ Doing(w, e).did = a.did \cup {e}
  <2> DEFINE c == [a EXCEPT !.plan = Tail(a.plan), !.did = a.did \cup {e}]
  <2>1. c \in Attempts /\ c.committed = a.committed /\ c.owns = a.owns /\ c.did = a.did \cup {e}
    BY <1>1, <1>5, <1>6 DEF Attempts
  <2> HIDE DEF c
  <2> QED BY <1>4, <2>1 DEF c
<1> QED BY <1>1, <1>2, <1>3, <1>6, <1>7, <1>8 DEF a, e

LEMMA LeaveMoves ==
    ASSUME Typed, NEW w \in Workers, LeaveScope(w) \/ LeaveReply(w)
    PROVE  \E b \in Attempts :
              /\ Set(w, b) /\ work[w].at \in {"scope", "reply"} /\ work[w].plan = <<>>
              /\ b.raising = work[w].raising /\ b.committed = work[w].committed
              /\ b.owns = work[w].owns /\ b.did = work[w].did
              /\ \/ b.at = "exit" /\ b.plan = <<>>
                 \/ b.at = "reply" /\ b.plan = <<>>
                 \/ /\ b.at = "reply" /\ b.plan \in Seq(Harmless)
                    /\ b.raising = "none" /\ b.committed # "requeued"
<1> DEFINE a == work[w]
<1>1. a \in Attempts /\ a.at \in {"scope", "reply"} /\ a.plan = <<>>
  BY TypedIs DEF LeaveScope, LeaveReply
<1>2. \/ Set(w, [a EXCEPT !.at = "exit"])
      \/ /\ a.raising = "none"
         /\ Set(w, [a EXCEPT !.at = "reply", !.plan = When(Replies(a), <<"reply", 0>>)])
  BY DEF LeaveScope, LeaveReply
<1>3. Replies(a) => a.committed # "requeued"
  BY DEF Replies
<1>4. <<"reply", 0>> \in Harmless /\ Harmless \subseteq Effects
  BY TypedIs, EffectsAre DEF Harmless
<1> HIDE DEF a
<1>5. CASE Set(w, [a EXCEPT !.at = "exit"])
  <2> DEFINE b == [a EXCEPT !.at = "exit"]
  <2>1. /\ b \in Attempts /\ b.at = "exit" /\ b.raising = a.raising /\ b.committed = a.committed
        /\ b.owns = a.owns /\ b.did = a.did /\ b.plan = a.plan
    BY <1>1 DEF Attempts, Steps
  <2> HIDE DEF b
  <2> QED BY <1>1, <1>5, <2>1 DEF a, b
<1>6. ASSUME a.raising = "none",
             Set(w, [a EXCEPT !.at = "reply", !.plan = When(Replies(a), <<"reply", 0>>)])
      PROVE  \E b \in Attempts :
                /\ Set(w, b) /\ b.raising = "none" /\ b.committed = a.committed /\ b.owns = a.owns
                /\ b.did = a.did /\ b.at = "reply"
                /\ b.plan = <<>> \/ (b.plan \in Seq(Harmless) /\ b.committed # "requeued")
  <2> DEFINE plan == When(Replies(a), <<"reply", 0>>)
             b == [a EXCEPT !.at = "reply", !.plan = plan]
  <2>1. plan \in Seq(Harmless) /\ (plan = <<>> \/ a.committed # "requeued")
    <3>1. <<(<<"reply", 0>>)>> \in Seq(Harmless) /\ <<>> \in Seq(Harmless)
      BY <1>4
    <3> QED BY <1>3, <3>1, Zenon DEF When
  <2>2. plan \in Seq(Effects)
    BY <1>4, <2>1, SeqOfMore
  <2> HIDE DEF plan
  <2>3. /\ b \in Attempts /\ b.at = "reply" /\ b.raising = a.raising /\ b.committed = a.committed
        /\ b.owns = a.owns /\ b.did = a.did /\ b.plan = plan
    BY <1>1, <2>2 DEF Attempts, Steps
  <2>4. Set(w, b)
    BY <1>6 DEF plan
  <2> HIDE DEF b
  <2> QED BY <1>6, <2>1, <2>3, <2>4
<1> QED BY <1>1, <1>2, <1>5, <1>6 DEF a

LEMMA DispositionIs ==
    ASSUME policy \in AllPolicies, NEW raising \in {"none", "error", "unmatched"} \cup Instructions
    PROVE  /\ Disposition(raising) \in Dispositions
           /\ Disposition(raising) = "requeued" =>
                 raising = "nack" \/ (raising = "error" /\ policy = "NACK_ON_ERROR")
<1>1. CASE LeftAlone
  BY <1>1 DEF Disposition, Dispositions
<1>2. CASE ~LeftAlone /\ raising = "error"
  <2>1. Disposition(raising) = OnError
    BY <1>2 DEF Disposition
  <2>2. OnError \in Dispositions /\ (OnError = "requeued" => policy = "NACK_ON_ERROR")
    BY <1>2 DEF OnError, LeftAlone, AllPolicies, Dispositions
  <2> QED BY <1>2, <2>1, <2>2
<1>3. CASE ~LeftAlone /\ raising # "error"
  BY <1>3 DEF Disposition, Instructions, Dispositions
<1> QED BY <1>1, <1>2, <1>3

LEMMA ExitMoves ==
    ASSUME Typed, NEW w \in Workers, Exit(w)
    PROVE  \E b \in Attempts :
              /\ Set(w, b) /\ Settlement(work[w], b) /\ work[w].at = "exit" /\ b.at = "unhandled"
              /\ b.raising = work[w].raising /\ b.plan = work[w].plan /\ b.did = work[w].did
              /\ b.committed = "requeued" /\ work[w].committed # "requeued" =>
                    b.raising = "nack" \/ (b.raising = "error" /\ policy = "NACK_ON_ERROR")
<1> DEFINE a == work[w]
<1>1. a \in Attempts /\ a.at = "exit" /\ policy \in AllPolicies
  BY TypedIs DEF Exit
<1>2. PICK d : d = Disposition(a.raising)
  OBVIOUS
<1> DEFINE s == Settled(a, d)
           b == [s EXCEPT !.at = "unhandled"]
<1>3. Set(w, b) /\ status' = StatusAfter(a, d)
  BY <1>2 DEF Exit
<1> HIDE DEF a
<1>4. a.raising \in {"none", "error", "unmatched"} \cup Instructions
  BY <1>1 DEF Attempts
<1>5. /\ d \in Dispositions
      /\ d = "requeued" => a.raising = "nack" \/ (a.raising = "error" /\ policy = "NACK_ON_ERROR")
  BY <1>1, <1>2, <1>4, DispositionIs
<1>6. /\ s \in Attempts /\ Settlement(a, s) /\ s.raising = a.raising /\ s.plan = a.plan
      /\ s.did = a.did /\ s.committed \in {a.committed, d}
  BY <1>1, <1>3, <1>5, SettledMoves
<1> HIDE DEF s
<1>7. /\ b \in Attempts /\ b.at = "unhandled" /\ b.raising = s.raising /\ b.plan = s.plan
      /\ b.did = s.did /\ b.committed = s.committed /\ b.owns = s.owns
  BY <1>6 DEF Attempts, Steps
<1> HIDE DEF b
<1>8. Settlement(a, b)
  BY <1>6, <1>7 DEF Settlement
<1> QED BY <1>1, <1>3, <1>5, <1>6, <1>7, <1>8 DEF a

LEMMA LastMoves ==
    ASSUME Typed, NEW w \in Workers, SettleUnhandled(w)
    PROVE  \E b \in Attempts :
              /\ Set(w, b) /\ b.at \in {"idle", "held"} /\ Nothing(b) /\ b.raising = "none"
              /\ b.committed = "none" /\ work[w].at = "unhandled"
              /\ \/ b.owns = work[w].owns /\ status' = status
                 \/ work[w].owns /\ ~b.owns /\ status' = "rejected"
<1> DEFINE a == work[w]
<1>1. a \in Attempts /\ a.at = "unhandled"
  BY TypedIs DEF SettleUnhandled
<1>2. PICK d : d = Unhandled(a)
  OBVIOUS
<1>3. d \in {"none", "rejected"}
  BY <1>2 DEF Unhandled
<1> DEFINE s == Settled(a, d)
<1>4. /\ status' = StatusAfter(a, d)
      /\ Set(w, IF s.owns THEN [Idle EXCEPT !.at = "held", !.owns = TRUE] ELSE Idle)
  BY <1>2 DEF SettleUnhandled
<1> HIDE DEF a
<1>5. s \in Attempts /\ Settlement(a, s) /\ s.committed \in {a.committed, d}
  BY <1>1, <1>3, <1>4, SettledMoves DEF Dispositions
<1> HIDE DEF s
<1>6. /\ s.owns \in BOOLEAN /\ a.owns \in BOOLEAN
      /\ \/ s.owns = a.owns /\ status' = status
         \/ a.owns /\ ~s.owns /\ status' = "rejected"
  BY <1>1, <1>3, <1>5 DEF Settlement, Attempts
<1>7. /\ Idle.at = "idle" /\ Nothing(Idle) /\ Idle.raising = "none" /\ Idle.committed = "none" /\ ~Idle.owns
      /\ LET held == [Idle EXCEPT !.at = "held", !.owns = TRUE]
         IN  held.at = "held" /\ Nothing(held) /\ held.raising = "none" /\ held.committed = "none"
             /\ held.owns = TRUE
  BY DEF Idle, Nothing
<1>8. CASE s.owns
  BY <1>1, <1>4, <1>6, <1>7, <1>8, IdleTyped DEF a
<1>9. CASE ~s.owns
  <2>1. Idle.owns = FALSE
    BY DEF Idle
  <2> QED BY <1>1, <1>4, <1>6, <1>7, <1>9, <2>1, IdleTyped DEF a
<1> QED BY <1>8, <1>9

LEMMA TakeMoves ==
    ASSUME NEW w \in Workers, Take(w)
    PROVE  \E b \in Attempts :
              /\ Set(w, b) /\ work[w].at = "idle" /\ status = "ready" /\ status' = "unacked"
              /\ b.at = "receive" /\ b.owns /\ Nothing(b) /\ b.raising = "none" /\ b.committed = "none"
<1> DEFINE b == [Idle EXCEPT !.at = "receive", !.owns = TRUE]
<1>1. b \in Attempts
  BY IdleTyped
<1>2. /\ b.at = "receive" /\ b.owns /\ Nothing(b) /\ b.raising = "none" /\ b.committed = "none"
  BY DEF Idle, Nothing
<1> QED BY <1>1, <1>2 DEF Take

LEMMA LoseMoves ==
    ASSUME Typed, NEW w \in Workers, Lose(w)
    PROVE  \E b \in Attempts :
              /\ Set(w, b) /\ work[w].owns /\ status' = "ready" /\ ~b.owns
              /\ losses' \in 0..MaxLosses /\ losses' > 0
              /\ \/ /\ b.raising = work[w].raising /\ b.plan = work[w].plan /\ b.did = work[w].did
                 \/ Nothing(b) /\ b.raising = "none"
<1> DEFINE a == work[w]
<1>1. a \in Attempts /\ losses' \in 0..MaxLosses /\ losses' > 0
  BY TypedIs, BoundAssumption DEF Lose, Typed
<1>2. CASE Set(w, Idle)
  <2>1. Nothing(Idle) /\ Idle.raising = "none" /\ ~Idle.owns
    BY DEF Idle, Nothing
  <2> QED BY <1>1, <1>2, <2>1, IdleTyped DEF Lose
<1>3. CASE Set(w, [a EXCEPT !.owns = FALSE])
  <2> DEFINE b == [a EXCEPT !.owns = FALSE]
  <2> HIDE DEF a
  <2>1. /\ b \in Attempts /\ b.raising = a.raising /\ b.plan = a.plan /\ b.did = a.did /\ ~b.owns
    BY <1>1 DEF Attempts
  <2>2. Set(w, b)
    BY <1>3
  <2> HIDE DEF b
  <2> QED BY <1>1, <2>1, <2>2 DEF Lose, a
<1> QED BY <1>2, <1>3 DEF Lose

LEMMA TypedStep == Typed /\ OutcomeInv /\ Next => Typed'
<1> SUFFICES ASSUME Typed, OutcomeInv, NEW w \in Workers, Take(w) \/ Lose(w) \/ Run(w) \/ Fail(w)
             PROVE  Typed'
  BY DEF Next
<1>1. CASE Take(w)
  BY <1>1, TakeMoves, TypedMove DEF Take, Typed
<1>2. CASE Lose(w)
  BY <1>2, LoseMoves, TypedMove DEF Lose, Typed
<1>3. CASE Receive(w)
  BY <1>3, ReceiveMoves, TypedMove DEF Receive, Typed
<1>4. CASE Handle(w)
  BY <1>4, HandleMoves, TypedMove DEF Handle, Typed
<1>5. CASE Do(w)
  BY <1>5, DoMoves, TypedMove DEF Do, Typed
<1>6. CASE Fail(w)
  BY <1>6, FailMoves, TypedMove DEF Fail, Typed
<1>7. CASE LeaveScope(w) \/ LeaveReply(w)
  BY <1>7, LeaveMoves, TypedMove DEF LeaveScope, LeaveReply, Typed
<1>8. CASE Exit(w)
  BY <1>8, ExitMoves, TypedMove DEF Exit, Typed
<1>9. CASE SettleUnhandled(w)
  BY <1>9, LastMoves, TypedMove DEF SettleUnhandled, Typed
<1> QED BY <1>1, <1>2, <1>3, <1>4, <1>5, <1>6, <1>7, <1>8, <1>9 DEF Run

\* A delivery changes hands only through the broker, and leaves them settled.
LEMMA OwnersMove ==
    ASSUME Typed, Owners, NEW w \in Workers, NEW b \in Attempts, Set(w, b),
           \/ b.owns = work[w].owns /\ status' = status
           \/ work[w].owns /\ ~b.owns /\ status' \in {"ready", "acked", "rejected"}
           \/ status = "ready" /\ status' = "unacked" /\ b.owns
    PROVE  Owners'
<1>1. \A v \in Workers : work'[v] = IF v = w THEN b ELSE work[v]
  BY DEF Typed, Set
<1> HIDE DEF Set
<1>2. \A v \in Workers : work'[v].owns = IF v = w THEN b.owns ELSE work[v].owns
  BY <1>1
<1> QED BY <1>2 DEF Owners

LEMMA OwnersStep == Typed /\ OutcomeInv /\ Owners /\ Next => Owners'
<1> SUFFICES ASSUME Typed, OutcomeInv, Owners, NEW w \in Workers,
                    Take(w) \/ Lose(w) \/ Run(w) \/ Fail(w)
             PROVE  Owners'
  BY DEF Next
<1>1. CASE Take(w)
  BY <1>1, TakeMoves, OwnersMove
<1>2. CASE Lose(w)
  BY <1>2, LoseMoves, OwnersMove
<1>3. CASE Receive(w)
  BY <1>3, ReceiveMoves, OwnersMove DEF Settlement
<1>4. CASE Handle(w)
  BY <1>4, HandleMoves, OwnersMove DEF Settlement
<1>5. CASE Do(w)
  BY <1>5, DoMoves, OwnersMove DEF Do
<1>6. CASE Fail(w)
  BY <1>6, FailMoves, OwnersMove DEF Fail
<1>7. CASE LeaveScope(w) \/ LeaveReply(w)
  BY <1>7, LeaveMoves, OwnersMove DEF LeaveScope, LeaveReply
<1>8. CASE Exit(w)
  BY <1>8, ExitMoves, OwnersMove DEF Settlement
<1>9. CASE SettleUnhandled(w)
  BY <1>9, LastMoves, OwnersMove
<1> QED BY <1>1, <1>2, <1>3, <1>4, <1>5, <1>6, <1>7, <1>8, <1>9 DEF Run

LEMMA VerdictsMove ==
    ASSUME Typed, Verdicts, NEW w \in Workers, NEW b \in Attempts, Set(w, b), OneStory(b)
    PROVE  Verdicts'
<1>1. \A v \in Workers : work'[v] = IF v = w THEN b ELSE work[v]
  BY DEF Typed, Set
<1>2. ASSUME NEW v \in Workers PROVE OneStory(work'[v])
  BY <1>1, <1>2 DEF Verdicts
<1> QED BY <1>2 DEF Verdicts, OneStory, Mild

LEMMA NothingIsMild == ASSUME NEW a, Nothing(a) PROVE OneStory(a) /\ Mild(a)
BY NoPlan DEF OneStory, Nothing, Mild

LEMMA BlameTail ==
    ASSUME NEW s \in Seq(Blame), s # <<>>
    PROVE  Head(s) \in Blame /\ Tail(s) \in Seq(Blame) /\ Head(s) \notin Praise
<1>1. Head(s) \in Blame /\ Tail(s) \in Seq(Blame)
  OBVIOUS
<1>2. \A x \in Praise : x[1] \in {"success", "callback", "next", "reply"}
  BY DEF Praise
<1>3. ASSUME NEW x \in Blame PROVE x[1] \in {"failure", "failure reply", "chord", "errback"}
  <2>1. CASE x \in {"failure", "failure reply", "chord"} \X Nat
    BY <2>1
  <2>2. CASE x = <<"errback", 0>>
    BY <2>2
  <2> QED BY <2>1, <2>2 DEF Blame
<1>4. \A x \in Blame : x \notin Praise
  BY <1>2, <1>3
<1> QED BY <1>1, <1>4

\* One more effect of what was planned.
LEMMA StoryGoesOn ==
    ASSUME NEW a, OneStory(a), a.plan # <<>>, NEW b, b.raising = a.raising \/ b.raising = "error",
           b.did = a.did \/ b.did = a.did \cup {Head(a.plan)},
           b.plan = Tail(a.plan) \/ b.plan = <<>>
    PROVE  OneStory(b)
<1>1. \A x : Failures(a.did \cup {x}) = Failures(a.did) \cup Failures({x})
  BY DEF Failures
<1>2. <<>> \in Seq(Harmless) /\ <<>> \in Seq(Blame)
  OBVIOUS
<1>3. CASE Mild(a)
  <2>1. Head(a.plan) \in Harmless /\ Tail(a.plan) \in Seq(Harmless)
    BY <1>3, TailOf DEF Mild
  <2> QED BY <1>1, <1>2, <1>3, <2>1, HarmlessIsNoFailure DEF OneStory, Mild
<1>4. CASE ~Mild(a)
  <2>1. a.plan \in Seq(Blame) /\ a.did \cap Praise = {} /\ a.raising # "none"
    BY <1>4 DEF OneStory
  <2>2. Head(a.plan) \notin Praise /\ Tail(a.plan) \in Seq(Blame)
    BY <2>1, BlameTail
  <2>3. b.plan \in Seq(Blame) /\ b.did \cap Praise = {} /\ b.raising # "none"
    BY <1>2, <2>1, <2>2
  <2> QED BY <2>3 DEF OneStory
<1> QED BY <1>3, <1>4

LEMMA VerdictsStep == Typed /\ OutcomeInv /\ Verdicts /\ Next => Verdicts'
<1> SUFFICES ASSUME Typed, OutcomeInv, Verdicts, NEW w \in Workers,
                    Take(w) \/ Lose(w) \/ Run(w) \/ Fail(w)
             PROVE  Verdicts'
  BY DEF Next
<1>1. OneStory(work[w])
  BY DEF Verdicts
<1>2. ASSUME NEW b, b.raising = work[w].raising, b.plan = work[w].plan, b.did = work[w].did
      PROVE  OneStory(b)
  BY <1>1, <1>2 DEF OneStory, Mild
<1>3. CASE Take(w)
  BY <1>3, TakeMoves, NothingIsMild, VerdictsMove
<1>4. CASE Lose(w)
  BY <1>2, <1>4, LoseMoves, NothingIsMild, VerdictsMove
<1>5. CASE Receive(w)
  BY <1>5, ReceiveMoves, NothingIsMild, VerdictsMove
<1>6. CASE Handle(w)
  <2>1. PICK b \in Attempts, ends \in Endings : /\ Set(w, b) /\ b.did = {} /\ b.plan = Plan(ends, b.committed)
                                    /\ b.raising = IF ends = "return" THEN "none" ELSE ends
    BY <1>6, HandleMoves
  <2>2. b.plan \in Seq(Harmless) \/ b.plan \in Seq(Blame)
    BY <2>1, PlanTyped, TypedIs
  <2>3. b.raising = "none" => b.plan \in Seq(Harmless)
    <3>1. ends # "error" => b.plan \in Seq(Harmless)
      BY <2>1, PlanTyped, TypedIs
    <3> QED BY <2>1, <3>1
  <2>4. OneStory(b)
    BY <2>1, <2>2, <2>3, NoPlan DEF OneStory, Mild
  <2> QED BY <2>1, <2>4, VerdictsMove
<1>7. CASE Do(w)
  <2>1. PICK b \in Attempts :
           /\ Set(w, b) /\ work[w].plan # <<>> /\ b.raising = work[w].raising
           /\ b.plan = Tail(work[w].plan) /\ b.did = work[w].did \cup {Head(work[w].plan)}
    BY <1>7, DoMoves
  <2>2. OneStory(b)
    BY <1>1, <2>1, StoryGoesOn
  <2> QED BY <2>1, <2>2, VerdictsMove
<1>8. CASE Fail(w)
  <2>1. PICK b \in Attempts :
           /\ Set(w, b) /\ work[w].plan # <<>> /\ b.raising = "error" /\ b.plan = <<>>
           /\ b.did = work[w].did \/ b.did = work[w].did \cup {Head(work[w].plan)}
    BY <1>8, FailMoves
  <2>2. OneStory(b)
    BY <1>1, <2>1, StoryGoesOn
  <2> QED BY <2>1, <2>2, VerdictsMove
<1>9. CASE LeaveScope(w) \/ LeaveReply(w)
  <2>1. PICK b \in Attempts :
           /\ Set(w, b) /\ work[w].plan = <<>>
           /\ b.raising = work[w].raising /\ b.did = work[w].did
           /\ b.plan = <<>> \/ (b.plan \in Seq(Harmless) /\ b.raising = "none")
    BY <1>9, LeaveMoves
  <2>2. CASE b.plan = <<>>
    BY <1>2, <2>1, <2>2, VerdictsMove
  <2>3. CASE b.plan \in Seq(Harmless) /\ b.raising = "none"
    <3>1. OneStory(b)
      BY <1>1, <2>1, <2>3 DEF OneStory, Mild
    <3> QED BY <2>1, <3>1, VerdictsMove
  <2> QED BY <2>1, <2>2, <2>3
<1>10. CASE Exit(w)
  BY <1>2, <1>10, ExitMoves, VerdictsMove
<1>11. CASE SettleUnhandled(w)
  BY <1>11, LastMoves, NothingIsMild, VerdictsMove
<1> QED BY <1>3, <1>4, <1>5, <1>6, <1>7, <1>8, <1>9, <1>10, <1>11 DEF Run

\* Whatever may be repeated from now on may be repeated later, too.
LEMMA RepeatableStays ==
    ASSUME UNCHANGED <<task, policy>>, losses > 0 => losses' > 0, faults > 0 => faults' > 0,
           ~Repeatable'
    PROVE  ~Repeatable
BY DEF Repeatable

\* A step of an attempt that already spoke, or that speaks first.
LEMMA SpeakerMoves ==
    ASSUME Typed, Serial, ~Repeatable, NEW w \in Workers, NEW b \in Attempts, Set(w, b),
           UNCHANGED policy, ~Quiet(work[w]), done' = b.did,
           Quiet(b) \/ status' # "ready",
           status' = "ready" => done' = {},
           policy = "NACK_ON_ERROR" /\ b.raising = "error" /\ b.committed = "none" => Nothing(b)
    PROVE  Serial'
<1>1. \A v \in Workers : work'[v] = IF v = w THEN b ELSE work[v]
  BY DEF Typed, Set
<1>2. \A v \in Workers : v # w => Quiet(work[v])
  BY DEF Serial
<1>3. \A v \in Workers : v # w => Quiet(work'[v])
  BY <1>1, <1>2
<1>4. \A u, v \in Workers : u # v => Quiet(work'[u]) \/ Quiet(work'[v])
  BY <1>3
<1>5. \A v \in Workers : ~Quiet(work'[v]) => done' = work'[v].did /\ status' # "ready"
  BY <1>1, <1>3
<1>6. policy = "NACK_ON_ERROR" =>
         \A v \in Workers : work'[v].raising = "error" /\ work'[v].committed = "none"
                               => Nothing(work'[v])
  <2>1. \A v \in Workers : v # w => Nothing(work'[v])
    BY <1>3 DEF Quiet
  <2> QED BY <1>1, <2>1
<1> QED BY <1>4, <1>5, <1>6 DEF Serial, Quiet, Nothing

\* A step of an attempt that says nothing, or of the last that spoke.
LEMMA QuietMoves ==
    ASSUME Typed, Serial, ~Repeatable, NEW w \in Workers, NEW b \in Attempts, Set(w, b),
           UNCHANGED <<policy, done>>, Quiet(b), status' # "ready" \/ status = "ready"
    PROVE  Serial'
<1>1. \A v \in Workers : work'[v] = IF v = w THEN b ELSE work[v]
  BY DEF Typed, Set
<1>2. \A v \in Workers : Quiet(work'[v]) \/ work'[v] = work[v]
  BY <1>1
<1>3. \A u, v \in Workers : u # v => Quiet(work'[u]) \/ Quiet(work'[v])
  BY <1>2 DEF Serial
<1>4. \A v \in Workers : ~Quiet(work'[v]) => done' = work'[v].did /\ status' # "ready"
  BY <1>2 DEF Serial
<1>5. policy = "NACK_ON_ERROR" =>
         \A v \in Workers : work'[v].raising = "error" /\ work'[v].committed = "none"
                               => Nothing(work'[v])
  BY <1>2 DEF Serial, Quiet
<1>6. status' = "ready" => done' = {}
  BY DEF Serial
<1> QED BY <1>3, <1>4, <1>5, <1>6 DEF Serial, Quiet, Nothing

LEMMA SerialStep == Typed /\ OutcomeInv /\ Serial /\ Next => Serial'
<1> SUFFICES ASSUME Typed, OutcomeInv, Serial, ~Repeatable', NEW w \in Workers,
                    Take(w) \/ Lose(w) \/ Run(w) \/ Fail(w)
             PROVE  Serial'
  BY DEF Next, Serial
<1>1. UNCHANGED <<task, policy>>
  BY DEF Take, Lose, Run, Fail, Receive, Handle, Do, LeaveScope, LeaveReply, Exit, SettleUnhandled
<1>2. faults \in Nat /\ losses \in Nat
  BY BoundAssumption DEF Typed
<1>3. CASE Take(w)
  <2>1. PICK b \in Attempts : /\ Set(w, b) /\ work[w].at = "idle" /\ status = "ready"
                              /\ status' = "unacked" /\ Nothing(b) /\ b.at = "receive"
                              /\ b.raising = "none" /\ done' = done
    BY <1>3, TakeMoves DEF Take
  <2>2. ~Repeatable
    BY <1>1, <1>3, RepeatableStays DEF Take
  <2>3. done = {} /\ \A v \in Workers : Quiet(work[v])
    BY <2>1, <2>2 DEF Serial
  <2>4. \A v \in Workers : work'[v] = IF v = w THEN b ELSE work[v]
    BY <2>1 DEF Typed, Set
  <2>5. \A v \in Workers : v # w => Quiet(work'[v])
    BY <2>3, <2>4
  <2>6. /\ \A u, v \in Workers : u # v => Quiet(work'[u]) \/ Quiet(work'[v])
        /\ \A v \in Workers : ~Quiet(work'[v]) => done' = work'[v].did /\ status' # "ready"
        /\ \A v \in Workers : Nothing(work'[v])
    BY <2>1, <2>3, <2>4, <2>5 DEF Nothing, Quiet
  <2> QED BY <2>1, <2>6 DEF Serial, Quiet, Nothing
<1>4. ASSUME Lose(w) PROVE FALSE
  BY <1>4, LoseMoves DEF Repeatable
<1>5. CASE Receive(w)
  <2>1. PICK b \in Attempts : /\ Set(w, b) /\ Settlement(work[w], b) /\ work[w].at = "receive"
                              /\ Nothing(b) /\ b.raising \in {"none", "unmatched"}
                              /\ b.committed \in {work[w].committed, "acked"} /\ done' = done
    BY <1>5, ReceiveMoves DEF Receive
  <2>2. ~Repeatable
    BY <1>1, <1>5, RepeatableStays DEF Receive
  <2>3. Nothing(work[w]) /\ work[w].committed # "requeued"
    BY <2>1 DEF OutcomeInv, Sound, Fresh, Early
  <2>4. ~Quiet(work[w]) /\ done = {} /\ status # "ready"
    BY <2>1, <2>2, <2>3 DEF Serial, Quiet, Nothing
  <2>5. done' = b.did /\ status' # "ready"
    BY <2>1, <2>3, <2>4 DEF Settlement, Nothing
  <2> QED BY <1>1, <2>1, <2>2, <2>4, <2>5, SpeakerMoves
<1>6. CASE Handle(w)
  <2>1. PICK b \in Attempts, ends \in Endings :
           /\ Set(w, b) /\ Settlement(work[w], b) /\ work[w].at = "handler" /\ b.at = "scope"
           /\ b.did = {} /\ b.plan = Plan(ends, b.committed)
           /\ b.raising = IF ends = "return" THEN "none" ELSE ends
           /\ done' = done
    BY <1>6, HandleMoves DEF Handle
  <2>2. ~Repeatable
    BY <1>1, <1>6, RepeatableStays DEF Handle
  <2>3. Nothing(work[w]) /\ work[w].committed # "requeued"
    BY <2>1 DEF OutcomeInv, Sound, Fresh, Early
  <2>4. ~Quiet(work[w]) /\ done = {} /\ status # "ready"
    BY <2>1, <2>2, <2>3 DEF Serial, Quiet, Nothing
  <2>5. b.committed = "requeued" => Quiet(b)
    BY <2>1, PlanIs DEF Quiet, Nothing, Settling
  <2>6. Quiet(b) \/ status' # "ready"
    BY <2>1, <2>4, <2>5 DEF Settlement
  <2>7. b.raising = "error" /\ b.committed = "none" /\ policy = "NACK_ON_ERROR" => Nothing(b)
    <3>1. ASSUME policy = "NACK_ON_ERROR" PROVE Plan("error", "none") = <<>>
      BY <3>1 DEF Plan, Reports
    <3> QED BY <2>1, <3>1 DEF Nothing
  <2> QED BY <1>1, <2>1, <2>2, <2>4, <2>6, <2>7, SpeakerMoves
<1>7. CASE Do(w)
  <2>1. PICK b \in Attempts, e \in Effects :
           /\ Set(w, b) /\ done' = done \cup {e} /\ work[w].plan # <<>>
           /\ work[w].at \in {"scope", "reply"} /\ b.at = work[w].at
           /\ b.raising = work[w].raising /\ b.committed = work[w].committed
           /\ b.did = work[w].did \cup {e} /\ status' = status
    BY <1>7, DoMoves DEF Do
  <2>2. ~Repeatable
    BY <1>1, <1>7, RepeatableStays DEF Do
  <2>3. ~Quiet(work[w]) /\ ~Nothing(work[w])
    BY <2>1 DEF Quiet, Nothing
  <2>4. done = work[w].did /\ status # "ready"
    BY <2>2, <2>3 DEF Serial
  <2>5. ~(policy = "NACK_ON_ERROR" /\ b.raising = "error" /\ b.committed = "none")
    BY <2>1, <2>2, <2>3 DEF Serial
  <2> QED BY <1>1, <2>1, <2>2, <2>3, <2>4, <2>5, SpeakerMoves
<1>8. CASE Fail(w)
  <2>1. PICK b \in Attempts, e \in Effects :
           /\ Set(w, b) /\ work[w].plan # <<>> /\ b.raising = "error"
           /\ b.committed = work[w].committed /\ status' = status
           /\ \/ b.did = work[w].did /\ done' = done
              \/ b.did = work[w].did \cup {e} /\ done' = done \cup {e}
           /\ faults' > 0 \/ task.unsupported # {}
    BY <1>8, FailMoves DEF Fail
  <2>2. faults > 0 => faults' > 0
    BY <1>2, <1>8 DEF Fail
  <2>3. ~Repeatable
    BY <1>1, <1>8, <2>2, RepeatableStays DEF Fail
  <2>4. policy # "NACK_ON_ERROR"
    BY <1>1, <2>1 DEF Repeatable
  <2>5. ~Quiet(work[w])
    BY <2>1 DEF Quiet, Nothing
  <2>6. done = work[w].did /\ status # "ready"
    BY <2>3, <2>5 DEF Serial
  <2> QED BY <1>1, <2>1, <2>3, <2>4, <2>5, <2>6, SpeakerMoves
<1>9. CASE LeaveScope(w) \/ LeaveReply(w)
  <2>1. PICK b \in Attempts :
           /\ Set(w, b) /\ work[w].at \in {"scope", "reply"} /\ work[w].plan = <<>>
           /\ b.raising = work[w].raising /\ b.committed = work[w].committed
           /\ b.did = work[w].did
           /\ b.plan = <<>> \/ (b.raising = "none" /\ b.committed # "requeued")
           /\ done' = done /\ status' = status
    BY <1>9, LeaveMoves DEF LeaveScope, LeaveReply
  <2>2. ~Repeatable
    BY <1>1, <1>9, RepeatableStays DEF LeaveScope, LeaveReply
  <2>3. CASE Quiet(work[w])
    <3>1. Quiet(b)
      BY <2>1, <2>3 DEF Quiet, Nothing
    <3> QED BY <1>1, <2>1, <2>2, <3>1, QuietMoves
  <2>4. CASE ~Quiet(work[w])
    <3>1. done = work[w].did /\ status # "ready"
      BY <2>2, <2>4 DEF Serial
    <3>2. policy = "NACK_ON_ERROR" /\ b.raising = "error" /\ b.committed = "none" => Nothing(b)
      BY <2>1, <2>2 DEF Serial, Nothing
    <3> QED BY <1>1, <2>1, <2>2, <2>4, <3>1, <3>2, SpeakerMoves
  <2> QED BY <2>3, <2>4
<1>10. CASE Exit(w)
  <2>1. PICK b \in Attempts :
           /\ Set(w, b) /\ Settlement(work[w], b) /\ work[w].at = "exit"
           /\ b.raising = work[w].raising /\ b.plan = work[w].plan /\ b.did = work[w].did
           /\ b.committed = "requeued" /\ work[w].committed # "requeued" =>
                 b.raising = "nack" \/ (b.raising = "error" /\ policy = "NACK_ON_ERROR")
           /\ done' = done
    BY <1>10, ExitMoves DEF Exit
  <2>2. ~Repeatable
    BY <1>1, <1>10, RepeatableStays DEF Exit
  <2>3. CASE Quiet(work[w])
    <3>1. work[w].committed = "requeued" /\ b.committed = "requeued" /\ status' = status
      BY <2>1, <2>3 DEF Quiet, Settlement
    <3>2. Quiet(b)
      BY <2>1, <2>3, <3>1 DEF Quiet, Nothing
    <3> QED BY <1>1, <2>1, <2>2, <3>1, <3>2, QuietMoves
  <2>4. CASE ~Quiet(work[w])
    <3>1. done = work[w].did /\ status # "ready"
      BY <2>2, <2>4 DEF Serial
    <3>2. CASE b.committed = work[w].committed /\ status' = status
      <4>1. policy = "NACK_ON_ERROR" /\ b.raising = "error" /\ b.committed = "none" => Nothing(b)
        BY <2>1, <2>2, <3>2 DEF Serial, Nothing
      <4> QED BY <1>1, <2>1, <2>2, <2>4, <3>1, <3>2, <4>1, SpeakerMoves
    <3>3. CASE /\ work[w].committed = "none" /\ b.committed \in {"acked", "requeued", "rejected"}
               /\ status' = IF b.committed = "requeued" THEN "ready" ELSE b.committed
      <4>1. b.committed = "requeued" => Nothing(work[w])
        <5>1. work[w].raising = "nack" => Nothing(work[w])
          BY DEF OutcomeInv, Sound, Instructed, Instructions
        <5>2. work[w].raising = "error" /\ policy = "NACK_ON_ERROR" => Nothing(work[w])
          BY <2>2, <3>3 DEF Serial
        <5> QED BY <2>1, <3>3, <5>1, <5>2
      <4>2. b.committed = "requeued" => Quiet(b) /\ b.did = {}
        BY <2>1, <4>1 DEF Quiet, Nothing
      <4>3. b.committed # "none" /\ (status' = "ready" <=> b.committed = "requeued")
        BY <3>3
      <4> QED BY <1>1, <2>1, <2>2, <2>4, <3>1, <4>2, <4>3, SpeakerMoves
    <3> QED BY <2>1, <3>2, <3>3 DEF Settlement
  <2> QED BY <2>3, <2>4
<1>11. CASE SettleUnhandled(w)
  <2>1. PICK b \in Attempts :
           /\ Set(w, b) /\ b.at \in {"idle", "held"} /\ Nothing(b)
           /\ status' = status \/ status' = "rejected"
           /\ done' = done
    BY <1>11, LastMoves DEF SettleUnhandled
  <2>2. ~Repeatable
    BY <1>1, <1>11, RepeatableStays DEF SettleUnhandled
  <2>3. Quiet(b) /\ (status' # "ready" \/ status = "ready")
    BY <2>1 DEF Quiet
  <2> QED BY <1>1, <2>1, <2>2, <2>3, QuietMoves
<1> QED BY <1>3, <1>4, <1>5, <1>6, <1>7, <1>8, <1>9, <1>10, <1>11 DEF Run

\* What an attempt may report in a step while nothing is to be repeated.
LEMMA NewEffects ==
    ASSUME Typed, OutcomeInv, Serial, Next, ~Repeatable, NEW v \in Workers
    PROVE  (work'[v].did \ work[v].did) \cap done = {}
<1> PICK w \in Workers : Take(w) \/ Lose(w) \/ Run(w) \/ Fail(w)
  BY DEF Next
<1>1. ASSUME NEW b, Set(w, b), \/ b.did \subseteq work[w].did
                               \/ work[w].plan # <<>> /\ \E e : b.did = work[w].did \cup {e}
      PROVE  (work'[v].did \ work[v].did) \cap done = {}
  <2>1. work'[v] = IF v = w THEN b ELSE work[v]
    BY <1>1 DEF Typed, Set
  <2>2. CASE v # w \/ b.did \subseteq work[w].did
    BY <2>1, <2>2
  <2>3. CASE v = w /\ work[w].plan # <<>> /\ \E e : b.did = work[w].did \cup {e}
    <3>1. ~Quiet(work[w])
      BY <2>3 DEF Quiet, Nothing
    <3>2. done = work[w].did
      BY <3>1 DEF Serial
    <3> QED BY <2>1, <2>3, <3>2
  <2> QED BY <1>1, <2>2, <2>3
<1>2. CASE Take(w) \/ Lose(w)
  BY <1>1, <1>2, TakeMoves, LoseMoves DEF Nothing
<1>3. CASE Receive(w) \/ Handle(w)
  BY <1>1, <1>3, ReceiveMoves, HandleMoves DEF Nothing
<1>4. CASE Do(w)
  BY <1>1, <1>4, DoMoves
<1>5. CASE Fail(w)
  BY <1>1, <1>5, FailMoves
<1>6. CASE LeaveScope(w) \/ LeaveReply(w)
  BY <1>1, <1>6, LeaveMoves
<1>7. CASE Exit(w)
  BY <1>1, <1>7, ExitMoves
<1>8. CASE SettleUnhandled(w)
  BY <1>1, <1>8, LastMoves DEF Nothing
<1> QED BY <1>2, <1>3, <1>4, <1>5, <1>6, <1>7, <1>8 DEF Run

FullInv == OutcomeInv /\ Typed /\ Owners /\ Verdicts /\ Serial

LEMMA FullInit == Init => FullInv
<1> SUFFICES ASSUME Init PROVE FullInv
  OBVIOUS
<1>1. \A w \in Workers : work[w] = Idle
  BY DEF Init
<1>2. Idle.at = "idle" /\ Nothing(Idle) /\ Idle.raising = "none" /\ ~Idle.owns
  BY DEF Idle, Nothing
<1>3. Typed
  <2>1. work \in [Workers -> Attempts]
    BY IdleTyped DEF Init
  <2> QED BY <2>1, BoundAssumption DEF Init, Typed
<1>4. Owners
  BY <1>1, <1>2 DEF Init, Owners
<1>5. Verdicts
  BY <1>1, <1>2, NothingIsMild DEF Verdicts
<1>6. Serial
  BY <1>1, <1>2 DEF Init, Serial, Quiet
<1> QED BY <1>3, <1>4, <1>5, <1>6, OutcomeInit DEF FullInv

LEMMA FullStep == FullInv /\ [Next]_vars => FullInv'
<1> SUFFICES ASSUME FullInv, [Next]_vars PROVE FullInv'
  OBVIOUS
<1>1. OutcomeInv'
  BY OutcomeStep DEF FullInv
<1>2. CASE Next
  BY <1>1, <1>2, TypedStep, OwnersStep, VerdictsStep, SerialStep DEF FullInv
<1>3. CASE UNCHANGED vars
  <2>1. Typed'
    BY <1>3 DEF FullInv, Typed, Attempts, Effects, vars
  <2>2. Owners' /\ Verdicts'
    BY <1>3 DEF FullInv, Owners, Verdicts, OneStory, Mild, vars
  <2>3. Serial'
    BY <1>3 DEF FullInv, Serial, Repeatable, Quiet, Nothing, vars
  <2> QED BY <1>1, <2>1, <2>2, <2>3 DEF FullInv
<1> QED BY <1>2, <1>3

-----------------------------------------------------------------------------
(* Theorems *)

\* An attempt that reported a failure never gives its message back, whichever policy,
\* handler or broken effect decides, however often the message is redelivered.
THEOREM FailuresAreFinal == Spec => []FailureIsFinal
<1>1. OutcomeInv => FailureIsFinal
  BY DEF OutcomeInv, Sound, GoesBack, Mild, FailureIsFinal
<1> QED BY OutcomeInit, OutcomeStep, <1>1, PTL DEF Spec

\* An attempt whose handler gave an instruction, by raising it or by settling the
\* message itself, reports nothing: no result, reply, chord part or continuation.
THEOREM InstructionsAreSilent == Spec => []NoOutcomeForInstruction
<1>1. OutcomeInv => NoOutcomeForInstruction
  BY DEF OutcomeInv, Sound, Instructed, Nothing, Settling, NoOutcomeForInstruction
<1> QED BY OutcomeInit, OutcomeStep, <1>1, PTL DEF Spec

\* A message the policy acknowledges for a handler that returned has everything done.
THEOREM AcknowledgedIsDone == Spec => []AckedMeansDone
<1>1. OutcomeInv => AckedMeansDone
  <2> SUFFICES ASSUME OutcomeInv, NEW w \in Workers,
                      work[w].at = "unhandled", work[w].committed = "acked", policy \in Strict,
                      work[w].fate.settles = "none", work[w].fate.ends = "return"
               PROVE  /\ Range(SuccessPlan) \subseteq work[w].did
                      /\ Replies([work[w] EXCEPT !.committed = "none"]) => <<"reply", 0>> \in work[w].did
    BY DEF AckedMeansDone, Strict
  <2>1. work[w].plan = <<>> /\ work[w].raising = "none" /\ Range(<<>>) = {}
    BY DEF OutcomeInv, Sound, Fresh, Late, Returned, Range
  <2>2. Replies([work[w] EXCEPT !.committed = "none"]) => Answers
    BY DEF Replies, Answers
  <2> QED BY <2>1, <2>2 DEF OutcomeInv, Sound, Returned
<1> QED BY OutcomeInit, OutcomeStep, <1>1, PTL DEF Spec

\* The state is what its declarations say: plans and reports name effects of this task
\* and of the links of its chain, whatever the chain; and the broker counts the message
\* as unacked exactly while one attempt, and only one, may still settle it.
THEOREM OutcomeTypes == Spec => []TypeOK
<1>1. FullInv => TypeOK
  BY DEF FullInv, Typed, Owners, TypeOK
<1> QED BY FullInit, FullStep, <1>1, PTL DEF Spec

\* No attempt reports a success, a continuation or a reply and a failure as well, for a
\* chain of any length: consume_scope leaves its try block before on_success.
THEOREM OneVerdictEach == Spec => []OneVerdict
<1>1. FullInv => OneVerdict
  <2> SUFFICES ASSUME FullInv, NEW w \in Workers, Failures(work[w].did) # {}
               PROVE  work[w].did \cap Praise = {}
    BY DEF OneVerdict, Praise
  <2> QED BY DEF FullInv, Verdicts, OneStory, Mild
<1> QED BY FullInit, FullStep, <1>1, PTL DEF Spec

\* While no connection is lost and nothing breaks under the policy that requeues, what
\* one attempt reported no other reports again, however often the message goes back.
THEOREM NothingIsRepeated == Spec => NothingRepeats
<1>1. FullInv /\ [Next]_vars =>
        [~Repeatable => \A w \in Workers : (work'[w].did \ work[w].did) \cap done = {}]_vars
  BY NewEffects DEF FullInv
<1> QED BY FullInit, FullStep, <1>1, PTL DEF Spec, NothingRepeats
=============================================================================
