--------------------- MODULE ConsumerBridgeOutcome_proofs ---------------------
(***************************************************************************)
(* ConsumerBridge: what becomes of a settlement and of a reader, for every *)
(* value of the constants.  Whoever awaits a settlement can still be       *)
(* answered, the answer is true of the broker, and the end of a consumer   *)
(* is left for its readers.  The argument rests on three facts: at most    *)
(* the latest session is open, a closed session never runs what it had     *)
(* queued, and the actions of a session run in the order of the attempts.  *)
(*                                                                         *)
(* ConsumerBridge implements TaskQueue: a task leaves the broker only by a *)
(* settlement asked for on the delivery that holds it.  The invariant is   *)
(* that one delivery of a task at most is still with a consumer or         *)
(* settled; each step of the bridge then moves the tasks of TaskQueue as   *)
(* one of its actions does, or not at all.                                 *)
(***************************************************************************)
EXTENDS ConsumerBridgeSettlement_proofs

-----------------------------------------------------------------------------
(* The inductive invariant *)

\* The thread serves a session; the session may still run an action.
Serving == Connected \ {"disconnect"}
Running == Serving \ {"lost", "finally"}

\* Only the session the thread serves is open, and a closed one is empty.
OneOpen ==
    /\ \A s \in Sessions : s < session => closed[s]
    /\ pc \notin Serving /\ session # 0 => closed[session]
    /\ \A d \in DeliveryIds : deliveries[d].session <= session
    /\ \A s \in Sessions : closed[s] => actions[s] = <<>>

\* An attempt in the queue of its session, and one that may still run.
Waits(a) == a \in Range(actions[SessionOf(a)])
Live(a) == a = inhand \/ Waits(a)

\* Actions run in the order in which they were asked for.
InOrder ==
    /\ \A s \in Sessions : \A i, j \in 1..Len(actions[s]) : i < j => actions[s][i] < actions[s][j]
    /\ inhand # 0 => \A a \in AttemptIds : Waits(a) /\ SessionOf(a) = session => inhand < a

\* An attempt that was, or will be, reported as done or as failed.
Succeeds(a) == attempts[a].future = "done" \/ Completion(a, TRUE) \in Range(callbacks)
Refused(a) == attempts[a].future = "failed" \/ Completion(a, FALSE) \in Range(callbacks)

\* Every pending attempt will be run by the thread or is about to be answered.
Answerable ==
    \A a \in AttemptIds : attempts[a].future = "pending" =>
        \/ inhand = a
        \/ SessionOf(a) = session /\ ~closed[session] /\ Waits(a)
        \/ Completion(a, TRUE) \in Range(callbacks)
        \/ Completion(a, FALSE) \in Range(callbacks)

\* What settled the delivery of a before a did.
Settled(a) == \E b \in AttemptIds : /\ b < a /\ attempts[b].op = WireOf(a)
                                    /\ attempts[b].delivery = attempts[a].delivery

\* Nothing later than a settles the delivery of a: its session is over, or it is
\* closed and only the action in hand, an earlier one, still runs on it.
Hopeless(a) ==
    \/ SessionOf(a) < session
    \/ pc \notin Running
    \/ /\ closed[SessionOf(a)]
       /\ inhand # 0 /\ attempts[inhand].delivery = attempts[a].delivery => inhand < a

DoneIsTrue == \A a \in AttemptIds : Succeeds(a) => WireOf(a) = attempts[a].op
SettledBefore ==
    \A a \in AttemptIds : Live(a) /\ WireOf(a) \in Outcomes => Settled(a)
SettledBySome ==
    \A d \in DeliveryIds : deliveries[d].wire \in Outcomes =>
        \E b \in AttemptIds : attempts[b].delivery = d /\ attempts[b].op = deliveries[d].wire
RefusedIsTrue ==
    \A a \in AttemptIds : Refused(a) =>
        /\ WireOf(a) \in Outcomes => Settled(a)
        /\ WireOf(a) = "unacked" => Hopeless(a)
Truth == DoneIsTrue /\ SettledBefore /\ SettledBySome /\ RefusedIsTrue

\* A consumer that ended left its exception in the queue of its generation.
PillLeft == (pc = "none" => queue = 1) /\ EndIsVisible

Story == OneOpen /\ InOrder /\ Answerable /\ Truth

-----------------------------------------------------------------------------
(* Ranges of the sequences the bridge works on *)

LEMMA RangeOfAppend ==
    ASSUME NEW S, NEW seq \in Seq(S), NEW e \in S
    PROVE  Range(Append(seq, e)) = Range(seq) \cup {e}
<1>1. /\ Append(seq, e) \in Seq(S) /\ Len(seq) \in Nat
      /\ Len(Append(seq, e)) = Len(seq) + 1
      /\ \A i \in 1..Len(seq) : Append(seq, e)[i] = seq[i]
      /\ Append(seq, e)[Len(seq) + 1] = e
  BY AppendProperties, LenProperties
<1>2. /\ Range(seq) = {seq[i] : i \in 1..Len(seq)}
      /\ Range(Append(seq, e)) = {Append(seq, e)[i] : i \in 1..(Len(seq) + 1)}
  BY <1>1, RangeEquality
<1> QED BY <1>1, <1>2

LEMMA RangeOfTail ==
    ASSUME NEW S, NEW seq \in Seq(S), seq # <<>>
    PROVE  Range(seq) = {Head(seq)} \cup Range(Tail(seq))
<1>1. /\ Tail(seq) \in Seq(S) /\ Len(seq) \in Nat \ {0}
      /\ Len(Tail(seq)) = Len(seq) - 1
      /\ \A i \in 1..Len(Tail(seq)) : Tail(seq)[i] = seq[i + 1]
      /\ Head(seq) = seq[1]
  BY HeadTailProperties, EmptySeq
<1>2. /\ Range(seq) = {seq[i] : i \in 1..Len(seq)}
      /\ Range(Tail(seq)) = {Tail(seq)[i] : i \in 1..(Len(seq) - 1)}
  BY <1>1, RangeEquality
<1>3. ASSUME NEW x \in Range(seq) PROVE x \in {Head(seq)} \cup Range(Tail(seq))
  <2>1. PICK i \in 1..Len(seq) : x = seq[i]
    BY <1>2, <1>3
  <2>2. CASE i = 1
    BY <1>1, <2>1, <2>2
  <2>3. CASE i # 1
    <3>1. i - 1 \in 1..(Len(seq) - 1) /\ (i - 1) + 1 = i
      BY <1>1, <2>1, <2>3
    <3>2. Tail(seq)[i - 1] = x
      BY <1>1, <2>1, <3>1
    <3> QED BY <1>2, <3>1, <3>2
  <2> QED BY <2>2, <2>3
<1>4. ASSUME NEW x \in {Head(seq)} \cup Range(Tail(seq)) PROVE x \in Range(seq)
  <2>1. CASE x = Head(seq)
    BY <1>1, <1>2, <2>1
  <2>2. CASE x \in Range(Tail(seq))
    <3>1. PICK i \in 1..(Len(seq) - 1) : x = Tail(seq)[i]
      BY <1>2, <2>2
    <3>2. i + 1 \in 1..Len(seq) /\ x = seq[i + 1]
      BY <1>1, <3>1
    <3> QED BY <1>2, <3>2
  <2> QED BY <1>4, <2>1, <2>2
<1> QED BY <1>3, <1>4

LEMMA IncreasingAppend ==
    ASSUME NEW seq \in Seq(Nat), NEW n \in Nat,
           \A i, j \in 1..Len(seq) : i < j => seq[i] < seq[j],
           \A i \in 1..Len(seq) : seq[i] < n
    PROVE  \A i, j \in 1..Len(Append(seq, n)) : i < j => Append(seq, n)[i] < Append(seq, n)[j]
<1> DEFINE longer == Append(seq, n)
<1>1. /\ Len(seq) \in Nat /\ Len(longer) = Len(seq) + 1
      /\ \A i \in 1..Len(seq) : longer[i] = seq[i]
      /\ longer[Len(seq) + 1] = n
  BY AppendProperties, LenProperties
<1> HIDE DEF longer
<1>2. ASSUME NEW i \in 1..Len(longer), NEW j \in 1..Len(longer), i < j
      PROVE  longer[i] < longer[j]
  <2>1. i \in 1..Len(seq) /\ (j \in 1..Len(seq) \/ j = Len(seq) + 1)
    BY <1>1, <1>2
  <2> QED BY <1>1, <1>2, <2>1
<1> QED BY <1>2 DEF longer

-----------------------------------------------------------------------------
(* What a step must leave alone for the story to go on *)

\* The attempts stay as they were asked for, and no delivery is settled.
SameAttempts ==
    /\ Len(attempts') = Len(attempts)
    /\ \A a \in AttemptIds : attempts'[a].op = attempts[a].op
NoneSettled ==
    /\ \A d \in DeliveryIds :
          \/ deliveries'[d].wire = deliveries[d].wire
          \/ deliveries[d].wire = "unacked" /\ deliveries'[d].wire = "dropped"
    /\ \A d \in DeliveryIds' : d \notin DeliveryIds =>
          deliveries'[d].wire = "unacked" /\ deliveries'[d].session <= session'

\* What the histories hold has its type.
LEMMA OfType ==
    ASSUME IInv
    PROVE  /\ \A a \in AttemptIds : /\ attempts[a] \in Attempt /\ attempts[a].op \in Outcomes
                                     /\ attempts[a].delivery \in DeliveryIds
           /\ \A d \in DeliveryIds : /\ deliveries[d] \in Delivery
                                      /\ deliveries[d].session \in Sessions
           /\ \A a \in AttemptIds : SessionOf(a) \in Sessions
           /\ AttemptIds \subseteq Nat \ {0} /\ session \in Nat /\ Sessions \subseteq Nat
<1>1. Histories /\ session \in Nat /\ Len(attempts) \in Nat
  BY Pieces DEF Numbers
<1>2. \A a \in AttemptIds : attempts[a] \in Attempt /\ attempts[a].delivery \in DeliveryIds
  BY <1>1, ElementOfSeq DEF Histories, AttemptIds, IInv, Linked, Pointers
<1>3. \A d \in DeliveryIds : deliveries[d] \in Delivery
  BY <1>1, ElementOfSeq DEF Histories, DeliveryIds
<1>4. \A a \in AttemptIds : attempts[a].op \in Outcomes
  BY <1>2 DEF Attempt
<1>5. \A d \in DeliveryIds : deliveries[d].session \in Sessions
  BY <1>3 DEF Delivery
<1> QED BY <1>1, <1>2, <1>3, <1>4, <1>5 DEF SessionOf, AttemptIds, Sessions

\* What the histories say of an attempt, before and after such a step.
LEMMA SameStory ==
    ASSUME IInv, KeepsHistory, SameAttempts, NEW a \in AttemptIds
    PROVE  /\ a \in AttemptIds' /\ SessionOf(a)' = SessionOf(a)
           /\ attempts'[a].op = attempts[a].op
           /\ attempts'[a].delivery = attempts[a].delivery
           /\ attempts[a].delivery \in DeliveryIds
           /\ SessionOf(a) \in Sessions /\ AttemptIds' = AttemptIds
           /\ WireOf(a)' = deliveries'[attempts[a].delivery].wire
<1>1. attempts[a].delivery \in DeliveryIds
  BY DEF IInv, Linked, Pointers
<1>2. deliveries[attempts[a].delivery] \in Delivery
  BY <1>1, Pieces, ElementOfSeq DEF Histories, DeliveryIds
<1> QED BY <1>1, <1>2 DEF KeepsHistory, SameAttempts, AttemptIds, SessionOf, WireOf, Delivery

LEMMA TruthKept ==
    ASSUME IInv, Truth, KeepsHistory, SameAttempts, NoneSettled,
           \A a \in AttemptIds :
               /\ Live(a)' => Live(a)
               /\ Succeeds(a)' => Succeeds(a)
               /\ Hopeless(a) => Hopeless(a)'
               /\ Refused(a)' => \/ Refused(a)
                                 \/ /\ WireOf(a) \in Outcomes => Settled(a)
                                    /\ WireOf(a) = "unacked" => Hopeless(a)'
    PROVE  Truth'
<1>1. AttemptIds' = AttemptIds
  BY DEF SameAttempts, AttemptIds
<1>2. ASSUME NEW a \in AttemptIds
      PROVE  /\ WireOf(a)' \in Outcomes => WireOf(a)' = WireOf(a)
             /\ WireOf(a)' = "unacked" => WireOf(a) = "unacked"
             /\ WireOf(a) \in Outcomes => WireOf(a)' = WireOf(a)
  BY SameStory DEF NoneSettled, WireOf, Outcomes
<1>3. ASSUME NEW a \in AttemptIds, Settled(a), WireOf(a)' = WireOf(a) PROVE Settled(a)'
  BY <1>1, <1>3, SameStory DEF Settled
<1>4. DoneIsTrue'
  <2>1. ASSUME NEW a \in AttemptIds, Succeeds(a)' PROVE WireOf(a)' = attempts'[a].op
    <3>1. WireOf(a) = attempts[a].op
      BY <2>1 DEF Truth, DoneIsTrue
    <3> QED BY <1>2, <3>1, SameStory, OfType
  <2> QED BY <1>1, <2>1 DEF DoneIsTrue
<1>5. SettledBefore'
  <2>1. ASSUME NEW a \in AttemptIds, Live(a)', WireOf(a)' \in Outcomes PROVE Settled(a)'
    BY <1>2, <1>3, <2>1 DEF Truth, SettledBefore
  <2> QED BY <1>1, <2>1 DEF SettledBefore
<1>6. SettledBySome'
  <2>1. ASSUME NEW d \in DeliveryIds', deliveries'[d].wire \in Outcomes
        PROVE  \E b \in AttemptIds : /\ attempts'[b].delivery = d
                                     /\ attempts'[b].op = deliveries'[d].wire
    <3>1. d \in DeliveryIds /\ deliveries'[d].wire = deliveries[d].wire
      BY <2>1 DEF NoneSettled, Outcomes
    <3>2. PICK b \in AttemptIds : attempts[b].delivery = d /\ attempts[b].op = deliveries[d].wire
      BY <2>1, <3>1 DEF Truth, SettledBySome
    <3> QED BY <3>1, <3>2, SameStory
  <2> QED BY <1>1, <2>1 DEF SettledBySome
<1>7. RefusedIsTrue'
  <2>1. ASSUME NEW a \in AttemptIds, Refused(a)'
        PROVE  /\ WireOf(a)' \in Outcomes => Settled(a)'
               /\ WireOf(a)' = "unacked" => Hopeless(a)'
    <3>1. /\ WireOf(a) \in Outcomes => Settled(a)
          /\ WireOf(a) = "unacked" => Hopeless(a)'
      BY <2>1 DEF Truth, RefusedIsTrue
    <3> QED BY <1>2, <1>3, <3>1
  <2> QED BY <1>1, <2>1 DEF RefusedIsTrue
<1> QED BY <1>4, <1>5, <1>6, <1>7 DEF Truth

\* A session that is over, or closed behind the action in hand, stays so.
LEMMA HopelessKept ==
    ASSUME IInv, OneOpen, KeepsHistory, SameAttempts,
           \A s \in Sessions : closed[s] => closed'[s],
           \/ /\ session' = session /\ (pc' \in Running => pc \in Running)
              /\ inhand' \in {inhand, 0} \/ ~closed[session]
           \/ session' = session + 1,
           NEW a \in AttemptIds, Hopeless(a)
    PROVE  Hopeless(a)'
<1>1. /\ SessionOf(a)' = SessionOf(a) /\ SessionOf(a) \in Sessions /\ SessionOf(a) <= session
      /\ attempts'[a].delivery = attempts[a].delivery
  BY SameStory DEF OneOpen, SessionOf
<1>2. /\ SessionOf(a) \in Nat /\ session \in Nat
  BY <1>1, Pieces DEF Sessions, Numbers
<1>3. CASE session' = session + 1
  BY <1>1, <1>2, <1>3 DEF Hopeless
<1>4. CASE session' = session /\ SessionOf(a) < session
  BY <1>1, <1>4 DEF Hopeless
<1>5. CASE session' = session /\ (pc' \in Running => pc \in Running) /\ pc \notin Running
  BY <1>5 DEF Hopeless
<1>6. CASE /\ session' = session /\ ~(SessionOf(a) < session)
           /\ inhand' \in {inhand, 0} \/ ~closed[session]
           /\ closed[SessionOf(a)]
           /\ inhand # 0 /\ attempts[inhand].delivery = attempts[a].delivery => inhand < a
  <2>1. SessionOf(a) = session /\ closed'[SessionOf(a)]
    BY <1>1, <1>2, <1>6
  <2>2. inhand' = inhand \/ inhand' = 0
    BY <1>6, <2>1
  <2>3. inhand # 0 => attempts'[inhand].delivery = attempts[inhand].delivery
    BY DEF IInv, Linked, InHand, AttemptsOf, KeepsHistory
  <2> QED BY <1>1, <1>6, <2>1, <2>2, <2>3 DEF Hopeless
<1> QED BY <1>3, <1>4, <1>5, <1>6 DEF Hopeless

-----------------------------------------------------------------------------
(* Steps that neither ask, run nor answer a settlement *)

SameAnswers ==
    \A a \in AttemptIds :
        /\ Completion(a, TRUE) \in Range(callbacks') <=> Completion(a, TRUE) \in Range(callbacks)
        /\ Completion(a, FALSE) \in Range(callbacks') <=> Completion(a, FALSE) \in Range(callbacks)

LEMMA QuietStep ==
    ASSUME IInv, Story, KeepsHistory, NoneSettled, SameAnswers,
           UNCHANGED <<attempts, actions, inhand, session, closed>>,
           pc' \in Serving <=> pc \in Serving, pc' \in Running => pc \in Running
    PROVE  Story'
<1> USE DEF Story
<1>1. SameAttempts /\ AttemptIds' = AttemptIds
  BY DEF SameAttempts, AttemptIds
<1>2. \A a \in AttemptIds : SessionOf(a)' = SessionOf(a) /\ (Waits(a)' <=> Waits(a))
  BY <1>1, SameStory DEF Waits
<1>3. OneOpen'
  <2>1. ASSUME NEW d \in DeliveryIds' PROVE deliveries'[d].session <= session
    BY DEF OneOpen, KeepsHistory, NoneSettled
  <2> QED BY <2>1 DEF OneOpen
<1>4. InOrder'
  BY <1>1, <1>2 DEF InOrder
<1>5. Answerable'
  BY <1>1, <1>2 DEF Answerable, SameAnswers
<1>6. Truth'
  <2>1. ASSUME NEW a \in AttemptIds PROVE Hopeless(a) => Hopeless(a)'
    BY <1>1, HopelessKept
  <2>2. ASSUME NEW a \in AttemptIds
        PROVE  /\ Live(a)' => Live(a)
               /\ Succeeds(a)' => Succeeds(a)
               /\ Refused(a)' => Refused(a)
    BY <1>2 DEF Live, Succeeds, Refused, SameAnswers
  <2> QED BY <1>1, <2>1, <2>2, TruthKept
<1> QED BY <1>3, <1>4, <1>5, <1>6

\* What the application holds of a delivery is not what the broker does.
LEMMA AppOnly ==
    ASSUME IInv, NEW item \in DeliveryIds \cup {Pill},
           NEW app \in {"buffered", "held", "discarded"},
           UNCHANGED <<attempts, session>>,
           deliveries' = IF item = Pill THEN deliveries
                         ELSE [deliveries EXCEPT ![item].app = app]
    PROVE  KeepsHistory /\ NoneSettled
<1>1. CASE item = Pill
  BY <1>1, SameHistory DEF NoneSettled, DeliveryIds
<1>2. CASE item # Pill
  <2> DEFINE e == [deliveries[item] EXCEPT !.app = app]
  <2>1. item \in DeliveryIds /\ deliveries[item] \in Delivery
    BY <1>2, OfType
  <2>2. /\ e \in Delivery /\ e.session = deliveries[item].session
        /\ e.wire = deliveries[item].wire
    BY <2>1 DEF Delivery
  <2>3. deliveries' = [deliveries EXCEPT ![item] = e]
    BY <1>2
  <2> HIDE DEF e
  <2>4. KeepsHistory
    BY <2>1, <2>2, <2>3, OneDelivery
  <2>5. /\ Len(deliveries') = Len(deliveries)
        /\ \A i \in DeliveryIds : deliveries'[i] = IF i = item THEN e ELSE deliveries[i]
    <3>1. deliveries \in Seq(Delivery) /\ item \in 1..Len(deliveries)
      BY <2>1, Pieces DEF Histories, DeliveryIds
    <3> QED BY <2>2, <2>3, <3>1, ExceptSeq DEF DeliveryIds
  <2> QED BY <2>2, <2>4, <2>5 DEF NoneSettled, DeliveryIds
<1> QED BY <1>1, <1>2

\* Unchanged callbacks, and one more that answers nobody.
LEMMA NoAnswer ==
    ASSUME IInv
    PROVE  /\ callbacks' = callbacks => SameAnswers
           /\ \A q \in Queues, i \in DeliveryIds \cup {Pill, Len(deliveries) + 1} :
                 callbacks' = Append(callbacks, [call |-> "put", queue |-> q, item |-> i])
                     => SameAnswers
<1>1. callbacks' = callbacks => SameAnswers
  BY DEF SameAnswers
<1>2. ASSUME NEW q \in Queues, NEW i \in DeliveryIds \cup {Pill, Len(deliveries) + 1},
             callbacks' = Append(callbacks, [call |-> "put", queue |-> q, item |-> i])
      PROVE  SameAnswers
  <2> DEFINE put == [call |-> "put", queue |-> q, item |-> i]
  <2>1. put \in Callback /\ callbacks \in Seq(Callback)
    BY Pieces, TypeParts DEF IInv, Tables, Callback, DeliveryIds, Pill
  <2>2. Range(callbacks') = Range(callbacks) \cup {put}
    BY <1>2, <2>1, RangeOfAppend
  <2>3. \A a \in AttemptIds : Completion(a, TRUE) # put /\ Completion(a, FALSE) # put
    BY DEF Completion
  <2> QED BY <2>2, <2>3 DEF SameAnswers
<1> QED BY <1>1, <1>2

\* The thread tests, opens, applies the window, waits, or fails.
LEMMA ThreadMovesTell ==
    ASSUME IInv, Story, ThreadFrame,
           \/ Top \/ Open \/ MarkConsuming \/ Loop \/ ActionsDone \/ ClearFlag \/ Qos
           \/ KeepPrefetch \/ DrainEnds \/ Recover \/ Wait \/ FactoryFails
           \/ \E recoverable \in BOOLEAN : ConsumeFails(recoverable)
    PROVE  Story'
<1> USE DEF Move, local, flags, shared, wire, life, widen, inbox, ThreadFrame, Top, Open,
        MarkConsuming, Loop, ActionsDone, ClearFlag, Qos, KeepPrefetch, DrainEnds, Recover, Wait,
        FactoryFails, ConsumeFails, Fault
<1>1. UNCHANGED <<attempts, deliveries, actions, inhand, session, closed, callbacks>>
  OBVIOUS
<1>2. KeepsHistory /\ NoneSettled /\ SameAnswers
  BY <1>1, SameHistory, NoAnswer DEF NoneSettled, DeliveryIds
<1>3. (pc' \in Serving <=> pc \in Serving) /\ (pc' \in Running => pc \in Running)
  BY DEF Serving, Running, Connected
<1> QED BY <1>1, <1>2, <1>3, QuietStep

\* The loop starts, joins, asks to stop, widens, or begins to wait.
LEMMA LoopMovesTell ==
    ASSUME IInv, Story, LoopFrame,
           \/ Start \/ StartResumes \/ Joined \/ Stop \/ RaiseFlag
           \/ \E count \in Prefetches : RaisePrefetch(count)
           \/ \E r \in Readers : Get(r)
    PROVE  Story'
<1> USE DEF flags, life, widen, inbox, LoopFrame, Start, StartResumes, Joined, Stop, RaiseFlag,
        RaisePrefetch, Get
<1>1. UNCHANGED <<attempts, deliveries, actions, inhand, session, closed, callbacks>>
  OBVIOUS
<1>2. KeepsHistory /\ NoneSettled /\ SameAnswers
  BY <1>1, SameHistory, NoAnswer DEF NoneSettled, DeliveryIds
<1>3. (pc' \in Serving <=> pc \in Serving) /\ (pc' \in Running => pc \in Running)
  BY DEF Serving, Running, Connected, IInv, Control
<1> QED BY <1>1, <1>2, <1>3, QuietStep

\* The connection ends: what was not settled on it goes back.
LEMMA ConnectionEndsTells ==
    ASSUME IInv, Story, EndConnection,
           \/ Disconnect /\ ThreadFrame
           \/ Drop
    PROVE  Story'
<1> USE DEF Disconnect, Drop, ThreadFrame, Fault, local, flags, shared, life, widen, inbox
<1>1. UNCHANGED <<attempts, actions, inhand, session, closed, callbacks>>
  OBVIOUS
<1>2. KeepsHistory /\ SameAnswers
  BY <1>1, EndsConnection, NoAnswer
<1>3. NoneSettled
  <2>1. \A d \in DeliveryIds : deliveries[d] \in Delivery
    BY OfType
  <2>2. \A d \in DeliveryIds :
            \/ deliveries'[d] = deliveries[d]
            \/ /\ deliveries[d].wire = "unacked"
               /\ deliveries'[d] = [deliveries[d] EXCEPT !.wire = "dropped"]
    BY DEF EndConnection, Unacked, DeliveryIds
  <2>3. DeliveryIds' = DeliveryIds
    BY Pieces DEF EndConnection, DeliveryIds
  <2> QED BY <2>1, <2>2, <2>3 DEF NoneSettled, Delivery
<1>4. (pc' \in Serving <=> pc \in Serving) /\ (pc' \in Running => pc \in Running)
  BY DEF Serving, Running, Connected
<1> QED BY <1>1, <1>2, <1>3, <1>4, QuietStep

\* A delivery is new, unsettled, and of the latest session.
LEMMA DrainTells == ASSUME IInv, Story, NEW m \in Messages, Drain(m), ThreadFrame PROVE Story'
<1> USE Pieces DEF Drain, ThreadFrame, local, flags, life, widen, inbox
<1>1. UNCHANGED <<attempts, actions, inhand, session, closed>>
  OBVIOUS
<1>2. session \in Sessions /\ queue \in Queues
  BY DEF Control, Connected, Numbers
<1>3. /\ Len(deliveries') = Len(deliveries) + 1
      /\ \A i \in 1..Len(deliveries) : deliveries'[i] = deliveries[i]
      /\ deliveries'[Len(deliveries) + 1] = Arrival(m)
  <2>1. Arrival(m) \in Delivery
    BY <1>2 DEF Arrival, Delivery
  <2> QED BY <2>1, AppendProperties DEF Histories
<1>4. KeepsHistory
  BY <1>1, <1>3 DEF KeepsHistory, DeliveryIds
<1>5. NoneSettled
  <2>1. ASSUME NEW d \in DeliveryIds', d \notin DeliveryIds PROVE d = Len(deliveries) + 1
    BY <1>3, <2>1 DEF DeliveryIds
  <2>2. Arrival(m).wire = "unacked" /\ Arrival(m).session <= session'
    BY <1>1, <1>2 DEF Arrival, Sessions
  <2> QED BY <1>3, <2>1, <2>2 DEF NoneSettled, DeliveryIds
<1>6. SameAnswers
  BY <1>2, NoAnswer
<1>7. (pc' \in Serving <=> pc \in Serving) /\ (pc' \in Running => pc \in Running)
  BY DEF Serving, Running, Connected
<1> QED BY <1>1, <1>4, <1>5, <1>6, <1>7, QuietStep

\* The thread leaves its exception for the readers.
LEMMA ExitTells == ASSUME IInv, Story, Exit, ThreadFrame PROVE Story'
<1> USE DEF Exit, ThreadFrame, local, shared, wire, life, widen, inbox
<1>1. UNCHANGED <<attempts, deliveries, actions, inhand, session, closed>>
  OBVIOUS
<1>2. KeepsHistory /\ NoneSettled
  BY <1>1, SameHistory DEF NoneSettled, DeliveryIds
<1>3. SameAnswers
  BY NoAnswer, Pieces DEF Numbers
<1>4. (pc' \in Serving <=> pc \in Serving) /\ (pc' \in Running => pc \in Running)
  BY DEF Serving, Running, Connected
<1> QED BY <1>1, <1>2, <1>3, <1>4, QuietStep

\* A reader takes a delivery, or puts the exception back.
LEMMA ReceiveTells == ASSUME IInv, Story, NEW r \in Readers, Receive(r), LoopFrame PROVE Story'
<1> USE DEF LoopFrame, flags, life, widen
<1>1. UNCHANGED <<pc, attempts, actions, inhand, session, closed, callbacks>>
  BY DEF Receive
<1>2. PICK item \in DeliveryIds \cup {Pill}, app \in {"held", "discarded"} :
          deliveries' = IF item = Pill THEN deliveries
                        ELSE [deliveries EXCEPT ![item].app = app]
  <2>1. reader[r] \in Queues /\ messages[reader[r]] # <<>>
    BY Pieces DEF Receive, Numbers
  <2>2. Head(messages[reader[r]]) \in DeliveryIds \cup {Pill}
    BY <2>1, HeadTailProperties DEF IInv, Linked, Buffered
  <2> QED BY <2>2 DEF Receive
<1>3. KeepsHistory /\ NoneSettled
  BY <1>1, <1>2, AppOnly
<1>4. SameAnswers
  BY <1>1, NoAnswer
<1> QED BY <1>1, <1>3, <1>4, QuietStep

-----------------------------------------------------------------------------
(* Steps of the thread that tell the story on *)

\* A new session opens once the one before it is closed.
LEMMA ConnectTells == ASSUME IInv, Story, Connect, ThreadFrame PROVE Story'
<1> USE DEF Story, Connect, ThreadFrame, local, flags, wire, life, widen, inbox
<1>1. /\ UNCHANGED <<attempts, deliveries, actions, inhand, closed, callbacks>>
      /\ session' = session + 1
  OBVIOUS
<1>2. KeepsHistory /\ NoneSettled /\ SameAttempts
  BY <1>1, SameHistory DEF NoneSettled, DeliveryIds, SameAttempts
<1>3. inhand = 0 /\ (session # 0 => closed[session]) /\ session \in Nat
  BY OfType DEF IInv, Control, OneOpen, Serving, Connected
<1>4. \A a \in AttemptIds : SessionOf(a)' = SessionOf(a) /\ (Waits(a)' <=> Waits(a))
  BY <1>1, <1>2, SameStory DEF Waits
<1>5. \A a \in AttemptIds : SessionOf(a) <= session /\ SessionOf(a) \in Nat
  BY OfType DEF OneOpen, SessionOf
<1>6. OneOpen'
  <2>1. ASSUME NEW s \in Sessions, s < session' PROVE closed[s]
    <3>1. s \in Nat
      BY DEF Sessions
    <3>2. s < session \/ (s = session /\ session # 0)
      BY <1>1, <1>3, <2>1, <3>1 DEF Sessions
    <3> QED BY <1>3, <3>2 DEF OneOpen
  <2>2. \A d \in DeliveryIds : deliveries[d].session \in Nat /\ deliveries[d].session <= session
    BY OfType DEF OneOpen
  <2>3. pc' \in Serving
    BY DEF Serving, Connected
  <2> QED BY <1>1, <1>3, <2>1, <2>2, <2>3 DEF OneOpen, DeliveryIds
<1>7. InOrder'
  BY <1>1, <1>3 DEF InOrder
<1>8. Answerable'
  <2>1. ASSUME NEW a \in AttemptIds, attempts[a].future = "pending"
        PROVE  \/ Completion(a, TRUE) \in Range(callbacks)
               \/ Completion(a, FALSE) \in Range(callbacks)
    <3>1. a # 0 /\ SessionOf(a) \in Sessions
      BY OfType
    <3>2. SessionOf(a) = session => session # 0
      BY <3>1 DEF Sessions
    <3> QED BY <1>3, <2>1, <3>1, <3>2 DEF Answerable
  <2> QED BY <1>1, <2>1 DEF Answerable, AttemptIds
<1>9. Truth'
  <2>1. ASSUME NEW a \in AttemptIds PROVE Hopeless(a) => Hopeless(a)'
    BY <1>1, <1>2, HopelessKept
  <2>2. ASSUME NEW a \in AttemptIds
        PROVE  /\ Live(a)' => Live(a)
               /\ Succeeds(a)' => Succeeds(a)
               /\ Refused(a)' => Refused(a)
    BY <1>1, <1>4 DEF Live, Succeeds, Refused
  <2> QED BY <1>2, <2>1, <2>2, TruthKept
<1> QED BY <1>6, <1>7, <1>8, <1>9

\* The action in hand was the oldest of the queue, which is not closed.
LEMMA PopActionTells == ASSUME IInv, Story, PopAction, ThreadFrame PROVE Story'
<1> USE DEF Story, PopAction, ThreadFrame, flags, wire, life, widen, inbox
<1>1. UNCHANGED <<attempts, deliveries, session, closed, callbacks>>
  OBVIOUS
<1>2. KeepsHistory /\ NoneSettled /\ SameAttempts /\ AttemptIds' = AttemptIds
  BY <1>1, SameHistory DEF NoneSettled, DeliveryIds, SameAttempts, AttemptIds
<1>3. session \in Sessions /\ inhand = 0
  BY Pieces DEF Control, Connected
<1> DEFINE old == actions[session]
<1>4. /\ old \in Seq(AttemptsOf(session)) /\ old # <<>>
      /\ ~closed[session]
  BY <1>3 DEF IInv, Linked, Queued, OneOpen
<1>5. /\ Range(old) = {Head(old)} \cup Range(Tail(old))
      /\ Tail(old) \in Seq(AttemptsOf(session)) /\ Len(Tail(old)) = Len(old) - 1
      /\ \A i \in 1..Len(Tail(old)) : Tail(old)[i] = old[i + 1]
      /\ Head(old) = old[1] /\ Len(old) \in Nat \ {0}
      /\ Head(old) \in AttemptsOf(session)
  BY <1>4, RangeOfTail, HeadTailProperties, EmptySeq
<1>6. \A s \in Sessions : actions'[s] = IF s = session THEN Tail(old) ELSE actions[s]
  BY Pieces
<1>7. \A a \in AttemptIds :
          /\ SessionOf(a)' = SessionOf(a) /\ SessionOf(a) \in Sessions
          /\ Waits(a)' => Waits(a)
          /\ Waits(a) => Waits(a)' \/ a = inhand'
  BY <1>1, <1>2, <1>5, <1>6, SameStory DEF Waits
<1>8. inhand' = Head(old) /\ inhand' \in AttemptIds /\ SessionOf(inhand') = session
  BY <1>5 DEF AttemptsOf
<1>9. OneOpen'
  <2>1. \A s \in Sessions : closed[s] => actions'[s] = <<>>
    BY <1>4, <1>6 DEF OneOpen
  <2>2. pc \in Serving /\ pc' \in Serving
    BY DEF Serving, Connected
  <2> QED BY <1>1, <2>1, <2>2 DEF OneOpen, DeliveryIds
<1>10. InOrder'
  <2>1. ASSUME NEW i \in 1..Len(Tail(old)), NEW j \in 1..Len(Tail(old)), i < j
        PROVE  Tail(old)[i] < Tail(old)[j]
    <3>1. i + 1 \in 1..Len(old) /\ j + 1 \in 1..Len(old) /\ i + 1 < j + 1
      BY <1>5, <2>1
    <3> QED BY <1>3, <1>5, <3>1 DEF InOrder
  <2>2. ASSUME NEW a \in AttemptIds, Waits(a)', SessionOf(a) = session
        PROVE  Head(old) < a
    <3>1. a \in Range(Tail(old))
      BY <1>3, <1>6, <1>7, <2>2 DEF Waits
    <3>2. PICK i \in 1..Len(Tail(old)) : a = Tail(old)[i]
      <4>1. Range(Tail(old)) = {Tail(old)[i] : i \in 1..Len(Tail(old))}
        BY <1>5, RangeEquality
      <4> QED BY <3>1, <4>1
    <3>3. 1 \in 1..Len(old) /\ i + 1 \in 1..Len(old) /\ 1 < i + 1
      BY <1>5, <3>2
    <3> QED BY <1>3, <1>5, <3>2, <3>3 DEF InOrder
  <2>3. \A s \in Sessions : \A i, j \in 1..Len(actions'[s]) :
            i < j => actions'[s][i] < actions'[s][j]
    BY <1>6, <2>1 DEF InOrder
  <2> QED BY <1>1, <1>2, <1>7, <1>8, <2>2, <2>3 DEF InOrder
<1>11. Answerable'
  BY <1>1, <1>2, <1>3, <1>7, OfType DEF Answerable
<1>12. Truth'
  <2>1. pc' \in Running => pc \in Running
    BY DEF Running, Serving, Connected
  <2>2. ASSUME NEW a \in AttemptIds PROVE Hopeless(a) => Hopeless(a)'
    BY <1>1, <1>2, <1>4, <2>1, HopelessKept
  <2>3. ASSUME NEW a \in AttemptIds
        PROVE  /\ Live(a)' => Live(a)
               /\ Succeeds(a)' => Succeeds(a)
               /\ Refused(a)' => Refused(a)
    <3>1. a = inhand' => Waits(a)
      BY <1>3, <1>5, <1>8 DEF Waits
    <3> QED BY <1>1, <1>7, <3>1 DEF Live, Succeeds, Refused
  <2> QED BY <1>2, <2>2, <2>3, TruthKept
<1> QED BY <1>9, <1>10, <1>11, <1>12

\* A completion says which attempt it completes, and how.
LEMMA CompletionsDiffer ==
    ASSUME NEW a, NEW b
    PROVE  /\ Completion(a, TRUE) = Completion(b, TRUE) <=> a = b
           /\ Completion(a, FALSE) = Completion(b, FALSE) <=> a = b
           /\ Completion(a, TRUE) # Completion(b, FALSE)
BY DEF Completion

\* The callbacks once the answer to the action in hand is among them.
LEMMA AnswerInHand ==
    ASSUME IInv, inhand # 0, NEW ok \in BOOLEAN,
           callbacks' = Append(callbacks, Completion(inhand, ok))
    PROVE  /\ inhand \in AttemptIds /\ SessionOf(inhand) = session
           /\ Range(callbacks') = Range(callbacks) \cup {Completion(inhand, ok)}
<1>1. inhand \in AttemptIds /\ SessionOf(inhand) = session
  BY DEF IInv, Linked, InHand, AttemptsOf
<1>2. callbacks \in Seq(CallbackIds) /\ Completion(inhand, ok) \in CallbackIds
  BY <1>1, Completes DEF IInv, Linked, Scheduled
<1> QED BY <1>1, <1>2, RangeOfAppend

\* An action that raises found its delivery settled, or ends the session.
LEMMA ActionRaisesTells == ASSUME IInv, Story, ActionRaises, ThreadFrame PROVE Story'
<1> USE DEF Story, ActionRaises, ThreadFrame, flags, shared, life, widen, inbox
<1>1. UNCHANGED <<attempts, deliveries, actions, session, closed>> /\ inhand' = 0
  OBVIOUS
<1>2. KeepsHistory /\ NoneSettled /\ SameAttempts /\ AttemptIds' = AttemptIds
  BY <1>1, SameHistory DEF NoneSettled, DeliveryIds, SameAttempts, AttemptIds
<1>3. /\ inhand # 0 /\ inhand \in AttemptIds
      /\ Range(callbacks') = Range(callbacks) \cup {Completion(inhand, FALSE)}
  BY AnswerInHand, Pieces DEF Control
<1>4. \A a \in AttemptIds : SessionOf(a)' = SessionOf(a) /\ (Waits(a)' <=> Waits(a))
  BY <1>1, <1>2, SameStory DEF Waits
<1>5. pc \in Running /\ pc \in Serving /\ pc' \in Serving
  BY DEF Running, Serving, Connected
<1>6. OneOpen'
  BY <1>1, <1>5 DEF OneOpen, DeliveryIds
<1>7. InOrder'
  BY <1>1 DEF InOrder
<1>8. Answerable'
  BY <1>1, <1>2, <1>3, <1>4 DEF Answerable
<1>9. Truth'
  <2>1. ASSUME NEW a \in AttemptIds PROVE Hopeless(a) => Hopeless(a)'
    BY <1>1, <1>2, <1>5, HopelessKept
  <2>2. WireOf(inhand) \in Outcomes => Settled(inhand)
    BY <1>3 DEF Truth, SettledBefore, Live
  <2>3. WireOf(inhand) = "unacked" => pc' \notin Running
    <3>1. WireOf(inhand) = "unacked" => pc' \in {"lost", "finally"}
      BY DEF WireOf, Outcomes
    <3> QED BY <3>1 DEF Running
  <2>4. ASSUME NEW a \in AttemptIds
        PROVE  /\ Live(a)' => Live(a)
               /\ Succeeds(a)' => Succeeds(a)
               /\ Refused(a)' => Refused(a) \/ a = inhand
    <3>1. a # 0
      BY OfType
    <3> QED BY <1>1, <1>3, <1>4, <3>1, CompletionsDiffer DEF Live, Succeeds, Refused
  <2>5. ASSUME NEW a \in AttemptIds, Refused(a)'
        PROVE  \/ Refused(a)
               \/ /\ WireOf(a) \in Outcomes => Settled(a)
                  /\ WireOf(a) = "unacked" => Hopeless(a)'
    <3>1. CASE Refused(a)
      BY <3>1
    <3>2. CASE a = inhand
      BY <2>2, <2>3, <3>2 DEF Hopeless
    <3> QED BY <2>4, <2>5, <3>1, <3>2
  <2> QED BY <1>2, <2>1, <2>4, <2>5, TruthKept
<1> QED BY <1>6, <1>7, <1>8, <1>9

\* An action that runs is the first to settle its delivery, and all that is still
\* queued on the same delivery came later.
LEMMA ExecuteActionTells == ASSUME IInv, Story, ExecuteAction, ThreadFrame PROVE Story'
<1> USE DEF Story, ExecuteAction, ThreadFrame, flags, shared, life, widen, inbox
<1> DEFINE d == attempts[inhand].delivery
           op == attempts[inhand].op
<1>1. UNCHANGED <<attempts, actions, session, closed>> /\ inhand' = 0
  OBVIOUS
<1>2. /\ inhand # 0 /\ inhand \in AttemptIds /\ SessionOf(inhand) = session
      /\ Range(callbacks') = Range(callbacks) \cup {Completion(inhand, TRUE)}
  BY AnswerInHand, Pieces DEF Control
<1>3. d \in DeliveryIds /\ deliveries[d] \in Delivery /\ op \in Outcomes
      /\ deliveries[d].wire = "unacked" /\ op # "unacked"
  BY <1>2, OfType DEF Outcomes
<1>4. /\ Len(deliveries') = Len(deliveries)
      /\ \A i \in DeliveryIds :
            /\ deliveries'[i].session = deliveries[i].session
            /\ deliveries'[i].wire = IF i = d THEN op ELSE deliveries[i].wire
  <2> DEFINE e == [deliveries[d] EXCEPT !.wire = op]
  <2>1. e \in Delivery /\ e.session = deliveries[d].session /\ e.wire = op
    BY <1>3 DEF Delivery
  <2>2. deliveries' = [deliveries EXCEPT ![d] = e]
    OBVIOUS
  <2> HIDE DEF e
  <2>3. deliveries \in Seq(Delivery) /\ d \in 1..Len(deliveries)
    BY <1>3, Pieces DEF Histories, DeliveryIds
  <2>4. /\ Len(deliveries') = Len(deliveries)
        /\ \A i \in DeliveryIds : deliveries'[i] = IF i = d THEN e ELSE deliveries[i]
    BY <2>1, <2>2, <2>3, ExceptSeq DEF DeliveryIds
  <2> QED BY <2>1, <2>4
<1>5. KeepsHistory /\ SameAttempts /\ AttemptIds' = AttemptIds /\ DeliveryIds' = DeliveryIds
  BY <1>1, <1>4, Pieces DEF KeepsHistory, SameAttempts, AttemptIds, DeliveryIds
<1>6. \A a \in AttemptIds :
          /\ a # 0 /\ attempts[a].delivery \in DeliveryIds
          /\ SessionOf(a)' = SessionOf(a) /\ (Waits(a)' <=> Waits(a))
          /\ WireOf(a) = deliveries[attempts[a].delivery].wire
          /\ WireOf(a)' = IF attempts[a].delivery = d THEN op ELSE WireOf(a)
  BY <1>1, <1>4, <1>5, SameStory, OfType DEF Waits, WireOf
<1>7. pc \in Running /\ pc \in Serving /\ pc' \in Serving
  BY DEF Running, Serving, Connected
<1>8. OneOpen'
  BY <1>1, <1>4, <1>5, <1>7 DEF OneOpen
<1>9. InOrder'
  BY <1>1 DEF InOrder
<1>10. Answerable'
  BY <1>1, <1>2, <1>5, <1>6 DEF Answerable
<1>11. ASSUME NEW a \in AttemptIds
       PROVE  /\ Live(a)' => Waits(a)
              /\ Succeeds(a)' => Succeeds(a) \/ a = inhand
              /\ Refused(a)' => Refused(a)
  BY <1>1, <1>2, <1>6, CompletionsDiffer DEF Live, Succeeds, Refused
<1>12. ASSUME NEW a \in AttemptIds, attempts[a].delivery = d, inhand < a PROVE Settled(a)'
  BY <1>1, <1>2, <1>5, <1>6, <1>12 DEF Settled
<1>13. ASSUME NEW a \in AttemptIds, attempts[a].delivery # d, Settled(a) PROVE Settled(a)'
  BY <1>1, <1>5, <1>6, <1>13 DEF Settled
<1>14. \A a \in AttemptIds : attempts[a].delivery = d => SessionOf(a) = session
  BY <1>2 DEF SessionOf
<1>15. DoneIsTrue'
  <2>1. ASSUME NEW a \in AttemptIds, Succeeds(a)' PROVE WireOf(a)' = attempts[a].op
    <3>1. CASE a = inhand
      BY <1>6, <3>1
    <3>2. CASE Succeeds(a)
      <4>1. WireOf(a) = attempts[a].op /\ WireOf(a) # "unacked"
        BY <3>2, OfType DEF Truth, DoneIsTrue, Outcomes
      <4> QED BY <1>3, <1>6, <4>1
    <3> QED BY <1>11, <2>1, <3>1, <3>2
  <2> QED BY <1>1, <1>5, <2>1 DEF DoneIsTrue
<1>16. SettledBefore'
  <2>1. ASSUME NEW a \in AttemptIds, Live(a)', WireOf(a)' \in Outcomes PROVE Settled(a)'
    <3>1. CASE attempts[a].delivery = d
      BY <1>2, <1>11, <1>12, <1>14, <2>1, <3>1 DEF InOrder
    <3>2. CASE attempts[a].delivery # d
      BY <1>6, <1>11, <1>13, <2>1, <3>2 DEF Truth, SettledBefore, Live
    <3> QED BY <3>1, <3>2
  <2> QED BY <1>5, <2>1 DEF SettledBefore
<1>17. SettledBySome'
  <2>1. ASSUME NEW i \in DeliveryIds, deliveries'[i].wire \in Outcomes
        PROVE  \E b \in AttemptIds : attempts[b].delivery = i /\ attempts[b].op = deliveries'[i].wire
    <3>1. CASE i = d
      BY <1>2, <1>3, <1>4, <3>1
    <3>2. CASE i # d
      BY <1>4, <2>1, <3>2 DEF Truth, SettledBySome
    <3> QED BY <3>1, <3>2
  <2> QED BY <1>1, <1>5, <2>1 DEF SettledBySome
<1>18. RefusedIsTrue'
  <2>1. ASSUME NEW a \in AttemptIds, Refused(a)'
        PROVE  /\ WireOf(a)' \in Outcomes => Settled(a)'
               /\ WireOf(a)' = "unacked" => Hopeless(a)'
    <3>1. CASE attempts[a].delivery = d
      <4>1. Hopeless(a)
        BY <1>3, <1>6, <1>11, <2>1, <3>1 DEF Truth, RefusedIsTrue
      <4>2. inhand < a
        BY <1>2, <1>7, <1>14, <3>1, <4>1, OfType DEF Hopeless
      <4> QED BY <1>3, <1>6, <1>12, <3>1, <4>2
    <3>2. CASE attempts[a].delivery # d
      <4>1. Hopeless(a) => Hopeless(a)'
        BY <1>1, <1>5, <1>7, HopelessKept
      <4> QED BY <1>6, <1>11, <1>13, <2>1, <3>2, <4>1 DEF Truth, RefusedIsTrue
    <3> QED BY <3>1, <3>2
  <2> QED BY <1>5, <2>1 DEF RefusedIsTrue
<1>19. Truth'
  BY <1>15, <1>16, <1>17, <1>18 DEF Truth
<1> QED BY <1>8, <1>9, <1>10, <1>19

-----------------------------------------------------------------------------
(* The end of a session: by the thread, or by stop() *)

\* close() schedules a failure for every action queued, and for no other.
LEMMA QueuedFail ==
    ASSUME IInv, NEW s \in Sessions, callbacks' = callbacks \o FailQueued(s)
    PROVE  Range(callbacks') =
               Range(callbacks) \cup {Completion(a, FALSE) : a \in Range(actions[s])}
<1> DEFINE n == Len(actions[s])
<1>1. /\ actions[s] \in Seq(AttemptsOf(s)) /\ n \in Nat
      /\ \A i \in 1..n : actions[s][i] \in AttemptIds
      /\ Range(actions[s]) = {actions[s][i] : i \in 1..n}
  <2>1. actions[s] \in Seq(AttemptsOf(s))
    BY DEF IInv, Linked, Queued
  <2> QED BY <2>1, LenProperties, ElementOfSeq, RangeEquality DEF AttemptsOf
<1>2. FailQueued(s) \in Seq(CallbackIds) /\ Len(FailQueued(s)) = n
  <2>1. \A i \in 1..n : Completion(actions[s][i], FALSE) \in CallbackIds
    BY <1>1, Completes
  <2>2. [i \in 1..n |-> Completion(actions[s][i], FALSE)] \in [1..n -> CallbackIds]
    BY <2>1
  <2>3. FailQueued(s) \in Seq(CallbackIds)
    BY <1>1, <2>2, SeqDef DEF FailQueued
  <2>4. DOMAIN FailQueued(s) = 1..Len(FailQueued(s)) /\ DOMAIN FailQueued(s) = 1..n
        /\ Len(FailQueued(s)) \in Nat
    BY <2>3, LenProperties DEF FailQueued
  <2>5. Len(FailQueued(s)) = n
    BY <1>1, <2>4
  <2> QED BY <2>3, <2>5
<1>3. Range(FailQueued(s)) = {FailQueued(s)[i] : i \in 1..n}
  BY <1>2, RangeEquality
<1>4. \A i \in 1..n : FailQueued(s)[i] = Completion(actions[s][i], FALSE)
  BY DEF FailQueued
<1>5. Range(FailQueued(s)) = {Completion(a, FALSE) : a \in Range(actions[s])}
  BY <1>1, <1>3, <1>4
<1>6. callbacks \in Seq(CallbackIds)
  BY DEF IInv, Linked, Scheduled
<1>7. Range(callbacks \o FailQueued(s)) = Range(callbacks) \cup Range(FailQueued(s))
  BY <1>2, <1>6, RangeConcatenation
<1> QED BY <1>5, <1>7

\* A session that closes answers what it had queued, and runs no more than what
\* the thread has in hand.
LEMMA CloseTells ==
    ASSUME IInv, Story, session \in Sessions, CloseSession(session),
           UNCHANGED <<attempts, deliveries, inhand, session>>,
           pc' = pc \/ (pc' \notin Running /\ inhand = 0)
    PROVE  Story'
<1> USE DEF Story
<1>1. KeepsHistory /\ NoneSettled /\ SameAttempts /\ AttemptIds' = AttemptIds
  BY SameHistory DEF NoneSettled, DeliveryIds, SameAttempts, AttemptIds
<1>2. /\ \A s \in Sessions : actions'[s] = IF s = session THEN <<>> ELSE actions[s]
      /\ \A s \in Sessions : closed'[s] = (IF s = session THEN TRUE ELSE closed[s])
  BY Pieces DEF CloseSession
<1>3. Range(callbacks') =
          Range(callbacks) \cup {Completion(a, FALSE) : a \in Range(actions[session])}
  BY QueuedFail DEF CloseSession
<1>4. ASSUME NEW a \in AttemptIds
      PROVE  /\ SessionOf(a)' = SessionOf(a) /\ SessionOf(a) \in Sessions
             /\ SessionOf(a) # session => (Waits(a)' <=> Waits(a))
             /\ SessionOf(a) = session => ~Waits(a)'
  <2>1. SessionOf(a)' = SessionOf(a) /\ SessionOf(a) \in Sessions
    BY <1>1, SameStory
  <2>2. Range(<<>>) = {}
    BY DEF Range
  <2> QED BY <1>2, <2>1, <2>2 DEF Waits
<1>5. \A a \in AttemptIds :
          /\ Completion(a, TRUE) \in Range(callbacks') => Completion(a, TRUE) \in Range(callbacks)
          /\ Completion(a, FALSE) \in Range(callbacks') =>
                 Completion(a, FALSE) \in Range(callbacks) \/ a \in Range(actions[session])
  <2>1. ASSUME NEW a, Completion(a, TRUE) \in {Completion(b, FALSE) : b \in Range(actions[session])}
        PROVE  FALSE
    <3>1. PICK b : Completion(a, TRUE) = Completion(b, FALSE)
      BY <2>1
    <3>2. Completion(a, TRUE).ok = TRUE /\ Completion(b, FALSE).ok = FALSE
      BY DEF Completion
    <3> QED BY <3>1, <3>2
  <2>2. ASSUME NEW a, Completion(a, FALSE) \in {Completion(b, FALSE) : b \in Range(actions[session])}
        PROVE  a \in Range(actions[session])
    BY <2>2, CompletionsDiffer
  <2> QED BY <1>3, <2>1, <2>2
<1>6. \A a \in Range(actions[session]) : a \in AttemptIds /\ SessionOf(a) = session
  <2>1. actions[session] \in Seq(AttemptsOf(session))
    BY DEF IInv, Linked, Queued
  <2> QED BY <2>1, RangeOfSeq DEF AttemptsOf
<1>7. OneOpen'
  BY <1>2 DEF OneOpen, DeliveryIds
<1>8. InOrder'
  <2>1. \A s \in Sessions : \A i, j \in 1..Len(actions'[s]) :
            i < j => actions'[s][i] < actions'[s][j]
    <3>1. \A i \in 1..Len(<<>>) : FALSE
      BY EmptySeq
    <3> QED BY <1>2, <3>1 DEF InOrder
  <2> QED BY <1>1, <1>4, <2>1 DEF InOrder
<1>9. Answerable'
  <2>1. ASSUME NEW a \in AttemptIds, attempts[a].future = "pending"
        PROVE  \/ inhand = a
               \/ Completion(a, TRUE) \in Range(callbacks')
               \/ Completion(a, FALSE) \in Range(callbacks')
    BY <1>3, <2>1 DEF Answerable, Waits
  <2> QED BY <1>1, <2>1 DEF Answerable
<1>10. Truth'
  <2>1. ASSUME NEW a \in AttemptIds PROVE Hopeless(a) => Hopeless(a)'
    <3>1. \A s \in Sessions : closed[s] => closed'[s]
      BY <1>2
    <3>2. pc' \in Running => pc \in Running
      OBVIOUS
    <3> QED BY <1>1, <3>1, <3>2, HopelessKept
  <2>2. ASSUME NEW a \in AttemptIds
        PROVE  /\ Live(a)' => Live(a)
               /\ Succeeds(a)' => Succeeds(a)
    BY <1>4, <1>5 DEF Live, Succeeds
  <2>3. ASSUME NEW a \in AttemptIds, Refused(a)'
        PROVE  \/ Refused(a)
               \/ /\ WireOf(a) \in Outcomes => Settled(a)
                  /\ WireOf(a) = "unacked" => Hopeless(a)'
    <3>1. CASE Refused(a)
      BY <3>1
    <3>2. CASE a \in Range(actions[session])
      <4>1. Waits(a) /\ SessionOf(a) = session
        BY <1>6, <3>2 DEF Waits
      <4>2. WireOf(a) \in Outcomes => Settled(a)
        BY <4>1 DEF Truth, SettledBefore, Live
      <4>3. inhand # 0 => inhand < a
        BY <4>1 DEF InOrder
      <4>4. closed'[SessionOf(a)] /\ SessionOf(a)' = SessionOf(a)
        BY <1>2, <1>4, <4>1
      <4> QED BY <4>2, <4>3, <4>4 DEF Hopeless
    <3> QED BY <1>5, <2>3, <3>1, <3>2 DEF Refused
  <2> QED BY <1>1, <2>1, <2>2, <2>3, TruthKept
<1> QED BY <1>7, <1>8, <1>9, <1>10

LEMMA FinallyTells == ASSUME IInv, Story, Finally, ThreadFrame PROVE Story'
<1>1. session \in Sessions /\ inhand = 0
  BY Pieces DEF Finally, Control, Connected
<1>2. UNCHANGED <<attempts, deliveries, inhand, session>> /\ pc' \notin Running
  BY DEF Finally, ThreadFrame, local, wire, Running, Serving
<1> QED BY <1>1, <1>2, CloseTells DEF Finally

LEMMA StopClosesTells == ASSUME IInv, Story, StopCloses, LoopFrame PROVE Story'
<1>1. UNCHANGED <<attempts, deliveries, inhand, session, pc>>
  BY DEF StopCloses, LoopFrame
<1>2. CASE session > 0
  <2>1. session \in Sessions
    BY <1>2, Pieces
  <2> QED BY <1>1, <1>2, <2>1, CloseTells DEF StopCloses
<1>3. CASE ~(session > 0)
  <2>1. UNCHANGED <<closed, actions, callbacks>>
    BY <1>3 DEF StopCloses
  <2>2. KeepsHistory /\ NoneSettled /\ SameAnswers
    BY <1>1, <2>1, SameHistory, NoAnswer DEF NoneSettled, DeliveryIds
  <2> QED BY <1>1, <2>1, <2>2, QuietStep
<1> QED BY <1>2, <1>3

-----------------------------------------------------------------------------
(* Steps of the loop that tell the story on *)

\* A future ends, or is abandoned; what was asked stays.
LEMMA OneFuture ==
    ASSUME IInv, NEW a \in AttemptIds, NEW f \in {"cancelled", "done", "failed"},
           attempts' = [attempts EXCEPT ![a].future = f], UNCHANGED <<deliveries, session>>
    PROVE  /\ KeepsHistory /\ NoneSettled /\ SameAttempts /\ AttemptIds' = AttemptIds
           /\ \A b \in AttemptIds :
                 attempts'[b].future = IF b = a THEN f ELSE attempts[b].future
<1> DEFINE e == [attempts[a] EXCEPT !.future = f]
<1>1. /\ e \in Attempt /\ e.delivery = attempts[a].delivery
      /\ e.op = attempts[a].op /\ e.future = f
  BY OfType DEF Attempt
<1>2. attempts' = [attempts EXCEPT ![a] = e]
  OBVIOUS
<1> HIDE DEF e
<1>3. KeepsHistory /\ Len(attempts') = Len(attempts)
  BY <1>1, <1>2, OneAttempt
<1>4. attempts \in Seq(Attempt) /\ a \in 1..Len(attempts)
  BY Pieces DEF Histories, AttemptIds
<1>5. \A b \in AttemptIds : attempts'[b] = IF b = a THEN e ELSE attempts[b]
  BY <1>1, <1>2, <1>4, ExceptSeq DEF AttemptIds
<1> QED BY <1>1, <1>3, <1>5 DEF SameAttempts, NoneSettled, DeliveryIds, AttemptIds

\* A cancelled attempt stays queued; nobody asks for its answer any more.
LEMMA CancelTells == ASSUME IInv, Story, NEW a \in DOMAIN attempts, Cancel(a), LoopFrame PROVE Story'
<1> USE DEF Story, Cancel, LoopFrame, flags, life, widen, inbox
<1>1. UNCHANGED <<pc, deliveries, actions, inhand, session, closed, callbacks>>
  OBVIOUS
<1>2. a \in AttemptIds
  BY LenProperties, Pieces DEF Histories, AttemptIds
<1>3. /\ KeepsHistory /\ NoneSettled /\ SameAttempts /\ AttemptIds' = AttemptIds
      /\ \A b \in AttemptIds :
            attempts'[b].future = IF b = a THEN "cancelled" ELSE attempts[b].future
  BY <1>1, <1>2, OneFuture
<1>4. \A b \in AttemptIds : SessionOf(b)' = SessionOf(b) /\ (Waits(b)' <=> Waits(b))
  BY <1>1, <1>3, SameStory DEF Waits
<1>5. OneOpen' /\ InOrder'
  BY <1>1, <1>3, <1>4 DEF OneOpen, InOrder, DeliveryIds
<1>6. Answerable'
  BY <1>1, <1>3, <1>4 DEF Answerable
<1>7. Truth'
  <2>1. ASSUME NEW b \in AttemptIds PROVE Hopeless(b) => Hopeless(b)'
    BY <1>1, <1>3, HopelessKept
  <2>2. ASSUME NEW b \in AttemptIds
        PROVE  /\ Live(b)' => Live(b)
               /\ Succeeds(b)' => Succeeds(b)
               /\ Refused(b)' => Refused(b)
    <3>1. attempts'[b].future = "cancelled" \/ attempts'[b].future = attempts[b].future
      BY <1>3
    <3>2. Live(b)' => Live(b)
      BY <1>1, <1>4 DEF Live
    <3> QED BY <1>1, <3>1, <3>2 DEF Succeeds, Refused
  <2> QED BY <1>3, <2>1, <2>2, TruthKept
<1> QED BY <1>5, <1>6, <1>7

\* A callback buffers a delivery or answers an attempt: then it is not pending.
LEMMA RunCallbackTells == ASSUME IInv, Story, RunCallback, LoopFrame PROVE Story'
<1> USE DEF Story, LoopFrame, flags, life, widen
<1> DEFINE c == Head(callbacks)
<1>1. UNCHANGED <<pc, actions, inhand, session, closed>>
  BY DEF RunCallback
<1>2. /\ c \in CallbackIds /\ callbacks' = Tail(callbacks)
      /\ Range(callbacks) = {c} \cup Range(callbacks')
  <2>1. callbacks \in Seq(CallbackIds) /\ callbacks # <<>> /\ callbacks' = Tail(callbacks)
    BY DEF IInv, Linked, Scheduled, RunCallback
  <2> QED BY <2>1, HeadTailProperties, RangeOfTail
<1> HIDE DEF c
<1>3. CASE c.call = "put" /\ UNCHANGED attempts
           /\ deliveries' = IF c.item = Pill THEN deliveries
                            ELSE [deliveries EXCEPT ![c.item].app = "buffered"]
  <2>1. c.item \in DeliveryIds \cup {Pill}
    BY <1>2, <1>3 DEF CallbackIds
  <2>2. KeepsHistory /\ NoneSettled
    BY <1>1, <1>3, <2>1, AppOnly
  <2>3. \A a \in AttemptIds : Completion(a, TRUE) # c /\ Completion(a, FALSE) # c
    BY <1>3 DEF Completion
  <2>4. SameAnswers
    BY <1>2, <2>3 DEF SameAnswers
  <2> QED BY <1>1, <1>3, <2>2, <2>4, QuietStep
<1>4. CASE c.call = "complete" /\ UNCHANGED deliveries
           /\ attempts' = IF attempts[c.attempt].future # "pending" THEN attempts
                          ELSE [attempts EXCEPT ![c.attempt].future =
                                   IF c.ok THEN "done" ELSE "failed"]
  <2> DEFINE f == IF c.ok THEN "done" ELSE "failed"
  <2>1. c.attempt \in AttemptIds /\ c.ok \in BOOLEAN
    BY <1>2, <1>4 DEF CallbackIds
  <2> PICK a \in AttemptIds : a = c.attempt
    BY <2>1
  <2>2. c \in [call : {"complete"}, attempt : AttemptIds, ok : BOOLEAN]
    BY <1>2, <1>4 DEF CallbackIds
  <2>3. (c.ok = TRUE => c = Completion(a, TRUE)) /\ (c.ok = FALSE => c = Completion(a, FALSE))
    BY <2>2 DEF Completion
  <2>4. f \in {"done", "failed"} /\ (f = "done" => c.ok = TRUE) /\ (f = "failed" => c.ok = FALSE)
    BY <2>1
  <2> HIDE DEF f
  <2>5. /\ KeepsHistory /\ NoneSettled /\ SameAttempts /\ AttemptIds' = AttemptIds
        /\ \A b \in AttemptIds :
              \/ attempts'[b].future = attempts[b].future /\ (b = a => attempts[b].future # "pending")
              \/ b = a /\ attempts'[b].future = f
    <3>1. CASE attempts[a].future # "pending"
      <4>1. attempts' = attempts
        BY <1>4, <3>1
      <4>2. KeepsHistory
        BY <1>4, <4>1, SameHistory
      <4> QED BY <1>1, <1>4, <3>1, <4>1, <4>2
              DEF NoneSettled, DeliveryIds, SameAttempts, AttemptIds
    <3>2. CASE attempts[a].future = "pending"
      <4>1. attempts' = [attempts EXCEPT ![a].future = f]
        BY <1>4, <3>2 DEF f
      <4>2. f \in {"cancelled", "done", "failed"} /\ UNCHANGED <<deliveries, session>>
        BY <1>1, <1>4, <2>4
      <4>3. /\ KeepsHistory /\ NoneSettled /\ SameAttempts /\ AttemptIds' = AttemptIds
            /\ \A b \in AttemptIds :
                  attempts'[b].future = IF b = a THEN f ELSE attempts[b].future
        BY <4>1, <4>2, OneFuture
      <4> QED BY <4>3
    <3> QED BY <3>1, <3>2
  <2>6. \A b \in AttemptIds : SessionOf(b)' = SessionOf(b) /\ (Waits(b)' <=> Waits(b))
    BY <1>1, <2>5, SameStory DEF Waits
  <2>7. ASSUME NEW b \in AttemptIds, b # a
        PROVE  Completion(b, TRUE) # c /\ Completion(b, FALSE) # c
    BY <2>7 DEF Completion
  <2>8. OneOpen' /\ InOrder'
    BY <1>1, <1>4, <2>5, <2>6 DEF OneOpen, InOrder, DeliveryIds
  <2>9. Answerable'
    <3>1. ASSUME NEW b \in AttemptIds, attempts'[b].future = "pending"
          PROVE  attempts[b].future = "pending" /\ b # a
      BY <2>4, <2>5, <3>1
    <3> QED BY <1>1, <1>2, <2>5, <2>6, <2>7, <3>1 DEF Answerable
  <2>10. Truth'
    <3>1. ASSUME NEW b \in AttemptIds PROVE Hopeless(b) => Hopeless(b)'
      BY <1>1, <2>5, HopelessKept
    <3>2. ASSUME NEW b \in AttemptIds
          PROVE  /\ Live(b)' => Live(b)
                 /\ Succeeds(b)' => Succeeds(b)
                 /\ Refused(b)' => Refused(b)
      <4>1. Live(b)' => Live(b)
        BY <1>1, <2>6 DEF Live
      <4>2. CASE attempts'[b].future = attempts[b].future
        BY <1>2, <4>1, <4>2 DEF Succeeds, Refused
      <4>3. CASE b = a /\ attempts'[b].future = f
        BY <1>2, <2>3, <2>4, <4>1, <4>3 DEF Succeeds, Refused
      <4> QED BY <2>5, <4>2, <4>3
    <3> QED BY <2>5, <3>1, <3>2, TruthKept
  <2> QED BY <2>8, <2>9, <2>10
<1> QED BY <1>3, <1>4 DEF RunCallback, c

\* A settlement is the newest attempt; it waits in the open session, or it failed.
LEMMA SettleTells ==
    ASSUME IInv, Story, NEW d \in DOMAIN deliveries, NEW op \in Operations, Settle(d, op), LoopFrame
    PROVE  Story'
<1> USE DEF Story, LoopFrame, flags, life, widen, inbox
<1>0. d \in DeliveryIds /\ deliveries[d].session \in Sessions
  <2>1. d \in DeliveryIds
    BY LenProperties, Pieces DEF Histories, DeliveryIds
  <2> QED BY <2>1, OfType
<1> PICK n \in Nat : n = Len(attempts) + 1
  BY Pieces
<1> PICK s \in Sessions : s = deliveries[d].session
  BY <1>0
<1>1. UNCHANGED <<pc, deliveries, inhand, session, closed, callbacks>>
  BY DEF Settle
<1>2. /\ d \in DeliveryIds /\ s \in Sessions /\ s <= session /\ n \in Nat
      /\ Len(attempts) \in Nat /\ op \in Outcomes
  BY <1>0, Pieces, OfType, ApplicationAssumption DEF OneOpen, Outcomes
<1>3. PICK future \in {"pending", "failed"} :
          /\ attempts' = Append(attempts, [delivery |-> d, op |-> op, future |-> future])
          /\ \/ /\ future = "pending" /\ ~closed[s]
                /\ actions' = [actions EXCEPT ![s] = Append(@, n)]
             \/ future = "failed" /\ closed[s] /\ actions' = actions
  BY DEF Settle, BoundSession, Accepts
<1>4. /\ \A a \in AttemptIds : attempts'[a] = attempts[a]
      /\ attempts'[n].delivery = d /\ attempts'[n].op = op /\ attempts'[n].future = future
      /\ AttemptIds' = AttemptIds \cup {n} /\ \A a \in AttemptIds : a < n
      /\ Len(attempts') = n
  <2>1. [delivery |-> d, op |-> op, future |-> future] \in Attempt
    BY <1>2 DEF Attempt, DeliveryIds
  <2>2. /\ Len(attempts') = n /\ \A a \in 1..Len(attempts) : attempts'[a] = attempts[a]
        /\ attempts'[n] = [delivery |-> d, op |-> op, future |-> future]
    BY <1>3, <2>1, AppendProperties, Pieces DEF Histories
  <2> QED BY <1>2, <2>2 DEF AttemptIds
<1>5. DeliveryIds' = DeliveryIds /\ KeepsHistory
  BY <1>1, <1>2, <1>4, Pieces DEF DeliveryIds, KeepsHistory
<1>6. \A a \in AttemptIds :
          /\ SessionOf(a)' = SessionOf(a) /\ WireOf(a)' = WireOf(a) /\ SessionOf(a) \in Sessions
  BY <1>1, <1>4, OfType DEF SessionOf, WireOf
<1>7. SessionOf(n)' = s /\ WireOf(n)' = deliveries[d].wire
  BY <1>1, <1>4 DEF SessionOf, WireOf
<1>8. \A t \in Sessions : Range(actions[t]) \subseteq AttemptIds /\ actions[t] \in Seq(AttemptIds)
  <2>1. ASSUME NEW t \in Sessions PROVE actions[t] \in Seq(AttemptIds)
    <3>1. actions[t] \in Seq(AttemptsOf(t)) /\ AttemptsOf(t) \subseteq AttemptIds
      BY DEF IInv, Linked, Queued, AttemptsOf
    <3> QED BY <3>1, SeqMonotonic
  <2> QED BY <2>1, RangeOfSeq
<1>9. /\ n \notin AttemptIds
      /\ \A a \in AttemptIds \cup {n} :
            /\ Completion(a, TRUE) \in Range(callbacks) => a # n
            /\ Completion(a, FALSE) \in Range(callbacks) => a # n
  <2>1. n \notin AttemptIds
    BY <1>2 DEF AttemptIds
  <2>2. Range(callbacks) \subseteq CallbackIds
    BY RangeOfSeq DEF IInv, Linked, Scheduled
  <2>3. ASSUME NEW ok \in BOOLEAN, Completion(n, ok) \in CallbackIds PROVE n \in AttemptIds
    BY <2>3 DEF CallbackIds, Completion
  <2> QED BY <2>1, <2>2, <2>3
<1>10. inhand # 0 => inhand \in AttemptIds /\ attempts'[inhand] = attempts[inhand]
  BY <1>4 DEF IInv, Linked, InHand, AttemptsOf
<1>11. ASSUME NEW a \in AttemptIds
       PROVE  /\ Waits(a) <=> Waits(a)'
              /\ (Live(a)' => Live(a)) /\ (Hopeless(a) => Hopeless(a)')
              /\ (Succeeds(a)' => Succeeds(a)) /\ (Refused(a)' => Refused(a))
              /\ Settled(a) => Settled(a)'
  <2>1. Waits(a) <=> Waits(a)'
    <3>1. CASE actions' = actions
      BY <1>6, <3>1 DEF Waits
    <3>2. CASE actions' = [actions EXCEPT ![s] = Append(@, n)]
      <4>1. actions[s] \in Seq(Nat) /\ n \in Nat
        BY <1>2, Pieces
      <4>2. Range(Append(actions[s], n)) = Range(actions[s]) \cup {n}
        BY <4>1, RangeOfAppend
      <4>3. actions'[SessionOf(a)] = IF SessionOf(a) = s THEN Append(actions[s], n)
                                     ELSE actions[SessionOf(a)]
        BY <1>6, <3>2, Pieces
      <4> QED BY <1>6, <1>9, <4>2, <4>3 DEF Waits
    <3> QED BY <1>3, <3>1, <3>2
  <2>2. Live(a)' => Live(a)
    BY <1>1, <2>1 DEF Live
  <2>3. (Succeeds(a)' => Succeeds(a)) /\ (Refused(a)' => Refused(a))
    BY <1>1, <1>4 DEF Succeeds, Refused
  <2>4. Hopeless(a) => Hopeless(a)'
    BY <1>1, <1>4, <1>6, <1>10 DEF Hopeless
  <2>5. Settled(a) => Settled(a)'
    BY <1>4, <1>6 DEF Settled
  <2> QED BY <2>1, <2>2, <2>3, <2>4, <2>5
<1>12. ~closed[s] => s = session
  BY <1>2, OfType DEF OneOpen
<1>13. OneOpen'
  <2>1. \A t \in Sessions : closed[t] => actions'[t] = <<>>
    BY <1>3, Pieces DEF OneOpen
  <2> QED BY <1>1, <1>5, <2>1 DEF OneOpen
<1>14. InOrder'
  <2>1. \A t \in Sessions : \A i, j \in 1..Len(actions'[t]) :
            i < j => actions'[t][i] < actions'[t][j]
    <3>1. CASE actions' = actions
      BY <3>1 DEF InOrder
    <3>2. CASE actions' = [actions EXCEPT ![s] = Append(@, n)]
      <4>1. actions[s] \in Seq(Nat) /\ n \in Nat
        BY Pieces
      <4>2. \A i \in 1..Len(actions[s]) : actions[s][i] < n
        BY <1>4, <1>8, ElementOfSeq
      <4>3. \A i, j \in 1..Len(actions[s]) : i < j => actions[s][i] < actions[s][j]
        BY DEF InOrder
      <4>4. \A i, j \in 1..Len(Append(actions[s], n)) :
                i < j => Append(actions[s], n)[i] < Append(actions[s], n)[j]
        BY <4>1, <4>2, <4>3, IncreasingAppend
      <4>5. \A t \in Sessions : actions'[t] = IF t = s THEN Append(actions[s], n) ELSE actions[t]
        BY <3>2, Pieces
      <4> QED BY <4>4, <4>5 DEF InOrder
    <3> QED BY <1>3, <3>1, <3>2
  <2>2. inhand # 0 => \A a \in AttemptIds \cup {n} :
            Waits(a)' /\ SessionOf(a)' = session => inhand < a
    BY <1>4, <1>6, <1>10, <1>11 DEF InOrder
  <2> QED BY <1>1, <1>4, <2>1, <2>2 DEF InOrder
<1>15. Answerable'
  <2>1. ASSUME NEW a \in AttemptIds, attempts'[a].future = "pending"
        PROVE  \/ inhand = a
               \/ SessionOf(a)' = session /\ ~closed[session] /\ Waits(a)'
               \/ Completion(a, TRUE) \in Range(callbacks)
               \/ Completion(a, FALSE) \in Range(callbacks)
    BY <1>4, <1>6, <1>11, <2>1 DEF Answerable
  <2>2. ASSUME attempts'[n].future = "pending"
        PROVE  SessionOf(n)' = session /\ ~closed[session] /\ Waits(n)'
    <3>1. ~closed[s] /\ actions' = [actions EXCEPT ![s] = Append(@, n)]
      BY <1>3, <1>4, <2>2
    <3>2. actions[s] \in Seq(Nat) /\ n \in Nat /\ actions'[s] = Append(actions[s], n)
      BY <1>2, <3>1, Pieces
    <3>3. n \in Range(actions'[s])
      BY <3>2, RangeOfAppend
    <3> QED BY <1>7, <1>12, <3>1, <3>3 DEF Waits
  <2> QED BY <1>1, <1>4, <2>1, <2>2 DEF Answerable
<1>16. deliveries[d].wire \in Outcomes => Settled(n)'
  <2>1. ASSUME deliveries[d].wire \in Outcomes
        PROVE  \E b \in AttemptIds : attempts[b].delivery = d /\ attempts[b].op = deliveries[d].wire
    BY <1>2, <2>1 DEF Truth, SettledBySome
  <2> QED BY <1>4, <1>7, <2>1 DEF Settled
<1>17. ~Succeeds(n)' /\ (Refused(n)' => closed[s])
  BY <1>1, <1>3, <1>4, <1>9 DEF Succeeds, Refused
<1>18. Truth'
  <2>1. DoneIsTrue'
    BY <1>4, <1>6, <1>11, <1>17 DEF Truth, DoneIsTrue
  <2>2. SettledBefore'
    BY <1>4, <1>6, <1>7, <1>11, <1>16 DEF Truth, SettledBefore
  <2>3. SettledBySome'
    <3>1. ASSUME NEW i \in DeliveryIds, deliveries[i].wire \in Outcomes
          PROVE  \E b \in AttemptIds' : attempts'[b].delivery = i /\ attempts'[b].op = deliveries[i].wire
      <4>1. PICK b \in AttemptIds : attempts[b].delivery = i /\ attempts[b].op = deliveries[i].wire
        BY <3>1 DEF Truth, SettledBySome
      <4> QED BY <1>4, <4>1
    <3> QED BY <1>1, <1>5, <3>1 DEF SettledBySome
  <2>4. RefusedIsTrue'
    <3>1. Refused(n)' => Hopeless(n)'
      <4>1. inhand # 0 => inhand < n
        BY <1>4, <1>10
      <4> QED BY <1>1, <1>7, <1>17, <4>1 DEF Hopeless
    <3>2. Refused(n)' => /\ WireOf(n)' \in Outcomes => Settled(n)'
                         /\ WireOf(n)' = "unacked" => Hopeless(n)'
      BY <1>7, <1>16, <3>1
    <3>3. ASSUME NEW a \in AttemptIds, Refused(a)'
          PROVE  /\ WireOf(a)' \in Outcomes => Settled(a)'
                 /\ WireOf(a)' = "unacked" => Hopeless(a)'
      <4>1. Refused(a)
        BY <1>11, <3>3
      <4>2. (Settled(a) => Settled(a)') /\ (Hopeless(a) => Hopeless(a)')
        BY <1>11
      <4>3. /\ WireOf(a) \in Outcomes => Settled(a)
            /\ WireOf(a) = "unacked" => Hopeless(a)
        BY <4>1 DEF Truth, RefusedIsTrue
      <4> QED BY <1>6, <4>2, <4>3
    <3> QED BY <1>4, <3>2, <3>3 DEF RefusedIsTrue
  <2> QED BY <2>1, <2>2, <2>3, <2>4 DEF Truth
<1> QED BY <1>13, <1>14, <1>15, <1>18

-----------------------------------------------------------------------------
(* The end of a consumer *)

\* What stays in the queues and among the callbacks.
LEMMA PillKept ==
    ASSUME IInv, PillLeft, queue' = queue, pc' = "none" => pc = "none",
           pc' = "dead" => pc = "dead",
           \A q \in Queues : Pill \in Range(messages[q]) => Pill \in Range(messages'[q]),
           \A q \in Queues :
               [call |-> "put", queue |-> q, item |-> Pill] \in Range(callbacks) =>
                   \/ Pill \in Range(messages'[q])
                   \/ [call |-> "put", queue |-> q, item |-> Pill] \in Range(callbacks')
    PROVE  PillLeft'
<1>1. ASSUME NEW q \in Queues, Ended(q)' PROVE Ended(q)
  BY <1>1 DEF Ended
<1>2. EndIsVisible'
  BY <1>1 DEF PillLeft, EndIsVisible
<1> QED BY <1>2 DEF PillLeft

\* Most steps touch neither, and end no consumer.
LEMMA ThreadLeavesPills ==
    ASSUME IInv, PillLeft, ThreadFrame, callbacks' = callbacks, pc' # "none", pc' # "dead"
    PROVE  PillLeft'
BY PillKept DEF ThreadFrame, life, inbox

LEMMA LoopLeavesPills ==
    ASSUME IInv, PillLeft, UNCHANGED <<callbacks, messages, queue, pc>>
    PROVE  PillLeft'
BY PillKept

\* A step that only schedules more callbacks.
LEMMA MoreCallbacks ==
    ASSUME IInv, PillLeft, UNCHANGED <<messages, queue>>, pc' = pc \/ pc' \notin {"none", "dead"},
           Range(callbacks) \subseteq Range(callbacks')
    PROVE  PillLeft'
BY PillKept

LEMMA ThreadStepLeavesPills == ASSUME IInv, PillLeft, ThreadStep, ThreadFrame PROVE PillLeft'
<1> USE DEF ThreadFrame, life, inbox
<1>1. CASE \/ Top \/ Connect \/ Open \/ MarkConsuming \/ Loop \/ PopAction \/ ActionsDone
           \/ ClearFlag \/ Qos \/ KeepPrefetch \/ DrainEnds \/ Recover \/ Disconnect \/ Wait
  BY <1>1, ThreadLeavesPills
     DEF Move, Top, Connect, Open, MarkConsuming, Loop, PopAction, ActionsDone, ClearFlag, Qos,
         KeepPrefetch, DrainEnds, Recover, Disconnect, Wait
<1>2. CASE ExecuteAction \/ ActionRaises
  <2>1. PICK ok \in BOOLEAN : callbacks' = Append(callbacks, Completion(inhand, ok))
    BY <1>2 DEF ExecuteAction, ActionRaises
  <2>2. Range(callbacks) \subseteq Range(callbacks')
    BY <1>2, <2>1, AnswerInHand, Pieces DEF Control, ExecuteAction, ActionRaises
  <2>3. pc' \notin {"none", "dead"}
    BY <1>2 DEF ExecuteAction, ActionRaises
  <2> QED BY <2>2, <2>3, MoreCallbacks
<1>3. CASE \E m \in Messages : Drain(m)
  <2>1. [call |-> "put", queue |-> queue, item |-> Len(deliveries) + 1] \in Callback
    BY Pieces DEF Callback, Numbers
  <2>2. callbacks \in Seq(Callback)
    BY TypeParts DEF IInv, Tables
  <2>3. Range(callbacks) \subseteq Range(callbacks')
    BY <1>3, <2>1, <2>2, RangeOfAppend DEF Drain
  <2> QED BY <1>3, <2>3, MoreCallbacks DEF Drain
<1>4. CASE Finally
  <2>1. session \in Sessions
    BY <1>4, Pieces DEF Finally, Control, Connected
  <2>2. Range(callbacks) \subseteq Range(callbacks')
    BY <1>4, <2>1, QueuedFail DEF Finally, CloseSession
  <2> QED BY <1>4, <2>2, MoreCallbacks DEF Finally
<1>5. CASE Exit
  <2> DEFINE pill == [call |-> "put", queue |-> queue, item |-> Pill]
  <2>1. pill \in Callback /\ callbacks \in Seq(Callback)
    BY Pieces, TypeParts DEF IInv, Tables, Callback, Numbers, Pill
  <2>2. Range(callbacks') = Range(callbacks) \cup {pill}
    BY <1>5, <2>1, RangeOfAppend DEF Exit
  <2>3. queue \in Nat /\ Queues \subseteq Nat
    BY Pieces DEF Numbers, Queues
  <2>4. ASSUME NEW q \in Queues, q <= queue, Ended(q)', q # queue PROVE Ended(q)
    BY <2>3, <2>4 DEF Ended
  <2>5. EndIsVisible'
    BY <2>2, <2>4 DEF PillLeft, EndIsVisible
  <2> QED BY <1>5, <2>5 DEF PillLeft, Exit
<1> QED BY <1>1, <1>2, <1>3, <1>4, <1>5 DEF ThreadStep

\* The loop moves an exception along, and starts anew only what has ended.
LEMMA LoopStepLeavesPills ==
    ASSUME IInv, PillLeft, LoopFrame,
           \/ RunCallback \/ StartResumes \/ Joined \/ StopCloses \/ RaiseFlag
           \/ Start \/ Stop
           \/ \E count \in Prefetches : RaisePrefetch(count)
           \/ \E r \in Readers : Get(r) \/ Receive(r)
           \/ \E d \in DOMAIN deliveries, op \in Operations : Settle(d, op)
           \/ \E a \in DOMAIN attempts : Cancel(a)
    PROVE  PillLeft'
<1> USE DEF life, inbox
<1>0. /\ \A q \in Queues : messages[q] \in Seq(Nat)
      /\ callbacks \in Seq(Callback) /\ callbacks \in Seq(CallbackIds)
      /\ queue \in Queues /\ queue \in Nat /\ Queues \subseteq Nat /\ Pill \in Nat
  BY Pieces, TypeParts DEF IInv, Tables, Numbers, Queues, Pill, Linked, Scheduled
<1>1. CASE \/ StartResumes \/ Joined \/ RaiseFlag \/ Stop
           \/ \E count \in Prefetches : RaisePrefetch(count)
           \/ \E r \in Readers : Get(r)
           \/ \E d \in DOMAIN deliveries, op \in Operations : Settle(d, op)
           \/ \E a \in DOMAIN attempts : Cancel(a)
  BY <1>1, LoopLeavesPills
     DEF StartResumes, Joined, RaiseFlag, Stop, RaisePrefetch, Get, Settle, Cancel
<1>2. CASE Start
  <2>1. UNCHANGED <<messages, callbacks>> /\ queue' = queue + 1 /\ pc' = "top"
    BY <1>2 DEF Start
  <2>2. pc = "dead" \/ (pc = "none" /\ queue = 1)
    BY <1>2 DEF Start, IInv, Control, PillLeft
  <2>3. ASSUME NEW q \in Queues, q <= queue', Ended(q)' PROVE q <= queue /\ Ended(q)
    <3>1. 1 < q /\ q < queue + 1 /\ q \in Nat
      BY <1>0, <2>1, <2>3 DEF Ended
    <3> QED BY <1>0, <2>2, <3>1 DEF Ended
  <2>4. EndIsVisible'
    BY <2>1, <2>3 DEF PillLeft, EndIsVisible
  <2> QED BY <2>1, <2>4 DEF PillLeft
<1>3. CASE RunCallback
  <2> DEFINE c == Head(callbacks)
  <2>1. /\ Range(callbacks) = {c} \cup Range(callbacks') /\ c \in CallbackIds
    BY <1>0, <1>3, RangeOfTail, HeadTailProperties DEF RunCallback
  <2>2. queue' = queue /\ pc' = pc
    BY <1>3 DEF RunCallback
  <2> HIDE DEF c
  <2>3. CASE c.call = "put" /\ messages' = [messages EXCEPT ![c.queue] = Append(@, c.item)]
    <3>1. c.queue \in Queues /\ c.item \in Nat
      BY <2>1, <2>3, Pieces DEF CallbackIds, DeliveryIds, Pill
    <3>2. Range(messages'[c.queue]) = Range(messages[c.queue]) \cup {c.item}
      <4>1. messages'[c.queue] = Append(messages[c.queue], c.item)
        BY <2>3, <3>1, Pieces
      <4>2. messages[c.queue] \in Seq(Nat)
        BY <1>0, <3>1
      <4> QED BY <3>1, <4>1, <4>2, RangeOfAppend
    <3>3. \A q \in Queues : q # c.queue => messages'[q] = messages[q]
      BY <2>3, Pieces
    <3> QED BY <2>1, <2>2, <3>2, <3>3, PillKept
  <2>4. CASE c.call = "complete" /\ UNCHANGED messages
    BY <2>1, <2>2, <2>4, PillKept
  <2> QED BY <1>3, <2>3, <2>4 DEF RunCallback, c
<1>4. CASE StopCloses
  <2>1. queue' = queue /\ pc' = pc
    BY <1>4 DEF StopCloses
  <2>2. Range(callbacks) \subseteq Range(callbacks')
    <3>1. CASE session > 0
      <4>1. session \in Sessions
        BY <3>1, Pieces
      <4> QED BY <1>4, <3>1, <4>1, QueuedFail DEF StopCloses, CloseSession
    <3>2. CASE ~(session > 0)
      BY <1>4, <3>2 DEF StopCloses
    <3> QED BY <3>1, <3>2
  <2>3. \A q \in Queues : Pill \in Range(messages[q]) => Pill \in Range(messages'[q])
    <3>1. CASE messages' = messages
      BY <3>1
    <3>2. CASE messages' = [messages EXCEPT ![queue] = Append(@, Pill)]
      <4>1. Range(Append(messages[queue], Pill)) = Range(messages[queue]) \cup {Pill}
        BY <1>0, RangeOfAppend
      <4> QED BY <1>0, <3>2, <4>1, Pieces
    <3> QED BY <1>4, <3>1, <3>2 DEF StopCloses
  <2> QED BY <2>1, <2>2, <2>3, PillKept
<1>5. CASE \E r \in Readers : Receive(r)
  <2> PICK r \in Readers : Receive(r)
    BY <1>5
  <2>1. UNCHANGED <<queue, pc, callbacks>> /\ reader[r] \in Queues /\ messages[reader[r]] # <<>>
    BY Pieces DEF Receive, Numbers
  <2> PICK q \in Queues : q = reader[r]
    BY <2>1
  <2> DEFINE old == messages[q]
             item == Head(messages[q])
  <2>2. /\ old \in Seq(Nat) /\ Tail(old) \in Seq(Nat)
        /\ Range(old) = {item} \cup Range(Tail(old))
    BY <1>0, <2>1, RangeOfTail, HeadTailProperties
  <2>3. Range(Append(Tail(old), Pill)) = Range(Tail(old)) \cup {Pill}
    <3>1. PICK rest \in Seq(Nat) : rest = Tail(old)
      BY <2>2
    <3>2. Range(Append(rest, Pill)) = Range(rest) \cup {Pill}
      BY <1>0, RangeOfAppend
    <3> QED BY <3>1, <3>2
  <2>4. /\ \A p \in Queues : p # q => messages'[p] = messages[p]
        /\ \/ item = Pill /\ messages'[q] = Append(Tail(old), Pill)
           \/ item # Pill /\ messages'[q] = Tail(old)
    BY Pieces DEF Receive, PutBack
  <2>5. Pill \in Range(old) => Pill \in Range(messages'[q])
    BY <2>2, <2>3, <2>4
  <2> QED BY <2>1, <2>4, <2>5, PillKept
<1> QED BY <1>1, <1>2, <1>3, <1>4, <1>5

-----------------------------------------------------------------------------
(* The theorems *)

\* Every step of the thread, of the loop and of the wire keeps both.
LEMMA StoryGoesOn == IInv /\ Story /\ [Next]_vars => Story'
<1> SUFFICES ASSUME IInv, Story, [Next]_vars PROVE Story'
  OBVIOUS
<1>1. CASE ThreadNext
  BY <1>1, ThreadMovesTell, ConnectTells, PopActionTells, ExecuteActionTells, ActionRaisesTells,
     DrainTells, FinallyTells, ConnectionEndsTells, ExitTells DEF ThreadNext, ThreadStep, Disconnect
<1>2. CASE ThreadFails
  BY <1>2, ThreadMovesTell DEF ThreadFails
<1>3. CASE LoopProgress
  BY <1>3, LoopMovesTell, RunCallbackTells, StopClosesTells DEF LoopProgress
<1>4. CASE \E r \in Readers : ReaderNext(r)
  BY <1>4, ReceiveTells DEF ReaderNext
<1>5. CASE LoopCalls
  BY <1>5, LoopMovesTell, SettleTells, CancelTells DEF LoopCalls
<1>6. CASE Drop
  BY <1>6, ConnectionEndsTells DEF Drop
<1>7. CASE UNCHANGED vars
  <2>1. UNCHANGED <<pc, attempts, deliveries, actions, inhand, session, closed, callbacks>>
    BY <1>7 DEF vars, local, shared, wire
  <2>2. KeepsHistory /\ NoneSettled /\ SameAnswers
    BY <2>1, SameHistory, NoAnswer DEF NoneSettled, DeliveryIds
  <2> QED BY <2>1, <2>2, QuietStep
<1> QED BY <1>1, <1>2, <1>3, <1>4, <1>5, <1>6, <1>7 DEF Next

LEMMA PillsStay == IInv /\ PillLeft /\ [Next]_vars => PillLeft'
<1> SUFFICES ASSUME IInv, PillLeft, [Next]_vars PROVE PillLeft'
  OBVIOUS
<1>1. CASE ThreadNext
  BY <1>1, ThreadStepLeavesPills DEF ThreadNext
<1>2. CASE ThreadFails
  BY <1>2, ThreadLeavesPills DEF ThreadFails, FactoryFails, ConsumeFails
<1>3. CASE LoopProgress \/ LoopCalls \/ \E r \in Readers : ReaderNext(r)
  BY <1>3, LoopStepLeavesPills DEF LoopProgress, LoopCalls, ReaderNext
<1>4. CASE Drop \/ UNCHANGED vars
  BY <1>4, LoopLeavesPills DEF Drop, vars, life, inbox
<1> QED BY <1>1, <1>2, <1>3, <1>4 DEF Next

\* Nothing was asked yet, and no session or consumer there is.
LEMMA StoryBegins == Init => Story /\ PillLeft
<1> SUFFICES ASSUME Init PROVE Story /\ PillLeft
  OBVIOUS
<1>1. AttemptIds = {} /\ DeliveryIds = {}
  BY DEF Init, AttemptIds, DeliveryIds
<1>2. OneOpen
  BY <1>1 DEF Init, OneOpen, Sessions
<1>3. InOrder
  BY <1>1 DEF Init, InOrder
<1>4. Answerable /\ Truth
  BY <1>1 DEF Answerable, Truth, DoneIsTrue, SettledBefore, SettledBySome, RefusedIsTrue
<1>5. PillLeft
  BY DEF Init, PillLeft, EndIsVisible, Ended, Queues
<1> QED BY <1>2, <1>3, <1>4, <1>5 DEF Story

\* Whoever awaits a settlement can still be answered, whatever closes, reconnects
\* or is cancelled meanwhile (session.py:82-83 and close(), bridge.py finally).
THEOREM NobodyWaitsInVain == Spec => []NoOrphanedFuture
<1>1. IInv /\ Story => NoOrphanedFuture
  <2> SUFFICES ASSUME IInv, Story, NEW a \in Pending
               PROVE  \/ inhand = a
                      \/ /\ a \in Range(actions[session]) /\ ~closed[session]
                         /\ pc \notin {"none", "dead"}
                      \/ \E ok \in BOOLEAN : Completion(a, ok) \in Range(callbacks)
    BY DEF NoOrphanedFuture
  <2>1. a \in AttemptIds /\ attempts[a].future = "pending"
    BY LenProperties, Pieces DEF Pending, Histories, AttemptIds
  <2>2. session \in Sessions => session # 0
    BY DEF Sessions
  <2>3. SessionOf(a) \in Sessions
    BY <2>1, OfType
  <2>4. CASE SessionOf(a) = session /\ ~closed[session] /\ Waits(a)
    <3>1. pc \in Serving
      BY <2>2, <2>3, <2>4 DEF Story, OneOpen
    <3> QED BY <2>4, <3>1 DEF Waits, Serving, Connected
  <2> QED BY <2>1, <2>4 DEF Story, Answerable
<1>2. Spec => [](IInv /\ Story)
  BY Initially, Preserved, StoryBegins, StoryGoesOn, PTL DEF Spec
<1> QED BY <1>1, <1>2, PTL

\* A settlement reported as done did reach the broker with that outcome; one
\* reported as failed did not, unless an earlier, abandoned attempt had settled the
\* delivery (session.py, run_actions and complete_future).
THEOREM AnswersAreTrue == Spec => []OutcomeIsTrue
<1>1. IInv /\ Story => OutcomeIsTrue
  <2> SUFFICES ASSUME IInv, Story, NEW a \in DOMAIN attempts
               PROVE  /\ attempts[a].future = "done" => WireOf(a) = attempts[a].op
                      /\ attempts[a].future = "failed" /\ WireOf(a) \in Outcomes =>
                             \E b \in DOMAIN attempts :
                                 /\ b < a /\ attempts[b].op = WireOf(a)
                                 /\ attempts[b].delivery = attempts[a].delivery
    BY DEF OutcomeIsTrue
  <2>1. DOMAIN attempts = AttemptIds
    BY LenProperties, Pieces DEF Histories, AttemptIds
  <2>2. attempts[a].future = "done" => WireOf(a) = attempts[a].op
    BY <2>1 DEF Story, Truth, DoneIsTrue, Succeeds
  <2>3. attempts[a].future = "failed" /\ WireOf(a) \in Outcomes => Settled(a)
    BY <2>1 DEF Story, Truth, RefusedIsTrue, Refused
  <2> QED BY <2>1, <2>2, <2>3 DEF Settled
<1>2. Spec => [](IInv /\ Story)
  BY Initially, Preserved, StoryBegins, StoryGoesOn, PTL DEF Spec
<1> QED BY <1>1, <1>2, PTL

\* However many readers take it, the exception that ends their wait stays in the
\* queue of a consumer that ended, or is on its way (bridge.py:136-141, get).
THEOREM EndStaysVisible == Spec => []EndIsVisible
<1>1. PillLeft => EndIsVisible
  BY DEF PillLeft
<1>2. Spec => [](IInv /\ PillLeft)
  BY Initially, Preserved, StoryBegins, PillsStay, PTL DEF Spec
<1> QED BY <1>1, <1>2, PTL

-----------------------------------------------------------------------------
(* ConsumerBridge implements TaskQueue: the invariant, and what TaskQueue sees *)

\* A delivery that is over for the broker: its task is in the queue again, or was.
Gone == {"requeued", "dropped"}

\* One delivery of a task, at most, holds it or settled it.
Exclusive ==
    \A i, j \in DeliveryIds :
        /\ deliveries[i].msg = deliveries[j].msg
        /\ deliveries[i].wire \notin Gone /\ deliveries[j].wire \notin Gone
        => i = j

Statuses == [m \in Messages |-> StatusOf(m)]
Askings  == [m \in Messages |-> AskedOf(m)]

\* The status of a task is the fate of the delivery that holds or settled it.
Told ==
    \A m \in Messages :
        /\ (\A i \in DeliveryIds : deliveries[i].msg = m => deliveries[i].wire \in Gone)
             => StatusOf(m) = "ready"
        /\ \A i \in DeliveryIds :
              deliveries[i].msg = m /\ deliveries[i].wire \notin Gone
                  => StatusOf(m) = deliveries[i].wire

LEMMA StatusIs == IInv /\ Exclusive => Told
<1> SUFFICES ASSUME IInv, Exclusive, NEW m \in Messages
             PROVE  /\ (\A i \in DeliveryIds : deliveries[i].msg = m => deliveries[i].wire \in Gone)
                         => StatusOf(m) = "ready"
                    /\ \A i \in DeliveryIds :
                          deliveries[i].msg = m /\ deliveries[i].wire \notin Gone
                              => StatusOf(m) = deliveries[i].wire
  BY DEF Told
<1>1. /\ DOMAIN deliveries = DeliveryIds
      /\ Range(deliveries) = {deliveries[i] : i \in DeliveryIds}
  BY Pieces, LenProperties, RangeEquality DEF Histories, DeliveryIds
<1>2. Ready(m) <=> \A i \in DeliveryIds : deliveries[i].msg = m => deliveries[i].wire \in Gone
  BY <1>1 DEF Ready, Gone
<1>3. ASSUME NEW i \in DeliveryIds, deliveries[i].msg = m, deliveries[i].wire \notin Gone
      PROVE  StatusOf(m) = deliveries[i].wire
  <2> DEFINE Holds(d) == d.msg = m /\ d.wire \notin {"requeued", "dropped"}
  <2>1. deliveries[i] \in Range(deliveries) /\ Holds(deliveries[i])
    BY <1>1, <1>3 DEF Gone
  <2>2. \A d \in Range(deliveries) : Holds(d) => d = deliveries[i]
    BY <1>1, <1>3 DEF Exclusive, Gone
  <2>3. (CHOOSE d \in Range(deliveries) : Holds(d)) = deliveries[i]
    BY <2>1, <2>2
  <2> QED BY <1>2, <1>3, <2>3 DEF StatusOf
<1> QED BY <1>2, <1>3 DEF StatusOf

\* What was asked for a task, read from its attempts.
Asked == \A m \in Messages : AskedOf(m) = {attempts[a].op : a \in
    {b \in AttemptIds : /\ deliveries[attempts[b].delivery].msg = m
                        /\ deliveries[attempts[b].delivery].wire = "unacked"}}

LEMMA AskedIs == IInv => Asked
<1> SUFFICES ASSUME IInv, NEW m \in Messages
             PROVE  AskedOf(m) = {attempts[a].op : a \in
                        {b \in AttemptIds : /\ deliveries[attempts[b].delivery].msg = m
                                            /\ deliveries[attempts[b].delivery].wire = "unacked"}}
  BY DEF Asked
<1>1. DOMAIN deliveries = DeliveryIds /\ DOMAIN attempts = AttemptIds
  BY Pieces, LenProperties DEF Histories, DeliveryIds, AttemptIds
<1>2. \A b \in AttemptIds : attempts[b].delivery \in DeliveryIds
  BY OfType
<1> QED BY <1>1, <1>2 DEF AskedOf, Latest

\* Both, before and after a step.
LEMMA View ==
    ASSUME IInv, Exclusive, IInv', Exclusive'
    PROVE  Told /\ Told' /\ Asked /\ Asked'
BY StatusIs, AskedIs, PTL

-----------------------------------------------------------------------------
(* What a step changes of a task *)

Moves == [Queue!Next]_<<Statuses, Askings>>

\* Deliveries and attempts stay what they are: a task, and what was asked for it.
KeepsTasks ==
    /\ DeliveryIds \subseteq DeliveryIds' /\ AttemptIds \subseteq AttemptIds'
    /\ \A i \in DeliveryIds : deliveries'[i].msg = deliveries[i].msg
    /\ \A a \in AttemptIds : /\ attempts'[a].op = attempts[a].op
                             /\ attempts'[a].delivery = attempts[a].delivery

\* No delivery of m changes its fate and none is made; nothing new is asked for it.
Untouched(m) ==
    /\ \A i \in DeliveryIds : deliveries[i].msg = m => deliveries'[i].wire = deliveries[i].wire
    /\ \A i \in DeliveryIds' \ DeliveryIds : deliveries'[i].msg # m
Unasked(m) ==
    \A a \in AttemptIds' \ AttemptIds :
        ~ /\ deliveries'[attempts'[a].delivery].msg = m
          /\ deliveries'[attempts'[a].delivery].wire = "unacked"

LEMMA SameTask ==
    ASSUME IInv, IInv', Exclusive, Exclusive', KeepsTasks, NEW m \in Messages, Untouched(m)
    PROVE  /\ StatusOf(m)' = StatusOf(m)
           /\ Unasked(m) => AskedOf(m)' = AskedOf(m)
<1>1. Told /\ Told' /\ Asked /\ Asked'
  BY View
<1>2. StatusOf(m)' = StatusOf(m)
  <2>1. CASE \A i \in DeliveryIds : deliveries[i].msg = m => deliveries[i].wire \in Gone
    <3>1. \A i \in DeliveryIds' : deliveries'[i].msg = m => deliveries'[i].wire \in Gone
      BY <2>1 DEF KeepsTasks, Untouched
    <3> QED BY <1>1, <2>1, <3>1 DEF Told
  <2>2. CASE \E i \in DeliveryIds : deliveries[i].msg = m /\ deliveries[i].wire \notin Gone
    <3>1. PICK i \in DeliveryIds : deliveries[i].msg = m /\ deliveries[i].wire \notin Gone
      BY <2>2
    <3>2. /\ i \in DeliveryIds' /\ deliveries'[i].msg = m
          /\ deliveries'[i].wire = deliveries[i].wire
      BY <3>1 DEF KeepsTasks, Untouched
    <3> QED BY <1>1, <3>1, <3>2 DEF Told
  <2> QED BY <2>1, <2>2
<1>3. ASSUME Unasked(m) PROVE AskedOf(m)' = AskedOf(m)
  <2> DEFINE Mine(b) == /\ deliveries[attempts[b].delivery].msg = m
                        /\ deliveries[attempts[b].delivery].wire = "unacked"
             Still(b) == /\ deliveries'[attempts'[b].delivery].msg = m
                         /\ deliveries'[attempts'[b].delivery].wire = "unacked"
  <2>1. \A b \in AttemptIds : attempts[b].delivery \in DeliveryIds
    BY OfType
  <2>2. ASSUME NEW b \in AttemptIds PROVE Still(b) <=> Mine(b)
    BY <2>1 DEF KeepsTasks, Untouched
  <2>3. {b \in AttemptIds' : Still(b)} = {b \in AttemptIds : Mine(b)}
    BY <1>3, <2>2 DEF KeepsTasks, Unasked
  <2>4. \A b \in {c \in AttemptIds : Mine(c)} : attempts'[b].op = attempts[b].op
    BY DEF KeepsTasks
  <2>5. AskedOf(m)' = {attempts'[a].op : a \in {b \in AttemptIds' : Still(b)}}
    BY <1>1 DEF Asked
  <2>6. AskedOf(m) = {attempts[a].op : a \in {b \in AttemptIds : Mine(b)}}
    BY <1>1 DEF Asked
  <2> HIDE DEF Mine, Still
  <2> QED BY <2>3, <2>4, <2>5, <2>6
<1> QED BY <1>2, <1>3

\* Deliveries that are over are never taken up again.
LEMMA StaysExclusive ==
    ASSUME Exclusive, KeepsTasks, DeliveryIds' = DeliveryIds,
           \A i \in DeliveryIds : deliveries'[i].wire \notin Gone => deliveries[i].wire \notin Gone
    PROVE  Exclusive'
BY DEF Exclusive, KeepsTasks

\* A step that neither delivers, settles nor asks is none of TaskQueue.
LEMMA Idles ==
    ASSUME IInv, IInv', Exclusive, KeepsTasks, DeliveryIds' = DeliveryIds,
           \A i \in DeliveryIds : deliveries'[i].wire = deliveries[i].wire,
           \A m \in Messages : Unasked(m)
    PROVE  Exclusive' /\ Moves
<1>1. Exclusive'
  BY StaysExclusive
<1>2. \A m \in Messages : StatusOf(m)' = StatusOf(m) /\ AskedOf(m)' = AskedOf(m)
  BY <1>1, SameTask DEF Untouched
<1> QED BY <1>1, <1>2 DEF Moves, Statuses, Askings

-----------------------------------------------------------------------------
(* Steps that are none of TaskQueue *)

LEMMA Stutters ==
    ASSUME IInv, IInv', Exclusive, UNCHANGED <<deliveries, attempts>>
    PROVE  Exclusive' /\ Moves
<1>1. DeliveryIds' = DeliveryIds /\ AttemptIds' = AttemptIds
  BY DEF DeliveryIds, AttemptIds
<1>2. KeepsTasks /\ \A m \in Messages : Unasked(m)
  BY <1>1 DEF KeepsTasks, Unasked
<1> QED BY <1>1, <1>2, Idles

\* What the loop does with a delivery is nothing to the broker.
LEMMA Handles ==
    ASSUME IInv, IInv', Exclusive, NEW item \in DeliveryIds \cup {Pill},
           NEW app \in {"buffered", "held", "discarded"}, UNCHANGED attempts,
           deliveries' = IF item = Pill THEN deliveries
                         ELSE [deliveries EXCEPT ![item].app = app]
    PROVE  Exclusive' /\ Moves
<1>1. CASE item = Pill
  BY <1>1, Stutters
<1>2. CASE item # Pill
  <2> DEFINE e == [deliveries[item] EXCEPT !.app = app]
  <2>1. item \in DeliveryIds /\ deliveries[item] \in Delivery /\ deliveries \in Seq(Delivery)
    BY <1>2, OfType, Pieces DEF Histories
  <2>2. e \in Delivery /\ e.msg = deliveries[item].msg /\ e.wire = deliveries[item].wire
    BY <2>1 DEF Delivery
  <2>3. deliveries' = [deliveries EXCEPT ![item] = e]
    BY <1>2
  <2> HIDE DEF e
  <2>4. item \in 1..Len(deliveries)
    BY <2>1 DEF DeliveryIds
  <2>5. /\ Len(deliveries') = Len(deliveries)
        /\ \A i \in 1..Len(deliveries) : deliveries'[i] = IF i = item THEN e ELSE deliveries[i]
    BY <2>1, <2>2, <2>3, <2>4, ExceptSeq
  <2>6. DeliveryIds' = DeliveryIds /\ AttemptIds' = AttemptIds
    BY <2>5 DEF DeliveryIds, AttemptIds
  <2>7. /\ KeepsTasks /\ \A m \in Messages : Unasked(m)
        /\ \A i \in DeliveryIds : deliveries'[i].wire = deliveries[i].wire
    BY <2>2, <2>5, <2>6 DEF KeepsTasks, Unasked, DeliveryIds
  <2> QED BY <2>6, <2>7, Idles
<1> QED BY <1>1, <1>2

\* An answer, or the end of a wait, is nothing to the broker either.
LEMMA Answers ==
    ASSUME IInv, IInv', Exclusive, NEW a \in AttemptIds,
           NEW f \in {"cancelled", "done", "failed"},
           attempts' = [attempts EXCEPT ![a].future = f], UNCHANGED <<deliveries, session>>
    PROVE  Exclusive' /\ Moves
<1>1. KeepsHistory /\ SameAttempts /\ AttemptIds' = AttemptIds
  BY OneFuture
<1>2. DeliveryIds' = DeliveryIds
  BY DEF DeliveryIds
<1>3. KeepsTasks /\ \A m \in Messages : Unasked(m)
  BY <1>1, <1>2 DEF KeepsTasks, Unasked, KeepsHistory, SameAttempts
<1> QED BY <1>2, <1>3, Idles

LEMMA RunCallbackMoves ==
    ASSUME IInv, IInv', Exclusive, RunCallback, LoopFrame PROVE Exclusive' /\ Moves
<1> DEFINE c == Head(callbacks)
<1>1. c \in CallbackIds
  BY HeadTailProperties DEF RunCallback, IInv, Linked, Scheduled
<1>2. CASE /\ c.call = "put" /\ UNCHANGED attempts
           /\ deliveries' = IF c.item = Pill THEN deliveries
                            ELSE [deliveries EXCEPT ![c.item].app = "buffered"]
  <2>1. c.item \in DeliveryIds \cup {Pill}
    BY <1>1, <1>2 DEF CallbackIds
  <2> QED BY <1>2, <2>1, Handles
<1>3. CASE /\ c.call = "complete" /\ UNCHANGED deliveries
           /\ attempts' = IF attempts[c.attempt].future # "pending" THEN attempts
                          ELSE [attempts EXCEPT ![c.attempt].future =
                                   IF c.ok THEN "done" ELSE "failed"]
  <2>1. c.attempt \in AttemptIds
    BY <1>1, <1>3 DEF CallbackIds
  <2>2. UNCHANGED session
    BY DEF LoopFrame
  <2>3. CASE attempts' = attempts
    BY <1>3, <2>3, Stutters
  <2>4. CASE \E f \in {"done", "failed"} : attempts' = [attempts EXCEPT ![c.attempt].future = f]
    BY <1>3, <2>1, <2>2, <2>4, Answers
  <2> QED BY <1>3, <2>3, <2>4
<1> QED BY <1>2, <1>3 DEF RunCallback

LEMMA ReceiveMoves ==
    ASSUME IInv, IInv', Exclusive, NEW r \in Readers, Receive(r) PROVE Exclusive' /\ Moves
<1> DEFINE item == Head(messages[reader[r]])
<1>1. item \in DeliveryIds \cup {Pill}
  <2>1. reader[r] \in Queues /\ messages[reader[r]] # <<>>
    BY Pieces DEF Receive, Numbers
  <2>2. messages[reader[r]] \in Seq(DeliveryIds \cup {Pill})
    BY <2>1 DEF IInv, Linked, Buffered
  <2> QED BY <2>1, <2>2, HeadTailProperties
<1>2. CASE UNCHANGED <<deliveries, attempts>>
  BY <1>2, Stutters
<1>3. CASE /\ item # Pill /\ UNCHANGED attempts
           /\ \E app \in {"held", "discarded"} :
                 deliveries' = [deliveries EXCEPT ![item].app = app]
  BY <1>1, <1>3, Handles
<1> QED BY <1>2, <1>3 DEF Receive

-----------------------------------------------------------------------------
(* Deliver, Settle, Return and Ask *)

\* A delivery takes a task that no other delivery holds.
LEMMA DrainMoves ==
    ASSUME IInv, IInv', Exclusive, NEW m \in Messages, Drain(m), ThreadFrame
    PROVE  Exclusive' /\ Moves
<1>1. /\ deliveries \in Seq(Delivery) /\ session \in Sessions
      /\ UNCHANGED attempts /\ deliveries' = Append(deliveries, Arrival(m))
  BY Pieces DEF Drain, ThreadFrame, Control, Connected, Histories
<1>2. PICK n \in Nat : n = Len(deliveries) + 1
  BY Pieces
<1>3. /\ DeliveryIds' = DeliveryIds \cup {n} /\ n \notin DeliveryIds
      /\ \A i \in DeliveryIds : deliveries'[i] = deliveries[i]
      /\ deliveries'[n] = Arrival(m)
  <2>1. Arrival(m) \in Delivery
    BY <1>1 DEF Arrival, Delivery
  <2>2. /\ Len(deliveries') = n /\ deliveries'[n] = Arrival(m)
        /\ \A i \in 1..Len(deliveries) : deliveries'[i] = deliveries[i]
    BY <1>1, <1>2, <2>1, AppendProperties
  <2> QED BY <1>2, <2>2, Pieces DEF DeliveryIds
<1>4. Arrival(m).msg = m /\ Arrival(m).wire = "unacked"
  BY DEF Arrival
<1>5. \A i \in DeliveryIds : deliveries[i].msg = m => deliveries[i].wire \in Gone
  <2>1. DOMAIN deliveries = DeliveryIds
    BY <1>1, LenProperties DEF DeliveryIds
  <2> QED BY <2>1 DEF Drain, Ready, Gone
<1>6. KeepsTasks /\ AttemptIds' = AttemptIds
  BY <1>1, <1>3 DEF KeepsTasks, AttemptIds
<1>7. Exclusive'
  BY <1>3, <1>4, <1>5 DEF Exclusive
<1>8. Told /\ Told' /\ Asked /\ Asked'
  BY <1>7, View
<1>9. StatusOf(m) = "ready" /\ StatusOf(m)' = "unacked"
  <2>1. n \in DeliveryIds' /\ deliveries'[n].msg = m /\ deliveries'[n].wire \notin Gone
    BY <1>3, <1>4 DEF Gone
  <2> QED BY <1>3, <1>4, <1>5, <1>8, <2>1 DEF Told
<1>10. AskedOf(m) = {} /\ AskedOf(m)' = {}
  <2>1. \A a \in AttemptIds : attempts[a].delivery \in DeliveryIds
    BY OfType
  <2>2. ASSUME NEW a \in AttemptIds
        PROVE  /\ ~(deliveries[attempts[a].delivery].msg = m
                    /\ deliveries[attempts[a].delivery].wire = "unacked")
               /\ ~(deliveries'[attempts'[a].delivery].msg = m
                    /\ deliveries'[attempts'[a].delivery].wire = "unacked")
    BY <1>1, <1>3, <1>5, <2>1 DEF Gone
  <2> QED BY <1>6, <1>8, <2>2 DEF Asked
<1>11. ASSUME NEW k \in Messages, k # m
       PROVE  StatusOf(k)' = StatusOf(k) /\ AskedOf(k)' = AskedOf(k)
  <2>1. Untouched(k) /\ Unasked(k)
    BY <1>3, <1>4, <1>6, <1>11 DEF Untouched, Unasked
  <2> QED BY <1>6, <1>7, <2>1, SameTask
<1>12. Statuses' = [Statuses EXCEPT ![m] = "unacked"] /\ Askings' = Askings
  BY <1>9, <1>10, <1>11 DEF Statuses, Askings
<1>13. Queue!Deliver(m)
  BY <1>9, <1>12 DEF Queue!Deliver, Statuses, Askings
<1> QED BY <1>7, <1>13 DEF Moves, Queue!Next

\* The action that runs was asked for on the delivery that holds its task.
LEMMA ExecuteActionMoves ==
    ASSUME IInv, IInv', Exclusive, ExecuteAction, ThreadFrame
    PROVE  Exclusive' /\ Moves
<1> DEFINE op == attempts[inhand].op
<1>1. PICK d \in DeliveryIds : d = attempts[inhand].delivery
  BY OfType DEF ExecuteAction, Control, IInv, Linked, InHand, AttemptsOf
<1>2. /\ inhand \in AttemptIds /\ op \in Outcomes /\ UNCHANGED attempts
      /\ deliveries[d].wire = "unacked" /\ deliveries' = [deliveries EXCEPT ![d].wire = op]
      /\ deliveries[d] \in Delivery /\ deliveries \in Seq(Delivery) /\ d \in 1..Len(deliveries)
  <2>1. inhand \in AttemptIds
    BY DEF ExecuteAction, Control, IInv, Linked, InHand, AttemptsOf
  <2> QED BY <1>1, <2>1, OfType, Pieces DEF ExecuteAction, ThreadFrame, Histories, DeliveryIds
<1>3. PICK e \in Delivery : /\ deliveries' = [deliveries EXCEPT ![d] = e]
                            /\ e.msg = deliveries[d].msg /\ e.wire = op
  <2> DEFINE r == [deliveries[d] EXCEPT !.wire = op]
  <2>1. r \in Delivery /\ r.msg = deliveries[d].msg /\ r.wire = op
    BY <1>2 DEF Delivery
  <2> QED BY <1>2, <2>1
<1>4. /\ DeliveryIds' = DeliveryIds /\ AttemptIds' = AttemptIds
      /\ \A i \in DeliveryIds : deliveries'[i] = IF i = d THEN e ELSE deliveries[i]
  BY <1>2, <1>3, ExceptSeq DEF DeliveryIds, AttemptIds
<1>5. PICK m \in Messages : m = deliveries[d].msg
  BY <1>2 DEF Delivery
<1> HIDE DEF op
<1>6. KeepsTasks /\ \A k \in Messages : Unasked(k)
  BY <1>2, <1>3, <1>4 DEF KeepsTasks, Unasked
<1>7. Exclusive'
  <2>1. \A i \in DeliveryIds : deliveries'[i].wire \notin Gone => deliveries[i].wire \notin Gone
    BY <1>2, <1>4 DEF Gone
  <2> QED BY <1>4, <1>6, <2>1, StaysExclusive
<1>8. Told /\ Told' /\ Asked /\ Asked'
  BY <1>7, View
<1>9. \A i \in DeliveryIds : i # d /\ deliveries[i].msg = m => deliveries[i].wire \in Gone
  BY <1>2, <1>5 DEF Exclusive, Gone
<1>10. StatusOf(m) = "unacked" /\ op \in AskedOf(m)
  BY <1>1, <1>2, <1>5, <1>8 DEF Told, Asked, Gone, op
<1>11. StatusOf(m)' = IF op = "requeued" THEN "ready" ELSE op
  <2>1. deliveries'[d].msg = m /\ deliveries'[d].wire = op
    BY <1>3, <1>4, <1>5
  <2>2. CASE op = "requeued"
    BY <1>4, <1>8, <1>9, <2>1, <2>2 DEF Told, Gone
  <2>3. CASE op # "requeued"
    BY <1>2, <1>4, <1>8, <2>1, <2>3 DEF Told, Gone, Outcomes
  <2> QED BY <2>2, <2>3
<1>12. AskedOf(m)' = {}
  <2>1. \A i \in DeliveryIds : deliveries'[i].msg = m => deliveries'[i].wire # "unacked"
    BY <1>2, <1>3, <1>4, <1>9 DEF Outcomes, Gone
  <2>2. \A a \in AttemptIds' : attempts'[a].delivery \in DeliveryIds
    BY <1>2, <1>4, OfType
  <2> QED BY <1>8, <2>1, <2>2 DEF Asked
<1>13. ASSUME NEW k \in Messages, k # m
       PROVE  StatusOf(k)' = StatusOf(k) /\ AskedOf(k)' = AskedOf(k)
  <2>1. Untouched(k)
    BY <1>4, <1>5, <1>13 DEF Untouched
  <2> QED BY <1>6, <1>7, <2>1, SameTask
<1>14. /\ Statuses' = [Statuses EXCEPT ![m] = IF op = "requeued" THEN "ready" ELSE op]
       /\ Askings' = [Askings EXCEPT ![m] = {}]
  BY <1>11, <1>12, <1>13 DEF Statuses, Askings
<1>15. Queue!Settle(m, op) /\ op \in Queue!Settlements
  BY <1>2, <1>10, <1>14 DEF Queue!Settle, Queue!Settlements, Statuses, Askings, Outcomes
<1> QED BY <1>7, <1>15 DEF Moves, Queue!Next

\* The end of a connection returns the tasks it held, and voids what was asked.
LEMMA EndConnectionMoves ==
    ASSUME IInv, IInv', Exclusive, EndConnection, UNCHANGED attempts
    PROVE  Exclusive' /\ Moves
<1> DEFINE S == {m \in Messages : \E i \in Unacked(session) : deliveries[i].msg = m}
<1>1. DOMAIN deliveries = DeliveryIds /\ Len(deliveries) \in Nat
  BY Pieces, LenProperties DEF Histories, DeliveryIds
<1>2. \A i \in DeliveryIds : deliveries[i] \in Delivery
  BY OfType
<1>3. Unacked(session) = {i \in DeliveryIds : deliveries[i].session = session
                                              /\ deliveries[i].wire = "unacked"}
  BY <1>1 DEF Unacked
<1>4. ASSUME NEW i \in DeliveryIds
      PROVE  /\ deliveries'[i].msg = deliveries[i].msg
             /\ i \in Unacked(session) => deliveries'[i].wire = "dropped"
             /\ i \notin Unacked(session) => deliveries'[i].wire = deliveries[i].wire
  BY <1>2 DEF EndConnection, Delivery, DeliveryIds
<1>5. DeliveryIds' = DeliveryIds /\ AttemptIds' = AttemptIds
  BY <1>1 DEF EndConnection, DeliveryIds, AttemptIds
<1>6. KeepsTasks /\ \A m \in Messages : Unasked(m)
  BY <1>4, <1>5 DEF KeepsTasks, Unasked
<1>7. Exclusive'
  <2>1. \A i \in DeliveryIds : deliveries'[i].wire \notin Gone => deliveries[i].wire \notin Gone
    BY <1>4 DEF Gone
  <2> QED BY <1>5, <1>6, <2>1, StaysExclusive
<1>8. Told /\ Told' /\ Asked /\ Asked'
  BY <1>7, View
<1>9. ASSUME NEW m \in S
      PROVE  /\ StatusOf(m) = "unacked" /\ StatusOf(m)' = "ready"
             /\ AskedOf(m)' = {}
  <2>1. PICK i \in Unacked(session) : deliveries[i].msg = m
    OBVIOUS
  <2>2. i \in DeliveryIds /\ deliveries[i].wire = "unacked"
    BY <1>3
  <2>3. StatusOf(m) = "unacked"
    BY <1>8, <2>1, <2>2 DEF Told, Gone
  <2>4. \A j \in DeliveryIds' : deliveries'[j].msg = m => deliveries'[j].wire \in Gone
    <3>1. ASSUME NEW j \in DeliveryIds, deliveries[j].msg = m
          PROVE  deliveries'[j].wire \in Gone
      <4>1. CASE j = i
        BY <1>4, <2>1, <4>1 DEF Gone
      <4>2. CASE j # i
        <5>1. deliveries[j].wire \in Gone
          BY <2>1, <2>2, <3>1, <4>2 DEF Exclusive, Gone
        <5>2. j \notin Unacked(session)
          BY <1>3, <5>1 DEF Gone
        <5> QED BY <1>4, <5>1, <5>2
      <4> QED BY <4>1, <4>2
    <3> QED BY <1>4, <1>5, <3>1
  <2>5. StatusOf(m)' = "ready"
    BY <1>8, <2>4 DEF Told
  <2>6. AskedOf(m)' = {}
    <3>1. \A a \in AttemptIds' : attempts'[a].delivery \in DeliveryIds'
      BY <1>5, OfType
    <3> QED BY <1>8, <2>4, <3>1 DEF Asked, Gone
  <2> QED BY <2>3, <2>5, <2>6
<1>10. ASSUME NEW m \in Messages \ S
       PROVE  StatusOf(m)' = StatusOf(m) /\ AskedOf(m)' = AskedOf(m)
  <2>1. Untouched(m)
    BY <1>4, <1>5 DEF Untouched
  <2> QED BY <1>6, <1>7, <2>1, SameTask
<1> HIDE DEF S
<1>11. S \subseteq Messages
  BY DEF S
<1>12. /\ Statuses' = [m \in Messages |-> IF m \in S THEN "ready" ELSE Statuses[m]]
       /\ Askings' = [m \in Messages |-> IF m \in S THEN {} ELSE Askings[m]]
  BY <1>9, <1>10, <1>11 DEF Statuses, Askings
<1>13. Queue!Return(S)
  BY <1>9, <1>11, <1>12 DEF Queue!Return, Statuses, Askings
<1> QED BY <1>7, <1>11, <1>13 DEF Moves, Queue!Next

\* What is asked on a delivery the broker still holds is asked for its task; on one
\* that is over, it is nothing.
LEMMA SettleMoves ==
    ASSUME IInv, IInv', Exclusive, NEW d \in DeliveryIds, NEW op \in Operations, Settle(d, op)
    PROVE  Exclusive' /\ Moves
<1>1. /\ deliveries' = deliveries /\ op \in Outcomes /\ attempts \in Seq(Attempt)
      /\ deliveries[d] \in Delivery
  BY ApplicationAssumption, Pieces, OfType DEF Settle, Outcomes, Histories
<1>2. PICK n \in Nat : n = Len(attempts) + 1
  BY Pieces
<1>3. PICK e \in Attempt : e.delivery = d /\ e.op = op /\ attempts' = Append(attempts, e)
  <2>1. PICK f \in {"pending", "failed"} :
            attempts' = Append(attempts, [delivery |-> d, op |-> op, future |-> f])
    BY DEF Settle
  <2>2. [delivery |-> d, op |-> op, future |-> f] \in Attempt
    BY <1>1, Pieces DEF Attempt, DeliveryIds
  <2> QED BY <2>1, <2>2
<1>4. /\ AttemptIds' = AttemptIds \cup {n} /\ n \notin AttemptIds /\ attempts'[n] = e
      /\ \A a \in AttemptIds : attempts'[a] = attempts[a]
  <2>1. /\ Len(attempts') = n /\ attempts'[n] = e
        /\ \A a \in 1..Len(attempts) : attempts'[a] = attempts[a]
    BY <1>1, <1>2, <1>3, AppendProperties
  <2> QED BY <1>2, <2>1, Pieces DEF AttemptIds
<1>5. DeliveryIds' = DeliveryIds
  BY <1>1 DEF DeliveryIds
<1>6. KeepsTasks
  BY <1>1, <1>4, <1>5 DEF KeepsTasks
<1>7. Exclusive'
  BY <1>1, <1>5 DEF Exclusive
<1>8. Told /\ Told' /\ Asked /\ Asked'
  BY <1>7, View
<1>9. PICK m \in Messages : m = deliveries[d].msg
  BY <1>1 DEF Delivery
<1>10. CASE deliveries[d].wire # "unacked"
  <2>1. \A k \in Messages : Unasked(k)
    BY <1>1, <1>3, <1>4, <1>10 DEF Unasked
  <2> QED BY <1>1, <1>5, <1>6, <2>1, Idles
<1>11. CASE deliveries[d].wire = "unacked"
  <2>1. StatusOf(m) = "unacked"
    BY <1>8, <1>9, <1>11 DEF Told, Gone
  <2>2. \A k \in Messages : StatusOf(k)' = StatusOf(k)
    BY <1>1, <1>5, <1>6, <1>7, SameTask DEF Untouched
  <2>3. ASSUME NEW k \in Messages, k # m PROVE AskedOf(k)' = AskedOf(k)
    <3>1. Untouched(k) /\ Unasked(k)
      BY <1>1, <1>3, <1>4, <1>5, <1>9, <2>3 DEF Untouched, Unasked
    <3> QED BY <1>6, <1>7, <3>1, SameTask
  <2>4. AskedOf(m)' = AskedOf(m) \cup {op}
    <3> DEFINE Mine(b) == /\ deliveries[attempts[b].delivery].msg = m
                          /\ deliveries[attempts[b].delivery].wire = "unacked"
               Still(b) == /\ deliveries[attempts'[b].delivery].msg = m
                           /\ deliveries[attempts'[b].delivery].wire = "unacked"
    <3>1. AskedOf(m) = {attempts[a].op : a \in {b \in AttemptIds : Mine(b)}}
      BY <1>8 DEF Asked
    <3>2. AskedOf(m)' = {attempts'[a].op : a \in {b \in AttemptIds' : Still(b)}}
      BY <1>1, <1>8 DEF Asked
    <3>3. /\ \A b \in AttemptIds : Still(b) <=> Mine(b)
          /\ Still(n)
      BY <1>3, <1>4, <1>9, <1>11
    <3> HIDE DEF Mine, Still
    <3>4. {b \in AttemptIds' : Still(b)} = {b \in AttemptIds : Mine(b)} \cup {n}
      BY <1>4, <3>3
    <3>5. \A a \in {b \in AttemptIds : Mine(b)} : attempts'[a].op = attempts[a].op
      BY <1>4
    <3>6. attempts'[n].op = op
      BY <1>3, <1>4
    <3> QED BY <3>1, <3>2, <3>4, <3>5, <3>6
  <2>5. Statuses' = Statuses /\ Askings' = [Askings EXCEPT ![m] = @ \cup {op}]
    BY <2>2, <2>3, <2>4 DEF Statuses, Askings
  <2>6. Queue!Ask(m, op) /\ op \in Queue!Settlements
    BY <1>1, <2>1, <2>5 DEF Queue!Ask, Queue!Settlements, Statuses, Askings, Outcomes
  <2> QED BY <1>7, <2>6 DEF Moves, Queue!Next
<1> QED BY <1>10, <1>11

-----------------------------------------------------------------------------
(* The theorem *)

LEMMA EveryStepMoves == IInv /\ Exclusive /\ [Next]_vars => Exclusive' /\ Moves
<1> SUFFICES ASSUME IInv, Exclusive, [Next]_vars PROVE Exclusive' /\ Moves
  OBVIOUS
<1>1. IInv'
  BY Preserved
<1>2. CASE UNCHANGED <<deliveries, attempts>>
  BY <1>1, <1>2, Stutters
<1>3. CASE ThreadNext
  <2>1. UNCHANGED attempts
    BY <1>3 DEF ThreadNext, ThreadFrame
  <2>2. \/ UNCHANGED deliveries \/ ExecuteAction \/ EndConnection
        \/ \E m \in Messages : Drain(m)
    BY <1>3 DEF ThreadNext, ThreadStep, Top, Connect, Open, MarkConsuming, Loop, PopAction,
                ActionsDone, ActionRaises, ClearFlag, Qos, KeepPrefetch, DrainEnds, Recover,
                Finally, Disconnect, Wait, Exit, Move, wire
  <2> QED BY <1>1, <1>2, <1>3, <2>1, <2>2, DrainMoves, ExecuteActionMoves, EndConnectionMoves
          DEF ThreadNext
<1>4. CASE ThreadFails
  <2>1. UNCHANGED <<deliveries, attempts>>
    BY <1>4 DEF ThreadFails, ThreadFrame, FactoryFails, ConsumeFails
  <2> QED BY <1>2, <2>1
<1>5. CASE LoopProgress
  <2>1. (RunCallback /\ LoopFrame) \/ UNCHANGED <<deliveries, attempts>>
    BY <1>5 DEF LoopProgress, StartResumes, Joined, StopCloses, RaiseFlag
  <2> QED BY <1>1, <1>2, <2>1, RunCallbackMoves
<1>6. CASE \E r \in Readers : ReaderNext(r)
  BY <1>1, <1>6, ReceiveMoves DEF ReaderNext
<1>7. CASE LoopCalls
  <2>1. DOMAIN deliveries = DeliveryIds /\ DOMAIN attempts = AttemptIds
    BY Pieces, LenProperties DEF Histories, DeliveryIds, AttemptIds
  <2>2. \/ UNCHANGED <<deliveries, attempts>>
        \/ \E d \in DeliveryIds, op \in Operations : Settle(d, op)
        \/ \E a \in AttemptIds : Cancel(a) /\ LoopFrame
    BY <1>7, <2>1 DEF LoopCalls, Start, Stop, RaisePrefetch, Get
  <2>3. ASSUME NEW a \in AttemptIds, Cancel(a), LoopFrame PROVE Exclusive' /\ Moves
    BY <1>1, <2>3, Answers DEF Cancel, LoopFrame
  <2> QED BY <1>1, <1>2, <2>2, <2>3, SettleMoves
<1>8. CASE Drop
  BY <1>1, <1>8, EndConnectionMoves DEF Drop
<1>9. CASE UNCHANGED vars
  BY <1>2, <1>9 DEF vars, wire
<1> QED BY <1>3, <1>4, <1>5, <1>6, <1>7, <1>8, <1>9 DEF Next

\* Whatever connections, threads and cancellations do, a task leaves the broker only
\* by a settlement asked for on the delivery that holds it, and what a connection
\* held when it ended is in the queue again (bridge.py and session.py as a whole).
THEOREM BridgeIsAQueue == Spec => ImplementsQueue
<1>1. Init => Exclusive /\ Queue!Init
  <2> SUFFICES ASSUME Init PROVE Exclusive /\ Queue!Init
    OBVIOUS
  <2>1. DeliveryIds = {} /\ DOMAIN deliveries = {} /\ DOMAIN attempts = {}
    BY DEF Init, DeliveryIds
  <2>2. \A m \in Messages : StatusOf(m) = "ready" /\ AskedOf(m) = {}
    BY <2>1 DEF StatusOf, AskedOf, Ready
  <2> QED BY <2>1, <2>2 DEF Exclusive, Queue!Init
<1>2. IInv /\ Exclusive /\ [Next]_vars
          => Exclusive' /\ [Queue!Next]_<<[m \in Messages |-> StatusOf(m)],
                                          [m \in Messages |-> AskedOf(m)]>>
  BY EveryStepMoves DEF Moves, Statuses, Askings
<1> QED BY Initially, Preserved, <1>1, <1>2, PTL DEF Spec, ImplementsQueue, Queue!Spec
=============================================================================
