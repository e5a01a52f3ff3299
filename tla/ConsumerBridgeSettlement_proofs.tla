------------------- MODULE ConsumerBridgeSettlement_proofs -------------------
(***************************************************************************)
(* ConsumerBridge: every state has its type, a settlement stays with the   *)
(* connection of its delivery, and no widening of the prefetch window is   *)
(* lost, for every value of the constants.  The numbers that stand for     *)
(* deliveries and attempts are linked to the histories they index, and the *)
(* histories only grow.                                                    *)
(***************************************************************************)
EXTENDS ConsumerBridge, SequenceTheorems, TLAPS

-----------------------------------------------------------------------------
(* The inductive invariant *)

DeliveryIds == 1..Len(deliveries)
AttemptIds == 1..Len(attempts)
AttemptsOf(s) == {a \in AttemptIds : SessionOf(a) = s}
CallbackIds == [call : {"put"}, queue : Queues, item : DeliveryIds \cup {Pill}]
                 \cup [call : {"complete"}, attempt : AttemptIds, ok : BOOLEAN]

\* What each number points to: an attempt at its delivery, an action at an attempt
\* on a delivery of its own session, a callback and a queued item at theirs.
Pointers == \A a \in AttemptIds : attempts[a].delivery \in DeliveryIds
Queued == \A s \in Sessions : actions[s] \in Seq(AttemptsOf(s))
Scheduled == callbacks \in Seq(CallbackIds)
Buffered == \A q \in Queues : messages[q] \in Seq(DeliveryIds \cup {Pill})
InHand == inhand # 0 => inhand \in AttemptsOf(session)
Linked == Pointers /\ Queued /\ Scheduled /\ Buffered /\ InHand

\* Where the thread is: with a session, with an action in hand, or nowhere.
Connected == {"open", "mark", "loop", "run", "exec", "prefetch", "qos", "drain", "lost",
              "finally", "disconnect"}
Control ==
    /\ pc \in Connected => session # 0
    /\ pc = "exec" <=> inhand # 0
    /\ ~thread => pc \in {"none", "dead"}

IInv == TypeOK /\ Linked /\ Control

\* The conjuncts of TypeOK, apart: flags, where things are, and the data.
Flags ==
    /\ failing \in BOOLEAN /\ stopEvent \in BOOLEAN /\ started \in BOOLEAN
    /\ prefetchChanged \in BOOLEAN /\ consuming \in BOOLEAN /\ error \in BOOLEAN
    /\ thread \in BOOLEAN /\ raising \in BOOLEAN /\ up \in BOOLEAN
Places ==
    /\ pc \in Points /\ patience \in {"short", "long"}
    /\ starting \in {"idle", "waiting", "joining"}
    /\ stopping \in {"idle", "closing", "joining"}
Numbers ==
    /\ inhand \in Nat /\ prefetch \in Nat /\ session \in 0..MaxSessions /\ queue \in Queues
    /\ window \in Nat /\ faults \in Nat
    /\ unsettled \in [Sessions -> Nat]
    /\ reader \in [Readers -> Queues \cup {0}]
Tables ==
    /\ closed \in [Sessions -> BOOLEAN]
    /\ actions \in [Sessions -> Seq(Nat)]
    /\ messages \in [Queues -> Seq(Nat)]
    /\ callbacks \in Seq(Callback)
Histories == attempts \in Seq(Attempt) /\ deliveries \in Seq(Delivery)

\* TypeOK, taken apart.
LEMMA TypeParts == TypeOK <=> Flags /\ Places /\ Numbers /\ Tables /\ Histories
BY DEF TypeOK, Flags, Places, Numbers, Tables, Histories

\* The histories only grow, and what they say of a number stays.
KeepsHistory ==
    /\ Len(deliveries) <= Len(deliveries') /\ Len(attempts) <= Len(attempts')
    /\ \A i \in DeliveryIds : deliveries'[i].session = deliveries[i].session
    /\ \A a \in AttemptIds : attempts'[a].delivery = attempts[a].delivery

\* So a number that pointed somewhere still does, and a session keeps its attempts.
LEMMA Growth ==
    ASSUME IInv, Histories', KeepsHistory
    PROVE  /\ DeliveryIds \subseteq DeliveryIds' /\ AttemptIds \subseteq AttemptIds'
           /\ CallbackIds \subseteq CallbackIds'
           /\ \A s \in Sessions : AttemptsOf(s) \subseteq AttemptsOf(s)'
           /\ \A a \in AttemptIds : attempts'[a].delivery \in DeliveryIds'
<1>0. Histories
  BY TypeParts DEF IInv
<1>1. /\ Len(deliveries) \in Nat /\ Len(deliveries') \in Nat
      /\ Len(attempts) \in Nat /\ Len(attempts') \in Nat
  BY <1>0, LenProperties DEF Histories
<1>2. DeliveryIds \subseteq DeliveryIds' /\ AttemptIds \subseteq AttemptIds'
  BY <1>1 DEF KeepsHistory, DeliveryIds, AttemptIds
<1>3. CallbackIds \subseteq CallbackIds'
  BY <1>2 DEF CallbackIds
<1>4. \A a \in AttemptIds : attempts'[a].delivery \in DeliveryIds'
  BY <1>2 DEF KeepsHistory, IInv, Linked, Pointers
<1>5. \A a \in AttemptIds : SessionOf(a)' = SessionOf(a)
  BY DEF KeepsHistory, IInv, Linked, Pointers, SessionOf
<1>6. \A s \in Sessions : AttemptsOf(s) \subseteq AttemptsOf(s)'
  BY <1>2, <1>5 DEF AttemptsOf
<1> QED BY <1>2, <1>3, <1>4, <1>6

\* What a step that only adds to the histories leaves alone stays linked.
LEMMA LinksKept ==
    ASSUME IInv, Histories', KeepsHistory
    PROVE  /\ Len(attempts') = Len(attempts) => Pointers'
           /\ actions' = actions => Queued'
           /\ callbacks' = callbacks => Scheduled'
           /\ messages' = messages => Buffered'
           /\ inhand' = inhand /\ session' = session => InHand'
<1> USE Growth DEF IInv, Linked
<1>1. Len(attempts') = Len(attempts) => Pointers'
  BY DEF Pointers, AttemptIds
<1>2. ASSUME actions' = actions PROVE Queued'
  BY <1>2, SeqMonotonic DEF Queued
<1>3. ASSUME callbacks' = callbacks PROVE Scheduled'
  BY <1>3, SeqMonotonic DEF Scheduled
<1>4. ASSUME messages' = messages PROVE Buffered'
  <2>1. DeliveryIds \cup {Pill} \subseteq (DeliveryIds \cup {Pill})'
    OBVIOUS
  <2> QED BY <1>4, <2>1, SeqMonotonic DEF Buffered
<1>5. ASSUME inhand' = inhand, session' = session PROVE InHand'
  <2>1. CASE inhand = 0
    BY <1>5, <2>1 DEF InHand
  <2>2. CASE inhand # 0
    <3>1. inhand \in AttemptsOf(session)
      BY <2>2 DEF InHand
    <3>2. inhand \in AttemptIds' /\ SessionOf(inhand)' = SessionOf(inhand)
      BY <3>1, <1>5 DEF AttemptsOf, KeepsHistory, SessionOf, Pointers
    <3> QED BY <3>1, <3>2, <1>5 DEF InHand, AttemptsOf
  <2> QED BY <2>1, <2>2
<1> QED BY <1>1, <1>2, <1>3, <1>4, <1>5

\* Tables and queues that are linked to the histories have their types.
LEMMA LinkedTables ==
    ASSUME Histories', Linked', closed' \in [Sessions -> BOOLEAN],
           actions' = [s \in Sessions |-> actions'[s]],
           messages' = [q \in Queues |-> messages'[q]]
    PROVE  Tables'
<1>0. Len(deliveries') \in Nat /\ Len(attempts') \in Nat
  BY LenProperties DEF Histories
<1>1. DeliveryIds' \cup {Pill} \subseteq Nat /\ AttemptIds' \subseteq Nat
  BY <1>0 DEF DeliveryIds, AttemptIds, Pill
<1>2. callbacks' \in Seq(Callback)
  <2>1. CallbackIds' \subseteq Callback
    BY <1>1 DEF CallbackIds, Callback
  <2> QED BY <2>1, SeqMonotonic DEF Linked, Scheduled
<1>3. \A s \in Sessions : actions'[s] \in Seq(Nat)
  <2>1. \A s \in Sessions : AttemptsOf(s)' \subseteq Nat
    BY <1>1 DEF AttemptsOf
  <2> QED BY <2>1, SeqMonotonic DEF Linked, Queued
<1>4. \A q \in Queues : messages'[q] \in Seq(Nat)
  BY <1>1, SeqMonotonic DEF Linked, Buffered
<1>5. actions' \in [Sessions -> Seq(Nat)]
  BY <1>3
<1>6. messages' \in [Queues -> Seq(Nat)]
  BY <1>4
<1> QED BY <1>2, <1>5, <1>6 DEF Tables

\* Closing a session empties its queue and schedules as many completions.
LEMMA ClosesSession ==
    ASSUME IInv, NEW s \in Sessions, CloseSession(s), UNCHANGED <<attempts, deliveries>>
    PROVE  /\ closed' \in [Sessions -> BOOLEAN] /\ actions' = [t \in Sessions |-> actions'[t]]
           /\ Queued' /\ Scheduled'
<1>0. /\ closed \in [Sessions -> BOOLEAN] /\ actions \in [Sessions -> Seq(Nat)]
      /\ actions[s] \in Seq(AttemptsOf(s)) /\ callbacks \in Seq(CallbackIds)
  BY TypeParts DEF IInv, Tables, Linked, Queued, Scheduled
<1>1. closed' \in [Sessions -> BOOLEAN]
  BY <1>0 DEF CloseSession
<1>2. actions' = [t \in Sessions |-> actions'[t]]
  BY <1>0 DEF CloseSession
<1>3. AttemptIds' = AttemptIds /\ CallbackIds' = CallbackIds
      /\ \A t \in Sessions : AttemptsOf(t)' = AttemptsOf(t)
  BY DEF AttemptIds, DeliveryIds, CallbackIds, AttemptsOf, SessionOf
<1>4. Queued'
  <2>1. \A t \in Sessions : actions'[t] = IF t = s THEN <<>> ELSE actions[t]
    BY <1>0 DEF CloseSession
  <2> QED BY <2>1, <1>3, EmptySeq DEF IInv, Linked, Queued
<1>5. FailQueued(s) \in Seq(CallbackIds)
  <2>1. Len(actions[s]) \in Nat /\ \A i \in 1..Len(actions[s]) : actions[s][i] \in AttemptIds
    BY <1>0, LenProperties, ElementOfSeq DEF AttemptsOf
  <2>2. \A i \in 1..Len(actions[s]) : Completion(actions[s][i], FALSE) \in CallbackIds
    BY <2>1 DEF Completion, CallbackIds
  <2> DEFINE n == Len(actions[s])
  <2>3. [i \in 1..n |-> Completion(actions[s][i], FALSE)] \in [1..n -> CallbackIds]
    BY <2>2
  <2> QED BY <2>1, <2>3, SeqDef DEF FailQueued
<1>6. Scheduled'
  BY <1>0, <1>3, <1>5, ConcatProperties DEF CloseSession, Scheduled
<1> QED BY <1>1, <1>2, <1>4, <1>6

\* The end of a connection changes the fate of deliveries, never their session.
LEMMA EndsConnection ==
    ASSUME IInv, EndConnection, UNCHANGED attempts
    PROVE  Histories' /\ KeepsHistory
<1>0. Histories
  BY TypeParts DEF IInv
<1>1. Len(deliveries) \in Nat /\ Len(attempts) \in Nat
  BY <1>0, LenProperties DEF Histories
<1>2. ASSUME NEW i \in 1..Len(deliveries)
      PROVE  /\ deliveries'[i] \in Delivery
             /\ deliveries'[i].session = deliveries[i].session
  <2>1. deliveries[i] \in Delivery
    BY <1>0, ElementOfSeq DEF Histories
  <2> QED BY <2>1 DEF EndConnection, Delivery
<1>3. deliveries' \in Seq(Delivery) /\ Len(deliveries') = Len(deliveries)
  BY <1>1, <1>2, SeqDef DEF EndConnection
<1> QED BY <1>0, <1>1, <1>2, <1>3 DEF Histories, KeepsHistory, DeliveryIds

\* A step that changes no flag keeps their types.
LEMMA FlagsKept ==
    ASSUME Flags, UNCHANGED <<failing, stopEvent, started, prefetchChanged, consuming, error,
                              thread, raising, up>>
    PROVE  Flags'
BY Zenon DEF Flags

-----------------------------------------------------------------------------
(* Steps that leave the histories, the queues and the action in hand alone *)

data == <<attempts, actions, callbacks, messages, inhand, deliveries, session>>

\* A step that leaves the linked variables alone keeps every link.
LEMMA DataKept ==
    ASSUME IInv, UNCHANGED data, closed' = closed, Flags', Places', Numbers', Control'
    PROVE  IInv'
<1>1. Histories'
  BY TypeParts DEF IInv, data, Histories
<1>2. Linked'
  BY DEF IInv, Linked, data, Pointers, Queued, Scheduled, Buffered, InHand, AttemptIds,
         DeliveryIds, AttemptsOf, SessionOf, CallbackIds
<1>3. Tables'
  BY TypeParts DEF IInv, data, Tables
<1>4. TypeOK'
  BY ONLY <1>1, <1>3, Flags', Places', Numbers'
     DEF TypeOK, Flags, Places, Numbers, Tables, Histories
<1> QED BY <1>2, <1>4 DEF IInv

\* The thread tests, opens, applies the window, waits, or fails.
LEMMA ThreadMoves ==
    ASSUME IInv, ThreadFrame,
           \/ Top \/ Open \/ MarkConsuming \/ Loop \/ ActionsDone \/ ClearFlag \/ Qos
           \/ KeepPrefetch \/ DrainEnds \/ Recover \/ Wait \/ FactoryFails
           \/ \E recoverable \in BOOLEAN : ConsumeFails(recoverable)
    PROVE  IInv'
<1> USE DEF Move, local, flags, shared, wire, life, widen, inbox, ThreadFrame, Top, Open,
        MarkConsuming, Loop, ActionsDone, ClearFlag, Qos, KeepPrefetch, DrainEnds, Recover, Wait,
        FactoryFails, ConsumeFails, Fault
<1>0. Flags /\ Places /\ Numbers /\ Control
  BY TypeParts DEF IInv
<1>1. UNCHANGED data /\ closed' = closed
  BY DEF data
<1>2. Flags'
  <2>1. thread' = thread /\ stopEvent' = stopEvent /\ raising' = raising /\ error' = error
    OBVIOUS
  <2>2. failing' = failing \/ failing' = ~started \/ failing' = TRUE \/ failing' = FALSE
    OBVIOUS
  <2>3. /\ started' = started \/ started' = TRUE
        /\ consuming' = consuming \/ consuming' = TRUE
        /\ prefetchChanged' = prefetchChanged \/ prefetchChanged' = FALSE
        /\ up' = up \/ up' = TRUE
    OBVIOUS
  <2> QED BY ONLY <1>0, <2>1, <2>2, <2>3, Zenon DEF Flags
<1>3. Places'
  BY <1>0 DEF Places, Points, NextTimeout
<1>4. Numbers'
  BY <1>0 DEF Numbers, ConsumerWindow, Queues
<1>5. Control'
  BY <1>0 DEF Control, Connected
<1> QED BY <1>1, <1>2, <1>3, <1>4, <1>5, DataKept

\* The loop starts, joins, asks to stop, widens, or begins to wait.
LEMMA LoopMoves ==
    ASSUME IInv, LoopFrame,
           \/ Start \/ StartResumes \/ Joined \/ Stop \/ RaiseFlag
           \/ \E count \in Prefetches : RaisePrefetch(count)
           \/ \E r \in Readers : Get(r)
    PROVE  IInv'
<1> USE PrefetchAssumption, BoundAssumption
    DEF flags, life, widen, inbox, LoopFrame, Start, StartResumes, Joined, Stop, RaiseFlag,
        RaisePrefetch, Get
<1>0. Flags /\ Places /\ Numbers /\ Control
  BY TypeParts DEF IInv
<1>1. UNCHANGED data /\ closed' = closed
  BY DEF data
<1>2. Flags'
  <2>1. up' = up /\ consuming' = consuming
    OBVIOUS
  <2>2. /\ failing' = failing \/ failing' = FALSE
        /\ started' = started \/ started' = FALSE
        /\ error' = error \/ error' = FALSE
        /\ stopEvent' = stopEvent \/ stopEvent' = FALSE \/ stopEvent' = TRUE
    OBVIOUS
  <2>3. /\ thread' = thread \/ thread' = TRUE \/ thread' = FALSE
        /\ raising' = raising \/ raising' = TRUE \/ raising' = FALSE
        /\ prefetchChanged' = prefetchChanged \/ prefetchChanged' = TRUE
    OBVIOUS
  <2>4. failing' \in BOOLEAN /\ started' \in BOOLEAN /\ error' \in BOOLEAN
    BY ONLY <1>0, <2>2, Zenon DEF Flags
  <2>5. stopEvent' \in BOOLEAN /\ thread' \in BOOLEAN
    BY ONLY <1>0, <2>2, <2>3, Zenon DEF Flags
  <2>6. raising' \in BOOLEAN /\ prefetchChanged' \in BOOLEAN
    BY ONLY <1>0, <2>3, Zenon DEF Flags
  <2> QED BY ONLY <1>0, <2>1, <2>4, <2>5, <2>6, Zenon DEF Flags
<1>3. Places'
  BY <1>0 DEF Places, Points
<1>4. Numbers'
  BY <1>0 DEF Numbers, Queues
<1>5. Control'
  BY <1>0 DEF Control, Connected
<1> QED BY <1>1, <1>2, <1>3, <1>4, <1>5, DataKept

-----------------------------------------------------------------------------
(* Steps of the thread that change them *)

\* The parts of IInv, put together again after a step.
LEMMA Assembled ==
    ASSUME Histories', Linked', Flags', Places', Numbers', Control',
           closed' \in [Sessions -> BOOLEAN],
           actions' = [s \in Sessions |-> actions'[s]],
           messages' = [q \in Queues |-> messages'[q]]
    PROVE  IInv'
<1>1. Tables'
  BY LinkedTables
<1>2. TypeOK'
  BY ONLY <1>1, Histories', Flags', Places', Numbers'
     DEF TypeOK, Flags, Places, Numbers, Tables, Histories
<1> QED BY <1>2 DEF IInv

\* What IInv says in pieces, and that unchanged histories are a case of growth.
LEMMA Pieces ==
    ASSUME IInv
    PROVE  /\ Flags /\ Places /\ Numbers /\ Histories /\ Control
           /\ closed \in [Sessions -> BOOLEAN] /\ actions \in [Sessions -> Seq(Nat)]
           /\ messages \in [Queues -> Seq(Nat)]
           /\ actions = [s \in Sessions |-> actions[s]]
           /\ messages = [q \in Queues |-> messages[q]]
           /\ Len(attempts) \in Nat /\ Len(deliveries) \in Nat
           /\ MaxSessions \in Nat /\ (session # 0 => session \in Sessions)
<1>1. Flags /\ Places /\ Numbers /\ Tables /\ Histories /\ Control
  BY TypeParts DEF IInv
<1>2. Len(attempts) \in Nat /\ Len(deliveries) \in Nat
  BY <1>1, LenProperties DEF Histories
<1>3. MaxSessions \in Nat /\ (session # 0 => session \in Sessions)
  BY <1>1, BoundAssumption DEF Numbers, Sessions
<1> QED BY <1>1, <1>2, <1>3 DEF Tables

\* Unchanged histories are kept.
LEMMA SameHistory ==
    ASSUME IInv, UNCHANGED <<attempts, deliveries>>
    PROVE  Histories' /\ KeepsHistory
BY Pieces DEF Histories, KeepsHistory

\* A new session starts with no action in hand.
LEMMA ConnectStep == ASSUME IInv, Connect, ThreadFrame PROVE IInv'
<1> USE Pieces DEF Connect, ThreadFrame, local, flags, wire, life, widen, inbox
<1>1. Histories' /\ KeepsHistory
  BY SameHistory
<1>2. InHand'
  BY DEF Control, InHand
<1>3. Linked'
  BY <1>1, <1>2, LinksKept DEF Linked
<1>4. Flags'
  BY FlagsKept
<1>5. Places' /\ Numbers' /\ Control'
  BY DEF Places, Numbers, Control, Points, Connected, Sessions, Queues
<1> QED BY <1>1, <1>3, <1>4, <1>5, Assembled

\* The action popped belongs to the session it is popped from.
LEMMA PopActionStep == ASSUME IInv, PopAction, ThreadFrame PROVE IInv'
<1> USE Pieces DEF PopAction, ThreadFrame, flags, wire, life, widen, inbox
<1>1. Histories' /\ KeepsHistory
  BY SameHistory
<1>2. session \in Sessions
  BY DEF Control, Connected
<1>3. /\ Head(actions[session]) \in AttemptsOf(session)
      /\ Tail(actions[session]) \in Seq(AttemptsOf(session))
  BY <1>2, HeadTailProperties DEF IInv, Linked, Queued
<1>4. \A s \in Sessions : AttemptsOf(s)' = AttemptsOf(s)
  BY DEF AttemptsOf, AttemptIds, SessionOf
<1>5. Queued'
  <2>1. \A s \in Sessions :
            actions'[s] = IF s = session THEN Tail(actions[session]) ELSE actions[s]
    OBVIOUS
  <2> QED BY <2>1, <1>3, <1>4 DEF IInv, Linked, Queued
<1>6. InHand'
  BY <1>2, <1>3, <1>4 DEF InHand
<1>7. Linked'
  BY <1>1, <1>5, <1>6, LinksKept DEF Linked
<1>8. Flags'
  BY FlagsKept
<1>9. inhand' \in Nat \ {0}
  BY <1>3 DEF AttemptsOf, AttemptIds
<1>10. Places' /\ Control'
  BY <1>2, <1>9 DEF Places, Control, Points, Connected, Sessions
<1>11. Numbers'
  <2>1. unsettled \in [Sessions -> Nat]
    BY DEF Numbers
  <2>2. Decrease(unsettled[session]) \in Nat
    BY <1>2, <2>1 DEF Decrease
  <2>3. unsettled' \in [Sessions -> Nat]
    BY <2>1, <2>2
  <2> QED BY <1>9, <2>3 DEF Numbers
<1>12. actions' = [s \in Sessions |-> actions'[s]]
  OBVIOUS
<1> QED BY <1>1, <1>7, <1>8, <1>10, <1>11, <1>12, Assembled

\* A change of one field of one delivery keeps the history.
LEMMA OneDelivery ==
    ASSUME IInv, NEW d \in DeliveryIds, NEW e \in Delivery, e.session = deliveries[d].session,
           deliveries' = [deliveries EXCEPT ![d] = e], UNCHANGED attempts
    PROVE  Histories' /\ KeepsHistory
<1> USE Pieces
<1>1. /\ deliveries' \in Seq(Delivery) /\ Len(deliveries') = Len(deliveries)
      /\ \A i \in 1..Len(deliveries) : deliveries'[i] = IF i = d THEN e ELSE deliveries[i]
  BY ExceptSeq DEF Histories, DeliveryIds
<1> QED BY <1>1 DEF Histories, KeepsHistory, DeliveryIds

\* A completion names an attempt there is.
LEMMA Completes ==
    ASSUME NEW a \in AttemptIds, NEW ok \in BOOLEAN
    PROVE  Completion(a, ok) \in CallbackIds
BY DEF Completion, CallbackIds

\* An action that runs settles its own delivery and schedules its completion.
LEMMA ExecuteActionStep == ASSUME IInv, ExecuteAction, ThreadFrame PROVE IInv'
<1> USE Pieces DEF ExecuteAction, ThreadFrame, flags, shared, life, widen, inbox
<1> DEFINE d == attempts[inhand].delivery
           e == [deliveries[d] EXCEPT !.wire = attempts[inhand].op]
<1>1. inhand \in AttemptIds /\ d \in DeliveryIds
  BY DEF Control, IInv, Linked, InHand, Pointers, AttemptsOf
<1>2. attempts[inhand] \in Attempt /\ deliveries[d] \in Delivery
  BY <1>1, ElementOfSeq DEF Histories, AttemptIds, DeliveryIds
<1>3. e \in Delivery /\ e.session = deliveries[d].session
  BY <1>2 DEF Attempt, Delivery
<1>4. Histories' /\ KeepsHistory
  BY <1>1, <1>3, OneDelivery
<1>5. Scheduled'
  <2>1. callbacks \in Seq(CallbackIds') /\ AttemptIds \subseteq AttemptIds'
    BY <1>4, Growth, SeqMonotonic DEF IInv, Linked, Scheduled
  <2>2. Completion(inhand, TRUE) \in CallbackIds'
    BY <1>1, <2>1 DEF Completion, CallbackIds
  <2> QED BY <2>1, <2>2, AppendProperties DEF Scheduled
<1>6. Linked'
  BY <1>4, <1>5, LinksKept DEF Linked, InHand
<1>7. Flags'
  BY FlagsKept
<1>8. Places' /\ Numbers' /\ Control'
  BY DEF Places, Numbers, Control, Points, Connected
<1> QED BY <1>4, <1>6, <1>7, <1>8, Assembled

\* An action that raises schedules its failure.
LEMMA ActionRaisesStep == ASSUME IInv, ActionRaises, ThreadFrame PROVE IInv'
<1> USE Pieces DEF ActionRaises, ThreadFrame, Fault, flags, shared, life, widen, inbox
<1>1. Histories' /\ KeepsHistory
  BY SameHistory
<1>2. inhand \in AttemptIds
  BY DEF Control, IInv, Linked, InHand, AttemptsOf
<1>3. Scheduled'
  <2>1. CallbackIds' = CallbackIds
    BY DEF CallbackIds, AttemptIds, DeliveryIds
  <2>2. Completion(inhand, FALSE) \in CallbackIds
    BY <1>2, Completes
  <2> QED BY <2>1, <2>2, AppendProperties DEF IInv, Linked, Scheduled
<1>4. Linked'
  BY <1>1, <1>3, LinksKept DEF Linked, InHand
<1>5. Flags'
  <2>1. failing' = failing \/ failing' = TRUE
    OBVIOUS
  <2>2. UNCHANGED <<stopEvent, started, prefetchChanged, consuming, error, thread, raising, up>>
    OBVIOUS
  <2>3. Flags
    OBVIOUS
  <2> QED BY ONLY <2>1, <2>2, <2>3, Zenon DEF Flags
<1>6. Places' /\ Numbers' /\ Control'
  BY DEF Places, Numbers, Control, Points, Connected
<1> QED BY <1>1, <1>4, <1>5, <1>6, Assembled

\* A delivery is the newest of the history, and its callback names it.
LEMMA DrainStep == ASSUME IInv, NEW m \in Messages, Drain(m), ThreadFrame PROVE IInv'
<1> USE Pieces DEF Drain, ThreadFrame, local, flags, life, widen, inbox
<1>1. session \in Sessions /\ queue \in Queues
  BY DEF Control, Connected, Numbers
<1>2. /\ deliveries' \in Seq(Delivery) /\ Len(deliveries') = Len(deliveries) + 1
      /\ \A i \in 1..Len(deliveries) : deliveries'[i] = deliveries[i]
  <2>1. Arrival(m) \in Delivery
    BY <1>1 DEF Arrival, Delivery
  <2> QED BY <2>1, AppendProperties DEF Histories
<1>3. Histories' /\ KeepsHistory
  BY <1>2 DEF Histories, KeepsHistory, DeliveryIds
<1>4. Scheduled'
  <2>1. callbacks \in Seq(CallbackIds')
    BY <1>3, Growth, SeqMonotonic DEF IInv, Linked, Scheduled
  <2>2. Len(deliveries) + 1 \in DeliveryIds'
    BY <1>2 DEF DeliveryIds
  <2>3. [call |-> "put", queue |-> queue, item |-> Len(deliveries) + 1] \in CallbackIds'
    BY <1>1, <2>2 DEF CallbackIds
  <2> QED BY <2>1, <2>3, AppendProperties DEF Scheduled
<1>5. Linked'
  BY <1>3, <1>4, LinksKept DEF Linked
<1>6. Flags'
  BY FlagsKept
<1>7. unsettled' \in [Sessions -> Nat]
  BY <1>1 DEF Numbers
<1>8. Places' /\ Numbers' /\ Control'
  BY <1>7 DEF Places, Numbers, Control, Points, Connected
<1> QED BY <1>3, <1>5, <1>6, <1>8, Assembled

\* The finally block closes the session of the thread.
LEMMA FinallyStep == ASSUME IInv, Finally, ThreadFrame PROVE IInv'
<1> USE Pieces DEF Finally, ThreadFrame, local, wire, life, widen, inbox
<1>1. Histories' /\ KeepsHistory
  BY SameHistory
<1>2. session \in Sessions
  BY DEF Control, Connected
<1>3. /\ closed' \in [Sessions -> BOOLEAN] /\ actions' = [t \in Sessions |-> actions'[t]]
      /\ Queued' /\ Scheduled'
  BY <1>2, ClosesSession
<1>4. Linked'
  BY <1>1, <1>3, LinksKept DEF Linked
<1>5. Flags'
  <2>1. consuming' = FALSE
    OBVIOUS
  <2>2. UNCHANGED <<failing, stopEvent, started, prefetchChanged, error, thread, raising, up>>
    OBVIOUS
  <2>3. Flags
    OBVIOUS
  <2> QED BY ONLY <2>1, <2>2, <2>3, Zenon DEF Flags
<1>6. Places' /\ Numbers' /\ Control'
  BY DEF Places, Numbers, Control, Points, Connected
<1> QED BY <1>1, <1>3, <1>4, <1>5, <1>6, Assembled

\* The thread closes its connection, or it drops.
LEMMA ConnectionEnds ==
    ASSUME IInv, EndConnection,
           \/ Disconnect /\ ThreadFrame
           \/ Drop
    PROVE  IInv'
<1> USE Pieces DEF Disconnect, Drop, ThreadFrame, Fault, local, flags, shared, life, widen, inbox
<1>1. Histories' /\ KeepsHistory
  BY EndsConnection
<1>2. Linked'
  BY <1>1, LinksKept DEF Linked
<1>3. Flags'
  <2>1. up' = FALSE
    BY DEF EndConnection
  <2>2. UNCHANGED <<failing, stopEvent, started, prefetchChanged, consuming, error, thread,
                    raising>>
    OBVIOUS
  <2>3. Flags
    OBVIOUS
  <2> QED BY ONLY <2>1, <2>2, <2>3, Zenon DEF Flags
<1>4. Places' /\ Numbers' /\ Control'
  BY DEF Places, Numbers, Control, Points, Connected
<1> QED BY <1>1, <1>2, <1>3, <1>4, Assembled

\* The thread leaves its exception for the readers.
LEMMA ExitStep == ASSUME IInv, Exit, ThreadFrame PROVE IInv'
<1> USE Pieces DEF Exit, ThreadFrame, local, shared, wire, life, widen, inbox
<1>1. Histories' /\ KeepsHistory
  BY SameHistory
<1>2. Scheduled'
  <2>1. CallbackIds' = CallbackIds
    BY DEF CallbackIds, AttemptIds, DeliveryIds
  <2>2. [call |-> "put", queue |-> queue, item |-> Pill] \in CallbackIds
    BY DEF CallbackIds, Numbers
  <2> QED BY <2>1, <2>2, AppendProperties DEF IInv, Linked, Scheduled
<1>3. Linked'
  BY <1>1, <1>2, LinksKept DEF Linked
<1>4. Flags'
  <2>1. error' = failing /\ consuming' = FALSE /\ started' = TRUE
    OBVIOUS
  <2>2. UNCHANGED <<failing, stopEvent, prefetchChanged, thread, raising, up>>
    OBVIOUS
  <2>3. Flags
    OBVIOUS
  <2> QED BY ONLY <2>1, <2>2, <2>3, Zenon DEF Flags
<1>5. Places' /\ Numbers' /\ Control'
  BY DEF Places, Numbers, Control, Points, Connected
<1> QED BY <1>1, <1>3, <1>4, <1>5, Assembled

-----------------------------------------------------------------------------
(* Steps of the loop that change them *)

\* A change of the future of one attempt keeps the history.
LEMMA OneAttempt ==
    ASSUME IInv, NEW a \in AttemptIds, NEW e \in Attempt, e.delivery = attempts[a].delivery,
           attempts' = [attempts EXCEPT ![a] = e], UNCHANGED deliveries
    PROVE  Histories' /\ KeepsHistory /\ Len(attempts') = Len(attempts)
<1> USE Pieces
<1>1. /\ attempts' \in Seq(Attempt) /\ Len(attempts') = Len(attempts)
      /\ \A i \in 1..Len(attempts) : attempts'[i] = IF i = a THEN e ELSE attempts[i]
  BY ExceptSeq DEF Histories, AttemptIds
<1> QED BY <1>1 DEF Histories, KeepsHistory, AttemptIds

\* A callback buffers the delivery, or completes the attempt, it names.
LEMMA RunCallbackStep == ASSUME IInv, RunCallback, LoopFrame PROVE IInv'
<1> USE Pieces DEF LoopFrame, flags, life, widen
<1> DEFINE c == Head(callbacks)
<1>0. /\ c \in CallbackIds /\ Tail(callbacks) \in Seq(CallbackIds)
      /\ callbacks' = Tail(callbacks)
      /\ UNCHANGED <<pc, failing, flags, closed, actions, life, widen, reader>>
  BY HeadTailProperties DEF RunCallback, IInv, Linked, Scheduled
<1>1. Flags'
  BY <1>0, FlagsKept
<1>2. Places' /\ Numbers' /\ Control'
  BY <1>0 DEF Places, Numbers, Control, Points, Connected
<1>3. CASE /\ c.call = "put"
           /\ messages' = [messages EXCEPT ![c.queue] = Append(@, c.item)]
           /\ deliveries' = IF c.item = Pill THEN deliveries
                            ELSE [deliveries EXCEPT ![c.item].app = "buffered"]
           /\ UNCHANGED attempts
  <2>1. c.queue \in Queues /\ c.item \in DeliveryIds \cup {Pill}
    BY <1>0, <1>3 DEF CallbackIds
  <2>2. Histories' /\ KeepsHistory
    <3>1. CASE c.item = Pill
      BY <1>3, <3>1, SameHistory
    <3>2. CASE c.item # Pill
      <4> DEFINE e == [deliveries[c.item] EXCEPT !.app = "buffered"]
      <4>1. c.item \in DeliveryIds
        BY <2>1, <3>2
      <4>2. deliveries[c.item] \in Delivery
        BY <4>1, ElementOfSeq DEF Histories, DeliveryIds
      <4>3. e \in Delivery /\ e.session = deliveries[c.item].session
        BY <4>2 DEF Delivery
      <4>4. deliveries' = [deliveries EXCEPT ![c.item] = e]
        BY <1>3, <3>2
      <4> QED BY <1>3, <4>1, <4>3, <4>4, OneDelivery
    <3> QED BY <3>1, <3>2
  <2>3. Scheduled'
    BY <1>0, <2>2, Growth, SeqMonotonic DEF Scheduled
  <2>4. Buffered'
    <3>1. (DeliveryIds \cup {Pill}) \subseteq (DeliveryIds \cup {Pill})'
      BY <2>2, Growth
    <3>2. \A q \in Queues : messages[q] \in Seq((DeliveryIds \cup {Pill})')
      BY <3>1, SeqMonotonic DEF IInv, Linked, Buffered
    <3>3. Append(messages[c.queue], c.item) \in Seq((DeliveryIds \cup {Pill})')
      BY <2>1, <3>1, <3>2, AppendProperties
    <3> QED BY <1>3, <3>2, <3>3 DEF Buffered
  <2>5. Linked'
    BY <1>0, <1>3, <2>2, <2>3, <2>4, LinksKept DEF Linked
  <2>6. messages' = [q \in Queues |-> messages'[q]]
    BY <1>3
  <2> QED BY <1>0, <1>1, <1>2, <2>2, <2>5, <2>6, Assembled
<1>4. CASE /\ c.call = "complete"
           /\ attempts' = IF attempts[c.attempt].future # "pending" THEN attempts
                          ELSE [attempts EXCEPT ![c.attempt].future =
                                   IF c.ok THEN "done" ELSE "failed"]
           /\ UNCHANGED <<messages, deliveries>>
  <2>1. c.attempt \in AttemptIds
    BY <1>0, <1>4 DEF CallbackIds
  <2>2. Histories' /\ KeepsHistory /\ Len(attempts') = Len(attempts)
    <3>1. CASE attempts[c.attempt].future # "pending"
      BY <1>4, <3>1, SameHistory
    <3>2. CASE attempts[c.attempt].future = "pending"
      <4> DEFINE e == [attempts[c.attempt] EXCEPT !.future = IF c.ok THEN "done" ELSE "failed"]
      <4>1. attempts[c.attempt] \in Attempt
        BY <2>1, ElementOfSeq DEF Histories, AttemptIds
      <4>2. e \in Attempt /\ e.delivery = attempts[c.attempt].delivery
        BY <4>1 DEF Attempt
      <4>3. attempts' = [attempts EXCEPT ![c.attempt] = e]
        BY <1>4, <3>2
      <4> QED BY <1>4, <2>1, <4>2, <4>3, OneAttempt
    <3> QED BY <3>1, <3>2
  <2>3. Scheduled'
    BY <1>0, <2>2, Growth, SeqMonotonic DEF Scheduled
  <2>4. Linked'
    BY <1>0, <1>4, <2>2, <2>3, LinksKept DEF Linked
  <2> QED BY <1>0, <1>1, <1>2, <1>4, <2>2, <2>4, Assembled
<1> QED BY <1>3, <1>4 DEF RunCallback

\* stop() closes the latest session, or leaves the exception itself.
LEMMA StopClosesStep == ASSUME IInv, StopCloses, LoopFrame PROVE IInv'
<1> USE Pieces DEF StopCloses, LoopFrame, flags, life, widen
<1>1. Histories' /\ KeepsHistory
  BY SameHistory
<1>2. /\ closed' \in [Sessions -> BOOLEAN] /\ actions' = [t \in Sessions |-> actions'[t]]
      /\ Queued' /\ Scheduled'
  <2>1. CASE session > 0
    <3>1. session \in Sessions
      BY <2>1 DEF Numbers, Sessions
    <3> QED BY <2>1, <3>1, ClosesSession
  <2>2. CASE ~(session > 0)
    BY <1>1, <2>2, LinksKept
  <2> QED BY <2>1, <2>2
<1>3. Buffered' /\ messages' = [q \in Queues |-> messages'[q]]
  <2>1. CASE messages' = messages
    BY <1>1, <2>1, LinksKept
  <2>2. CASE messages' = [messages EXCEPT ![queue] = Append(@, Pill)]
    <3>1. DeliveryIds' = DeliveryIds /\ queue \in Queues
      BY DEF DeliveryIds, Numbers
    <3>2. Append(messages[queue], Pill) \in Seq(DeliveryIds \cup {Pill})
      BY <3>1, AppendProperties DEF IInv, Linked, Buffered
    <3>3. \A q \in Queues : messages'[q] \in Seq(DeliveryIds \cup {Pill})
      BY <2>2, <3>2 DEF IInv, Linked, Buffered
    <3> QED BY <2>2, <3>1, <3>3 DEF Buffered
  <2> QED BY <2>1, <2>2
<1>4. Linked'
  BY <1>1, <1>2, <1>3, LinksKept DEF Linked
<1>5. Flags'
  BY FlagsKept
<1>6. Places' /\ Numbers' /\ Control'
  BY DEF Places, Numbers, Control, Points, Connected
<1> QED BY <1>1, <1>2, <1>3, <1>4, <1>5, <1>6, Assembled

\* A reader takes a delivery, or puts the exception back.
LEMMA ReceiveStep == ASSUME IInv, NEW r \in Readers, Receive(r), LoopFrame PROVE IInv'
<1> USE Pieces DEF LoopFrame, flags, life, widen
<1> DEFINE q == reader[r]
           item == Head(messages[q])
           gone == closed[deliveries[item].session]
<1>0. /\ q \in Queues /\ messages[q] # <<>>
      /\ UNCHANGED <<pc, failing, flags, closed, actions, life, widen, callbacks, attempts>>
  BY DEF Receive, Numbers
<1>1. /\ item \in DeliveryIds \cup {Pill}
      /\ Tail(messages[q]) \in Seq(DeliveryIds \cup {Pill})
      /\ PutBack(messages[q]) \in Seq(DeliveryIds \cup {Pill})
  BY <1>0, HeadTailProperties, AppendProperties DEF IInv, Linked, Buffered, PutBack
<1>2. /\ \/ messages' = [messages EXCEPT ![q] = Tail(@)]
         \/ messages' = [messages EXCEPT ![q] = PutBack(@)]
      /\ \/ reader' = [reader EXCEPT ![r] = 0]
         \/ reader' = [reader EXCEPT ![r] = q]
  BY DEF Receive
<1>3. Histories' /\ KeepsHistory
  <2>1. CASE item = Pill
    BY <1>0, <2>1, SameHistory DEF Receive
  <2>2. CASE item # Pill
    <3> DEFINE e == [deliveries[item] EXCEPT !.app = IF gone THEN "discarded" ELSE "held"]
    <3>1. item \in DeliveryIds
      BY <1>1, <2>2
    <3>2. deliveries[item] \in Delivery
      BY <3>1, ElementOfSeq DEF Histories, DeliveryIds
    <3>3. e \in Delivery /\ e.session = deliveries[item].session
      BY <3>2 DEF Delivery
    <3>4. deliveries' = [deliveries EXCEPT ![item] = e]
      BY <2>2 DEF Receive
    <3> QED BY <1>0, <3>1, <3>3, <3>4, OneDelivery
  <2> QED BY <2>1, <2>2
<1>4. Buffered' /\ messages' = [p \in Queues |-> messages'[p]]
  <2>1. \A p \in Queues : messages'[p] \in Seq(DeliveryIds \cup {Pill})
    BY <1>0, <1>1, <1>2 DEF IInv, Linked, Buffered
  <2>2. DeliveryIds \cup {Pill} \subseteq (DeliveryIds \cup {Pill})'
    BY <1>3, Growth
  <2>3. Buffered'
    BY <2>1, <2>2, SeqMonotonic DEF Buffered
  <2> QED BY <1>2, <2>3
<1>5. Linked'
  BY <1>0, <1>3, <1>4, LinksKept DEF Linked
<1>6. Flags'
  BY <1>0, FlagsKept
<1>7. Places' /\ Numbers' /\ Control'
  BY <1>0, <1>2 DEF Places, Numbers, Control, Points, Connected
<1> QED BY <1>0, <1>3, <1>4, <1>5, <1>6, <1>7, Assembled

\* The session an action is queued on is the session of its delivery.
LEMMA SettleStep ==
    ASSUME IInv, NEW d \in DOMAIN deliveries, NEW op \in Operations, Settle(d, op), LoopFrame
    PROVE  IInv'
<1> USE Pieces DEF LoopFrame, flags, life, widen, inbox
<1> DEFINE n == Len(attempts) + 1
<1>0. UNCHANGED <<pc, failing, flags, closed, deliveries, life, widen, inbox, callbacks>>
  BY DEF Settle
<1>1. PICK future \in {"pending", "failed"} :
          attempts' = Append(attempts, [delivery |-> d, op |-> op, future |-> future])
  BY DEF Settle
<1>2. d \in DeliveryIds
  BY LenProperties DEF Histories, DeliveryIds
<1>3. PICK s \in Sessions : s = deliveries[d].session
  <2>1. deliveries[d] \in Delivery
    BY <1>2, ElementOfSeq DEF Histories, DeliveryIds
  <2> QED BY <2>1 DEF Delivery
<1>4. /\ attempts' \in Seq(Attempt) /\ Len(attempts') = n
      /\ \A a \in 1..Len(attempts) : attempts'[a] = attempts[a]
      /\ attempts'[n] = [delivery |-> d, op |-> op, future |-> future]
  <2>1. [delivery |-> d, op |-> op, future |-> future] \in Attempt
    BY <1>2, ApplicationAssumption DEF Attempt, DeliveryIds, Outcomes
  <2> QED BY <1>1, <2>1, AppendProperties DEF Histories
<1>5. Histories' /\ KeepsHistory
  BY <1>0, <1>4 DEF Histories, KeepsHistory, AttemptIds
<1>6. n \in AttemptsOf(s)'
  BY <1>0, <1>4, <1>3 DEF AttemptsOf, AttemptIds, SessionOf
<1>7. Pointers'
  <2>1. ASSUME NEW a \in AttemptIds' PROVE attempts'[a].delivery \in DeliveryIds'
    <3>1. CASE a = n
      BY <1>0, <1>2, <1>4, <3>1 DEF DeliveryIds
    <3>2. CASE a # n
      BY <1>4, <1>5, <3>2, Growth DEF AttemptIds
    <3> QED BY <3>1, <3>2
  <2> QED BY <2>1 DEF Pointers
<1>8. Queued' /\ actions' = [t \in Sessions |-> actions'[t]]
  <2>1. CASE actions' = actions
    BY <1>5, <2>1, LinksKept
  <2>2. CASE actions' = [actions EXCEPT ![s] = Append(@, n)]
    <3>1. \A t \in Sessions : actions[t] \in Seq(AttemptsOf(t)')
      BY <1>5, Growth, SeqMonotonic DEF IInv, Linked, Queued
    <3>2. Append(actions[s], n) \in Seq(AttemptsOf(s)')
      BY <1>6, <1>3, <3>1, AppendProperties
    <3> QED BY <2>2, <3>1, <3>2 DEF Queued
  <2> QED BY <1>3, <2>1, <2>2 DEF Settle, BoundSession
<1>9. Linked'
  BY <1>0, <1>5, <1>7, <1>8, LinksKept DEF Linked
<1>10. Flags'
  BY <1>0, FlagsKept
<1>11. Places' /\ Numbers' /\ Control'
  BY <1>0 DEF Places, Numbers, Control, Points, Connected
<1> QED BY <1>0, <1>5, <1>8, <1>9, <1>10, <1>11, Assembled

\* A cancelled attempt stays queued where it was.
LEMMA CancelStep == ASSUME IInv, NEW a \in DOMAIN attempts, Cancel(a), LoopFrame PROVE IInv'
<1> USE Pieces DEF Cancel, LoopFrame, flags, life, widen, inbox
<1> DEFINE e == [attempts[a] EXCEPT !.future = "cancelled"]
<1>1. a \in AttemptIds
  BY LenProperties DEF Histories, AttemptIds
<1>2. attempts[a] \in Attempt
  BY <1>1, ElementOfSeq DEF Histories, AttemptIds
<1>3. e \in Attempt /\ e.delivery = attempts[a].delivery
  BY <1>2 DEF Attempt
<1>4. Histories' /\ KeepsHistory /\ Len(attempts') = Len(attempts)
  BY <1>1, <1>3, OneAttempt
<1>5. Linked'
  BY <1>4, LinksKept DEF Linked
<1>6. Flags'
  BY FlagsKept
<1>7. Places' /\ Numbers' /\ Control'
  BY DEF Places, Numbers, Control, Points, Connected
<1> QED BY <1>4, <1>5, <1>6, <1>7, Assembled

-----------------------------------------------------------------------------
(* The theorems *)

\* Nothing was delivered, asked for or scheduled yet.
LEMMA Initially == Init => IInv
<1> SUFFICES ASSUME Init PROVE IInv
  OBVIOUS
<1> USE PrefetchAssumption, BoundAssumption DEF Init
<1>1. Flags
  BY DEF Flags
<1>2. Places /\ Numbers
  BY DEF Places, Points, Numbers, Queues, Sessions
<1>3. Tables /\ Histories
  BY DEF Tables, Histories
<1>4. Linked /\ Control
  BY DEF Linked, Pointers, Queued, Scheduled, Buffered, InHand, AttemptIds, Control, Connected
<1> QED BY <1>1, <1>2, <1>3, <1>4, TypeParts DEF IInv

\* A step that changes nothing.
LEMMA Stuttering == ASSUME IInv, UNCHANGED vars PROVE IInv'
<1> USE Pieces DEF vars, local, flags, shared, wire, life, widen, inbox
<1>1. Flags'
  BY FlagsKept
<1>2. Places' /\ Numbers' /\ Control'
  BY DEF Places, Numbers, Control, Queues
<1> QED BY <1>1, <1>2, DataKept DEF data

\* Every step of the thread, of the loop and of the wire preserves IInv.
LEMMA Preserved == IInv /\ [Next]_vars => IInv'
<1> SUFFICES ASSUME IInv, [Next]_vars PROVE IInv'
  OBVIOUS
<1>1. CASE ThreadNext
  BY <1>1, ThreadMoves, ConnectStep, PopActionStep, ExecuteActionStep, ActionRaisesStep, DrainStep,
     FinallyStep, ConnectionEnds, ExitStep DEF ThreadNext, ThreadStep, Disconnect
<1>2. CASE ThreadFails
  BY <1>2, ThreadMoves DEF ThreadFails
<1>3. CASE LoopProgress
  BY <1>3, LoopMoves, RunCallbackStep, StopClosesStep DEF LoopProgress
<1>4. CASE \E r \in Readers : ReaderNext(r)
  BY <1>4, ReceiveStep DEF ReaderNext
<1>5. CASE LoopCalls
  BY <1>5, LoopMoves, SettleStep, CancelStep DEF LoopCalls
<1>6. CASE Drop
  BY <1>6, ConnectionEnds DEF Drop
<1>7. CASE UNCHANGED vars
  BY <1>7, Stuttering
<1> QED BY <1>1, <1>2, <1>3, <1>4, <1>5, <1>6, <1>7 DEF Next

\* Every state of the bridge is of the type it declares (bridge.py, session.py).
THEOREM TypeCorrect == Spec => []TypeOK
<1>1. IInv => TypeOK
  BY DEF IInv
<1> QED BY <1>1, Initially, Preserved, PTL DEF Spec

\* However often the consumer reconnects and whatever is cancelled meanwhile, an
\* action runs on the connection that delivered its message (session.py:32,
\* ConsumerAcknowledgement; message.py, settle).
THEOREM SettlementStays == Spec => []SessionIsolation
<1>1. IInv => SessionIsolation
  <2> SUFFICES ASSUME IInv PROVE SessionIsolation
    OBVIOUS
  <2>1. ASSUME NEW s \in Sessions PROVE \A a \in Range(actions[s]) : SessionOf(a) = s
    <3>1. actions[s] \in Seq(AttemptsOf(s))
      BY DEF IInv, Linked, Queued
    <3>2. Range(actions[s]) \subseteq AttemptsOf(s)
      BY <3>1, RangeOfSeq
    <3> QED BY <3>2 DEF AttemptsOf
  <2>2. inhand # 0 => SessionOf(inhand) = session
    BY DEF IInv, Linked, InHand, AttemptsOf
  <2> QED BY <2>1, <2>2 DEF SessionIsolation
<1> QED BY <1>1, Initially, Preserved, PTL DEF Spec

-----------------------------------------------------------------------------
(* The window: what raise_prefetch() asked for reaches the broker.         *)

\* PrefetchNotLost is not inductive: the constructor reads the count before
\* consuming is set, and a new thread may start only after the old one ended.
ThreadKnown == ~thread => pc \in {"none", "dead"}
WindowInv ==
    /\ ThreadKnown
    /\ (consuming \/ pc = "mark") /\ up /\ pc # "qos" /\ ~prefetchChanged /\ ~raising
           => window = prefetch

LEMMA WindowInit == Init => WindowInv
BY DEF Init, WindowInv, ThreadKnown

LEMMA WindowThread == WindowInv /\ ThreadNext => WindowInv'
<1> SUFFICES ASSUME WindowInv, ThreadStep, ThreadFrame PROVE WindowInv'
  BY DEF ThreadNext
<1> USE DEF WindowInv, ThreadKnown, ThreadFrame, life, widen, Move, local, flags, shared, wire
<1>1. CASE Top \/ Loop \/ ActionsDone \/ DrainEnds \/ Wait
  BY <1>1 DEF Top, Loop, ActionsDone, DrainEnds, Wait
<1>2. CASE Connect \/ Open \/ MarkConsuming
  BY <1>2 DEF Connect, Open, MarkConsuming, ConsumerWindow
<1>3. CASE PopAction
  BY <1>3 DEF PopAction
<1>7. CASE ExecuteAction
  BY <1>7 DEF ExecuteAction
<1>8. CASE ActionRaises
  BY <1>8 DEF ActionRaises, Fault
<1>4. CASE ClearFlag \/ Qos \/ KeepPrefetch
  BY <1>4 DEF ClearFlag, Qos, KeepPrefetch
<1>5. CASE \E m \in Messages : Drain(m)
  BY <1>5 DEF Drain
<1>6. CASE Recover \/ Finally \/ Disconnect \/ Exit
  BY <1>6 DEF Recover, Finally, Disconnect, EndConnection, Exit
<1> QED BY <1>1, <1>2, <1>3, <1>4, <1>5, <1>6, <1>7, <1>8 DEF ThreadStep

LEMMA WindowFails == WindowInv /\ (ThreadFails \/ Drop) => WindowInv'
<1> USE DEF WindowInv, ThreadKnown, ThreadFrame, life, widen, local, flags, shared, wire
<1>1. WindowInv /\ ThreadFails => WindowInv'
  BY DEF ThreadFails, FactoryFails, ConsumeFails
<1>2. WindowInv /\ Drop => WindowInv'
  BY DEF Drop, EndConnection
<1> QED BY <1>1, <1>2

LEMMA WindowLoop ==
    WindowInv /\ (LoopProgress \/ LoopCalls \/ \E r \in Readers : ReaderNext(r)) => WindowInv'
<1> USE DEF WindowInv, ThreadKnown, LoopFrame, life, widen, flags
<1>1. WindowInv /\ LoopProgress => WindowInv'
  <2> SUFFICES ASSUME WindowInv, LoopProgress PROVE WindowInv'
    OBVIOUS
  <2>1. CASE RunCallback
    BY <2>1 DEF LoopProgress, RunCallback
  <2>2. CASE StartResumes
    BY <2>2 DEF LoopProgress, StartResumes
  <2>3. CASE Joined
    BY <2>3 DEF LoopProgress, Joined
  <2>4. CASE StopCloses
    BY <2>4 DEF LoopProgress, StopCloses
  <2>5. CASE RaiseFlag
    BY <2>5 DEF LoopProgress, RaiseFlag
  <2> QED BY <2>1, <2>2, <2>3, <2>4, <2>5 DEF LoopProgress
<1>2. WindowInv /\ LoopCalls => WindowInv'
  <2> SUFFICES ASSUME WindowInv, LoopCalls PROVE WindowInv'
    OBVIOUS
  <2>1. CASE Start \/ Stop
    BY <2>1 DEF LoopCalls, Start, Stop
  <2>2. CASE \E count \in Prefetches : RaisePrefetch(count)
    BY <2>2 DEF LoopCalls, RaisePrefetch
  <2>3. CASE \E r \in Readers : Get(r)
    BY <2>3 DEF LoopCalls, Get
  <2>4. ASSUME NEW d \in DOMAIN deliveries, NEW op \in Operations, Settle(d, op)
        PROVE  WindowInv'
    BY <2>4 DEF LoopCalls, Settle
  <2>5. CASE \E a \in DOMAIN attempts : Cancel(a)
    BY <2>5 DEF LoopCalls, Cancel
  <2> QED BY <2>1, <2>2, <2>3, <2>4, <2>5 DEF LoopCalls
<1>3. WindowInv /\ (\E r \in Readers : ReaderNext(r)) => WindowInv'
  BY DEF ReaderNext, Receive
<1> QED BY <1>1, <1>2, <1>3

\* The widest count asked for is in force on every live connection whose change
\* flag is down: no widening is lost between the loop and the consumer thread.
THEOREM WindowKept == Spec => []PrefetchNotLost
<1>1. WindowInv /\ UNCHANGED vars => WindowInv'
  BY DEF WindowInv, ThreadKnown, vars, life, widen, flags, wire
<1>2. WindowInv /\ [Next]_vars => WindowInv'
  BY <1>1, WindowThread, WindowFails, WindowLoop DEF Next
<1>3. WindowInv => PrefetchNotLost
  BY DEF WindowInv, PrefetchNotLost
<1> QED BY WindowInit, <1>2, <1>3, PTL DEF Spec
=============================================================================
