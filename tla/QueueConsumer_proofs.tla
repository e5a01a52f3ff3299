------------------------ MODULE QueueConsumer_proofs ------------------------
(***************************************************************************)
(* QueueConsumer, for any subscribers, claims, tasks, window and number of *)
(* consumers, starts and failing bridges: the consumer of the queue is     *)
(* there as long as a handler is, it routes to it, and it leaves nothing   *)
(* unacked behind.  That it routes holds whenever subscribers start; the   *)
(* rest assumes that nobody starts while another subscriber of the queue   *)
(* stops (~Overlap), which the code does not enforce.  The stops           *)
(* themselves interleave freely.                                           *)
(***************************************************************************)
EXTENDS QueueConsumer, SequenceTheorems, FiniteSetTheorems, TLAPS

-----------------------------------------------------------------------------
(* The inductive invariant *)

Active  == {"starting", "on", "draining", "unscheduling"}
Leaving == {"closing", "joining"}
Open    == {"starting", "running"}
Once(list) == \A i, j \in 1..Len(list) : list[i] = list[j] => i = j

\* The conjuncts of TypeOK, apart: of the lifecycle and of the tasks.
LifeTypes ==
    /\ registry \in 0..MaxConsumers
    /\ members \in [Consumers -> Seq(Handlers)]
    /\ reader \in [Consumers -> {"none", "reading", "ended"}]
    /\ bridge \in [Consumers -> {"new", "starting", "running", "failed", "stopping",
                                  "stopped"}]
    /\ phase \in [Subscribers -> {"off"} \cup Active \cup Leaving]
    /\ held \in [Subscribers -> 0..MaxConsumers]
    /\ closing \in [Subscribers -> 0..MaxConsumers]
    /\ raised \subseteq Subscribers
    /\ starts \in 0..MaxStarts /\ deaths \in 0..MaxDeaths
TaskTypes ==
    /\ status \in [Tasks -> {"ready", "unacked", "acked", "rejected"}]
    /\ via \in [Tasks -> 0..MaxConsumers]
    /\ place \in [Tasks -> {"queue", "buffer", "deferred", "routed", "fired", "pulled", "left"}]
    /\ owner \in [Tasks -> Subscribers \cup {NoOne}]
    /\ cancelled \subseteq Tasks /\ waited \subseteq Tasks /\ ran \subseteq Tasks

\* Consumers are created one after the other,
InTurn == \E n \in 0..MaxConsumers : \A c \in Consumers : bridge[c] = "new" <=> c > n

\* the subscribers of a consumer are on the registered one, once each,
Members ==
    \A c \in Consumers :
        /\ Once(members[c])
        /\ \A s \in Range(members[c]) : c = registry /\ phase[s] \in Active

\* and a handler that started is one of them; its consumer is not being closed.
Users ==
    \A s \in Handlers : phase[s] \in Active =>
        /\ registry \in Consumers /\ held[s] = registry
        /\ s \in Range(members[registry])
        /\ bridge[registry] \in Open \cup {"failed"}

\* Who closes a consumer closes the registered one, that nobody is on any more.
Leavers ==
    \A s \in Subscribers : phase[s] \in Leaving =>
        /\ closing[s] \in Consumers /\ registry \in {0, closing[s]}
        /\ members[closing[s]] = <<>>
        /\ bridge[closing[s]] # "new"
        /\ phase[s] = "joining" => bridge[closing[s]] \in {"stopping", "stopped"}

\* The registered consumer was started, and some subscriber is left to stop it.
Current ==
    registry # 0 => /\ bridge[registry] \in Open \cup {"failed", "stopping"}
                    /\ \E s \in Subscribers : phase[s] # "off"

\* Only the registered consumer reads; one that stops is being joined.
Bridges ==
    \A c \in Consumers :
        /\ bridge[c] \in Open => c = registry
        /\ bridge[c] = "stopping" => \E s \in Subscribers : phase[s] = "joining" /\ closing[s] = c

\* A routing task ends with its bridge, and every handler has one.
Routers ==
    /\ \A c \in Consumers : reader[c] = "ended" => bridge[c] \notin Open \cup {"new"}
    /\ \A s \in Handlers : phase[s] = "on" /\ bridge[held[s]] \in Open => reader[held[s]] = "reading"

LifeInv == LifeTypes /\ InTurn /\ Members /\ Users /\ Leavers /\ Current /\ Bridges /\ Routers

\* What is unacked is unacked on a connection that is open, or about to be closed.
OnAConnection ==
    \A m \in Tasks : status[m] = "unacked" =>
        via[m] \in Consumers /\ bridge[via[m]] \in {"running", "stopping"}

QueueInv == LifeInv /\ TaskTypes /\ OnAConnection

-----------------------------------------------------------------------------
(* The list of subscribers of a consumer *)

\* What leaves a list is gone, and the rest stays, once each.
LEMMA Detached ==
    ASSUME NEW S, NEW list \in Seq(S), Once(list), NEW s
    PROVE  /\ Detach(list, s) \in Seq(S) /\ Once(Detach(list, s))
           /\ Range(Detach(list, s)) = Range(list) \ {s}
<1>1. /\ Len(list) \in Nat /\ Range(list) = {list[i] : i \in 1..Len(list)}
      /\ \A i \in 1..Len(list) : list[i] \in S
  BY LenProperties, RangeEquality, ElementOfSeq
<1>2. CASE ~ \E i \in 1..Len(list) : list[i] = s
  BY <1>1, <1>2 DEF Detach, RemoveFirst
<1>3. CASE \E i \in 1..Len(list) : list[i] = s
  <2>1. PICK k \in 1..Len(list) : list[k] = s
    BY <1>3
  <2>2. {i \in 1..Len(list) : list[i] = s} = {k}
    BY <2>1 DEF Once
  <2>3. SelectInSeq(list, LAMBDA v : v = s) = k
    <3>1. Min({k}) = k
      BY <1>1 DEF Min
    <3> QED BY <2>2, <3>1 DEF SelectInSeq
  <2> DEFINE front == SubSeq(list, 1, k - 1)
             back == SubSeq(list, k + 1, Len(list))
             left == front \o back
  <2>4. Detach(list, s) = left
    BY <1>3, <2>3 DEF Detach, RemoveFirst, RemoveAt
  <2>5. /\ front \in Seq(S) /\ Len(front) = k - 1
        /\ \A i \in 1..(k - 1) : front[i] = list[i]
    <3>1. \A i \in 1..(k - 1) : list[i] \in S
      BY <1>1
    <3> QED BY <1>1, <3>1, SubSeqProperties
  <2>6. /\ back \in Seq(S) /\ Len(back) = Len(list) - k
        /\ \A i \in 1..(Len(list) - k) : back[i] = list[k + i]
    <3>1. \A i \in (k + 1)..Len(list) : list[i] \in S
      BY <1>1
    <3> QED BY <1>1, <3>1, SubSeqProperties
  <2>7. /\ left \in Seq(S) /\ Len(left) = Len(list) - 1
        /\ \A i \in 1..(Len(list) - 1) : left[i] = IF i <= k - 1 THEN front[i] ELSE back[i - (k - 1)]
    <3> HIDE DEF front, back
    <3>1. /\ left \in Seq(S) /\ Len(left) = Len(front) + Len(back)
          /\ \A i \in 1..(Len(front) + Len(back)) :
                left[i] = IF i <= Len(front) THEN front[i] ELSE back[i - Len(front)]
      BY <2>5, <2>6, ConcatProperties
    <3>2. Len(front) = k - 1 /\ Len(front) + Len(back) = Len(list) - 1
      BY <1>1, <2>5, <2>6
    <3> QED BY <3>1, <3>2
  <2> HIDE DEF front, back, left
  <2>8. \A i \in 1..(Len(list) - 1) : left[i] = IF i < k THEN list[i] ELSE list[i + 1]
    <3>1. ASSUME NEW i \in 1..(Len(list) - 1), i < k PROVE left[i] = list[i]
      BY <1>1, <2>5, <2>7, <3>1
    <3>2. ASSUME NEW i \in 1..(Len(list) - 1), ~(i < k) PROVE left[i] = list[i + 1]
      <4>1. /\ i - (k - 1) \in 1..(Len(list) - k) /\ k + (i - (k - 1)) = i + 1
            /\ ~(i <= k - 1)
        BY <1>1, <3>2
      <4>2. left[i] = back[i - (k - 1)]
        BY <2>7, <4>1
      <4>3. back[i - (k - 1)] = list[k + (i - (k - 1))]
        BY <2>6, <4>1
      <4> QED BY <4>1, <4>2, <4>3
    <3> QED BY <3>1, <3>2
  <2>9. Once(left)
    BY <1>1, <2>7, <2>8 DEF Once
  <2>10. Range(left) = {left[i] : i \in 1..(Len(list) - 1)}
    BY <2>7, RangeEquality
  <2>11. ASSUME NEW x \in Range(left) PROVE x \in Range(list) \ {s}
    <3>1. PICK i \in 1..(Len(list) - 1) : x = left[i]
      BY <2>10, <2>11
    <3> QED BY <1>1, <2>1, <2>8, <3>1 DEF Once
  <2>12. ASSUME NEW x \in Range(list) \ {s} PROVE x \in Range(left)
    <3>1. PICK j \in 1..Len(list) : x = list[j]
      BY <1>1, <2>12
    <3>2. CASE j < k
      <4>1. j \in 1..(Len(list) - 1) /\ left[j] = x
        BY <1>1, <2>8, <3>1, <3>2
      <4> QED BY <2>10, <4>1
    <3>3. CASE j > k
      <4>1. j - 1 \in 1..(Len(list) - 1) /\ ~(j - 1 < k) /\ (j - 1) + 1 = j
        BY <1>1, <3>1, <3>3
      <4>2. left[j - 1] = x
        BY <2>8, <3>1, <4>1
      <4> QED BY <2>10, <4>1, <4>2
    <3>4. j # k
      BY <2>1, <2>12, <3>1
    <3> QED BY <1>1, <3>2, <3>3, <3>4
  <2> QED BY <2>4, <2>7, <2>9, <2>11, <2>12
<1> QED BY <1>2, <1>3

\* A subscriber with handlers is on the list, once.
LEMMA IsRegistered ==
    ASSUME NEW S, NEW list \in Seq(S), Once(list), NEW s, s \in Handlers => s \in S
    PROVE  /\ Registered(list, s) \in Seq(S) /\ Once(Registered(list, s))
           /\ Range(Registered(list, s)) = Range(list) \cup ({s} \cap Handlers)
<1>1. /\ Len(list) \in Nat /\ Range(list) = {list[i] : i \in 1..Len(list)}
  BY LenProperties, RangeEquality
<1>2. CASE s \in Handlers /\ \A i \in 1..Len(list) : list[i] # s
  <2>1. /\ Append(list, s) \in Seq(S) /\ Len(Append(list, s)) = Len(list) + 1
        /\ \A i \in 1..Len(list) : Append(list, s)[i] = list[i]
        /\ Append(list, s)[Len(list) + 1] = s
    BY <1>2, AppendProperties
  <2>2. Range(Append(list, s)) = {Append(list, s)[i] : i \in 1..(Len(list) + 1)}
    BY <2>1, RangeEquality
  <2>3. Range(Append(list, s)) = Range(list) \cup {s}
    BY <1>1, <2>1, <2>2
  <2>4. Once(Append(list, s))
    BY <1>1, <1>2, <2>1 DEF Once
  <2> QED BY <1>2, <2>1, <2>3, <2>4 DEF Registered
<1>3. CASE ~(s \in Handlers /\ \A i \in 1..Len(list) : list[i] # s)
  BY <1>1, <1>3 DEF Registered
<1> QED BY <1>2, <1>3

\* Somebody is on a list exactly when it is not empty.
LEMMA NonEmpty ==
    ASSUME NEW S, NEW list \in Seq(S)
    PROVE  list = <<>> <=> Range(list) = {}
<1>1. /\ Len(list) \in Nat /\ Range(list) = {list[i] : i \in 1..Len(list)}
      /\ (list = <<>> <=> Len(list) = 0)
  BY LenProperties, RangeEquality, EmptySeq
<1>2. ASSUME list # <<>> PROVE list[1] \in Range(list)
  BY <1>1, <1>2
<1>3. ASSUME list = <<>> PROVE Range(list) = {}
  BY <1>1, <1>3
<1> QED BY <1>2, <1>3

-----------------------------------------------------------------------------
(* Deliveries: nothing of the lifecycle changes *)

\* A settlement never makes a task unacked.
LEMMA Settles ==
    ASSUME TaskTypes, OnAConnection, NEW m \in Tasks,
           NEW outcome \in {"acked", "rejected", "requeued"}, Settle(m, outcome),
           UNCHANGED <<bridge, via, owner, waited, ran>>
    PROVE  TaskTypes' /\ OnAConnection'
<1>1. status' \in [Tasks -> {"ready", "unacked", "acked", "rejected"}]
  BY DEF Settle, TaskTypes
<1>2. place' \in [Tasks -> {"queue", "buffer", "deferred", "routed", "fired", "pulled", "left"}]
  BY DEF Settle, TaskTypes
<1>3. cancelled' \subseteq Tasks
  BY DEF Settle, TaskTypes
<1>4. \A k \in Tasks : status'[k] = "unacked" => status[k] = "unacked"
  BY DEF Settle, TaskTypes
<1>5. OnAConnection'
  BY <1>4 DEF OnAConnection
<1> QED BY <1>1, <1>2, <1>3, <1>5 DEF TaskTypes

\* Nor does the dispatch of a delivery.
LEMMA Dispatches ==
    ASSUME TaskTypes, OnAConnection, NEW s \in Subscribers \cup {NoOne}, NEW m \in Tasks,
           NEW how \in {"routed", "fired"}, Dispatch(s, m, how), UNCHANGED <<bridge, via>>
    PROVE  TaskTypes' /\ OnAConnection'
<1>1. CASE /\ Settle(m, "acked") \/ Settle(m, "rejected")
           /\ UNCHANGED <<owner, waited, ran>>
  BY <1>1, Settles
<1>2. CASE UNCHANGED <<status, cancelled>>
           /\ \E to \in {"deferred", "routed", "fired"} : place' = [place EXCEPT ![m] = to]
           /\ owner' = [owner EXCEPT ![m] = s]
           /\ waited' \subseteq waited \cup {m} /\ ran' \subseteq ran \cup {m}
  BY <1>2 DEF TaskTypes, OnAConnection
<1> QED BY <1>1, <1>2 DEF Dispatch

LEMMA SelectedIsMember ==
    ASSUME LifeTypes, NEW c \in Consumers, NEW name, NEW s \in Selected(members[c], name)
    PROVE  s \in Subscribers
<1>1. members[c] \in Seq(Handlers)
  BY DEF LifeTypes
<1>2. \A i \in DOMAIN members[c] : members[c][i] \in Handlers
  BY <1>1, LenProperties, ElementOfSeq
<1>3. \E i \in DOMAIN members[c] : s = members[c][i]
  BY DEF Selected
<1> QED BY <1>2, <1>3, SubscriberAssumption

\* LifeInv is about lifeVars.
LEMMA LifeGoesOn == LifeInv /\ UNCHANGED lifeVars => LifeInv'
BY DEF lifeVars, LifeInv, LifeTypes, InTurn, Members, Users, Leavers, Current, Bridges, Routers

LEMMA DeliveryKeeps ==
    ASSUME QueueInv, UNCHANGED lifeVars,
           \/ \E c \in Consumers, m \in Tasks : Deliver(c, m) \/ Route(c, m)
           \/ \E m \in Tasks : Fire(m) \/ Finish(m) \/ AckPulled(m) \/ Unwind(m)
           \/ \E s \in Subscribers, m \in Tasks : Pull(s, m)
    PROVE  QueueInv'
<1> USE DEF QueueInv
<1>1. LifeInv' /\ UNCHANGED bridge
  BY LifeGoesOn DEF lifeVars
<1>2. ASSUME NEW c \in Consumers, NEW m \in Tasks, Deliver(c, m)
      PROVE  TaskTypes' /\ OnAConnection'
  BY <1>1, <1>2 DEF Deliver, TaskTypes, OnAConnection, Consumers
<1>3. ASSUME NEW c \in Consumers, NEW m \in Tasks, Route(c, m)
      PROVE  TaskTypes' /\ OnAConnection'
  <2>1. UNCHANGED via
    BY <1>3 DEF Route
  <2>2. ASSUME NEW s \in Selected(members[c], Name[m]), Dispatch(s, m, "routed")
        PROVE  TaskTypes' /\ OnAConnection'
    BY <1>1, <2>1, <2>2, SelectedIsMember, Dispatches DEF LifeInv
  <2>3. CASE Drop(m) /\ UNCHANGED <<owner, waited, ran>>
    BY <1>1, <2>1, <2>3, Settles DEF Drop
  <2> QED BY <1>3, <2>2, <2>3 DEF Route
<1>4. ASSUME NEW m \in Tasks, Fire(m) PROVE TaskTypes' /\ OnAConnection'
  <2>1. owner[m] \in Subscribers \cup {NoOne}
    BY DEF TaskTypes
  <2> QED BY <1>1, <1>4, <2>1, Dispatches DEF Fire
<1>5. ASSUME NEW m \in Tasks, Finish(m) \/ AckPulled(m) \/ Unwind(m)
      PROVE  TaskTypes' /\ OnAConnection'
  BY <1>1, <1>5, Settles, PolicyAssumption DEF Finish, AckPulled, Unwind
<1>6. ASSUME NEW s \in Subscribers, NEW m \in Tasks, Pull(s, m)
      PROVE  TaskTypes' /\ OnAConnection'
  BY <1>1, <1>6 DEF Pull, TaskTypes, OnAConnection
<1> QED BY <1>1, <1>2, <1>3, <1>4, <1>5, <1>6

-----------------------------------------------------------------------------
(* Steps of the bridge and of the routing task *)

LEMMA InTurnKept ==
    ASSUME InTurn, \A c \in Consumers : bridge'[c] = "new" <=> bridge[c] = "new"
    PROVE  InTurn'
BY DEF InTurn

LEMMA TasksKept ==
    ASSUME TaskTypes, OnAConnection, UNCHANGED taskVars,
           \A c \in Consumers : bridge[c] \in {"running", "stopping"}
                                    => bridge'[c] \in {"running", "stopping"}
    PROVE  TaskTypes' /\ OnAConnection'
BY DEF taskVars, TaskTypes, OnAConnection

LEMMA BridgeRunsKeeps == ASSUME QueueInv, NEW c \in Consumers, BridgeRuns(c) PROVE QueueInv'
<1> USE DEF QueueInv, LifeInv, BridgeRuns
<1>1. /\ bridge \in [Consumers -> {"new", "starting", "running", "failed", "stopping", "stopped"}]
      /\ \A d \in Consumers : bridge'[d] = IF d = c THEN "running" ELSE bridge[d]
  BY DEF LifeTypes
<1>2. LifeTypes'
  BY DEF LifeTypes
<1>3. InTurn'
  BY <1>1, InTurnKept
<1>4. Members'
  BY DEF Members
<1>5. Users'
  BY <1>1 DEF Users, Open
<1>6. Leavers'
  BY <1>1 DEF Leavers
<1>7. Current'
  BY <1>1 DEF Current, Open, LifeTypes, Consumers
<1>8. Bridges'
  BY <1>1 DEF Bridges, Open
<1>9. Routers'
  <2>1. \A s \in Handlers : phase[s] = "on" => held[s] \in Consumers
    BY DEF Users, Active
  <2> QED BY <1>1, <2>1 DEF Routers, Open
<1>10. TaskTypes' /\ OnAConnection'
  BY <1>1, TasksKept DEF taskVars
<1> QED BY <1>2, <1>3, <1>4, <1>5, <1>6, <1>7, <1>8, <1>9, <1>10

LEMMA RouterEndsKeeps == ASSUME QueueInv, NEW c \in Consumers, RouterEnds(c) PROVE QueueInv'
<1> USE DEF QueueInv, LifeInv, RouterEnds
<1>1. LifeTypes' /\ \A d \in Consumers : reader'[d] = IF d = c THEN "ended" ELSE reader[d]
  BY DEF LifeTypes
<1>2. InTurn' /\ Members' /\ Users' /\ Leavers' /\ Current' /\ Bridges'
  BY DEF InTurn, Members, Users, Leavers, Current, Bridges
<1>3. Routers'
  <2>1. \A s \in Handlers : phase[s] = "on" => held[s] \in Consumers
    BY DEF Users, Active
  <2> QED BY <1>1, <2>1 DEF Routers, Open
<1>4. TaskTypes' /\ OnAConnection'
  BY TasksKept DEF taskVars
<1> QED BY <1>1, <1>2, <1>3, <1>4

\* A bridge that fails gives back what was unacked on it.
LEMMA DiesKeeps == ASSUME QueueInv, NEW c \in Consumers, Dies(c) PROVE QueueInv'
<1> USE DEF QueueInv, LifeInv, Dies
<1>1. /\ bridge \in [Consumers -> {"new", "starting", "running", "failed", "stopping", "stopped"}]
      /\ \A d \in Consumers : bridge'[d] = IF d = c THEN "failed" ELSE bridge[d]
  BY DEF LifeTypes
<1>2. LifeTypes'
  BY BoundAssumption DEF LifeTypes
<1>3. InTurn'
  BY <1>1, InTurnKept
<1>4. Members'
  BY DEF Members
<1>5. Users'
  BY <1>1 DEF Users, Open
<1>6. Leavers'
  BY <1>1 DEF Leavers
<1>7. Current'
  BY <1>1 DEF Current, Open, LifeTypes, Consumers
<1>8. Bridges'
  BY <1>1 DEF Bridges, Open
<1>9. Routers'
  <2>1. \A s \in Handlers : phase[s] = "on" => held[s] \in Consumers
    BY DEF Users, Active
  <2> QED BY <1>1, <2>1 DEF Routers, Open
<1>10. TaskTypes'
  BY DEF TaskTypes
<1>11. OnAConnection'
  <2>1. \A m \in Tasks : status'[m] = "unacked" => status[m] = "unacked" /\ via[m] # c
    BY DEF Unacked, TaskTypes
  <2> QED BY <1>1, <2>1 DEF OnAConnection
<1> QED BY <1>2, <1>3, <1>4, <1>5, <1>6, <1>7, <1>8, <1>9, <1>10, <1>11

-----------------------------------------------------------------------------
(* start() *)

\* A consumer that has subscribers and whose bridge is not over gets its reader.
LEMMA ReaderIs ==
    ASSUME LifeTypes, NEW c \in Consumers, NEW list
    PROVE  /\ WithReader(c, list) \in [Consumers -> {"none", "reading", "ended"}]
           /\ \A d \in Consumers \ {c} : WithReader(c, list)[d] = reader[d]
           /\ WithReader(c, list)[c] = "ended" => reader[c] = "ended"
           /\ reader[c] = "reading" => WithReader(c, list)[c] = "reading"
           /\ reader[c] # "ended" /\ list # <<>> => WithReader(c, list)[c] = "reading"
BY DEF LifeTypes, WithReader

LEMMA StartedKeeps == ASSUME QueueInv, NEW s \in Subscribers, Started(s) PROVE QueueInv'
<1> USE DEF QueueInv, LifeInv, Started
<1> DEFINE c == held[s]
<1>1. /\ \A t \in Subscribers : phase'[t] = IF t = s THEN "on" ELSE phase[t]
      /\ \A t \in Subscribers : phase'[t] \in Active <=> phase[t] \in Active
      /\ \A t \in Subscribers : phase'[t] \in Leaving => phase'[t] = phase[t]
      /\ \A t \in Subscribers : phase'[t] = "off" <=> phase[t] = "off"
  BY DEF LifeTypes, Active, Leaving
<1>2. reader' \in [Consumers -> {"none", "reading", "ended"}]
  <2>1. CASE bridge[c] = "running"
    <3>1. c \in Consumers \/ c = 0
      BY DEF LifeTypes, Consumers
    <3> QED BY <2>1, <3>1, ReaderIs DEF LifeTypes, WithReader
  <2> QED BY <2>1 DEF LifeTypes
<1>3. LifeTypes'
  BY <1>2 DEF LifeTypes, Active
<1>4. InTurn' /\ Current'
  BY <1>1 DEF InTurn, Current
<1>5. Members'
  <2>1. \A d \in Consumers : Range(members[d]) \subseteq Subscribers
    <3>1. \A d \in Consumers : members[d] \in Seq(Handlers)
      BY DEF LifeTypes
    <3> QED BY <3>1, RangeOfSeq, SubscriberAssumption
  <2> QED BY <1>1, <2>1 DEF Members
<1>6. Users'
  BY <1>1, SubscriberAssumption DEF Users
<1>7. Leavers'
  BY <1>1 DEF Leavers
<1>8. Bridges'
  <2>1. \A t \in Subscribers : phase[t] = "joining" => phase'[t] = "joining"
    BY <1>1
  <2> QED BY <2>1 DEF Bridges
<1>9. Routers'
  <2>1. ASSUME NEW d \in Consumers, reader'[d] = "ended" PROVE bridge[d] \notin Open \cup {"new"}
    <3>1. reader[d] = "ended" \/ (d = c /\ reader' = WithReader(c, members[c]))
      BY <2>1, ReaderIs DEF LifeTypes, WithReader
    <3>2. reader[d] = "ended"
      BY <2>1, <3>1, ReaderIs
    <3> QED BY <3>2 DEF Routers
  <2>2. ASSUME NEW t \in Handlers, phase'[t] = "on", bridge[held[t]] \in Open
        PROVE  reader'[held[t]] = "reading"
    <3>1. /\ phase[t] \in Active /\ held[t] \in Consumers /\ held[t] = registry
          /\ t \in Range(members[held[t]]) /\ members[held[t]] \in Seq(Handlers)
      <4>1. phase[t] \in Active
        BY <1>1, <2>2, SubscriberAssumption DEF Active
      <4> QED BY <4>1 DEF Users, LifeTypes
    <3>2. members[held[t]] # <<>>
      BY <3>1, NonEmpty
    <3>3. reader[held[t]] # "ended"
      BY <2>2, <3>1 DEF Routers
    <3>4. CASE t = s
      <4>1. bridge[held[t]] = "running"
        BY <2>2, <3>4 DEF Open
      <4> QED BY <3>1, <3>2, <3>3, <3>4, <4>1, ReaderIs
    <3>5. CASE t # s
      <4>1. reader[held[t]] = "reading"
        BY <1>1, <2>2, <3>5, SubscriberAssumption DEF Routers
      <4>2. CASE bridge[c] = "running" /\ c = held[t]
        BY <3>1, <4>1, <4>2, ReaderIs
      <4>3. CASE ~(bridge[c] = "running" /\ c = held[t])
        BY <3>1, <4>1, <4>3 DEF WithReader, LifeTypes
      <4> QED BY <4>2, <4>3
    <3> QED BY <3>4, <3>5
  <2> QED BY <2>1, <2>2 DEF Routers
<1>10. TaskTypes' /\ OnAConnection'
  BY TasksKept
<1> QED BY <1>3, <1>4, <1>5, <1>6, <1>7, <1>8, <1>9, <1>10

\* The next consumer is one that was never started.
LEMMA FreshIsNew ==
    ASSUME LifeInv, Fresh \in Consumers
    PROVE  /\ bridge[Fresh] = "new"
           /\ \A c \in Consumers : bridge[c] = "new" <=> c >= Fresh
<1>1. PICK n \in 0..MaxConsumers : \A c \in Consumers : bridge[c] = "new" <=> c > n
  BY DEF LifeInv, InTurn
<1>2. MaxConsumers \in Nat /\ n \in Nat
  BY BoundAssumption
<1>3. {c \in Consumers : bridge[c] # "new"} = 1..n
  BY <1>1, <1>2 DEF Consumers
<1>4. Cardinality(1..n) = n
  <2>1. Cardinality(1..n) = IF 1 > n THEN 0 ELSE n - 1 + 1
    BY <1>2, FS_Interval
  <2> QED BY <1>2, <2>1
<1>5. Fresh = n + 1
  <2>1. Fresh = 1 + Cardinality({c \in Consumers : bridge[c] # "new"})
    BY Zenon DEF Fresh
  <2>2. Cardinality({c \in Consumers : bridge[c] # "new"}) = n
    BY <1>3, <1>4, Zenon
  <2> QED BY <1>2, <2>1, <2>2
<1> QED BY <1>1, <1>2, <1>5 DEF Consumers

\* While nobody stops, the consumer to join is one that reads, will, or failed, and
\* a new one has nobody on it.
LEMMA AcquiredIs ==
    ASSUME LifeInv, Acquired \in Consumers, \A t \in Subscribers : phase[t] \notin Leaving
    PROVE  \/ registry = Acquired /\ bridge[Acquired] \in Open \cup {"failed"}
           \/ /\ registry = 0 /\ bridge[Acquired] = "new" /\ members[Acquired] = <<>>
              /\ \A c \in Consumers : bridge[c] = "new" <=> c >= Acquired
              /\ \A c \in Consumers : bridge[c] \notin Open \cup {"stopping"}
              /\ \A t \in Handlers : phase[t] \notin Active
<1> USE DEF LifeInv
<1>1. \A c \in Consumers : bridge[c] # "stopping"
  BY DEF Bridges, Leaving
<1>2. CASE registry # 0
  <2>1. registry \in Consumers
    BY <1>2 DEF LifeTypes, Consumers
  <2> QED BY <1>1, <1>2, <2>1 DEF Current, Acquired
<1>3. CASE registry = 0
  <2>1. Acquired = Fresh /\ registry \notin Consumers
    BY <1>3 DEF Acquired, Consumers
  <2>2. members[Acquired] \in Seq(Handlers) /\ Range(members[Acquired]) = {}
    BY <1>3, <2>1 DEF LifeTypes, Members
  <2>3. members[Acquired] = <<>>
    BY <2>2, NonEmpty
  <2>4. \A c \in Consumers : bridge[c] \notin Open
    BY <2>1 DEF Bridges
  <2>5. \A t \in Handlers : phase[t] \notin Active
    BY <2>1 DEF Users
  <2> QED BY <1>1, <1>3, <2>1, <2>3, <2>4, <2>5, FreshIsNew
<1> QED BY <1>2, <1>3

LEMMA StartKeeps == ASSUME QueueInv, ~Overlap, NEW s \in Subscribers, Start(s) PROVE QueueInv'
<1> USE DEF QueueInv, LifeInv
<1>1. PICK c \in Consumers : c = Acquired
  BY DEF Start
<1>2. PICK list : list = Registered(members[c], s)
  OBVIOUS
<1>3. /\ registry' = c /\ held' = [held EXCEPT ![s] = c] /\ members' = [members EXCEPT ![c] = list]
      /\ phase[s] = "off" /\ starts < MaxStarts /\ starts' = starts + 1
      /\ raised' = raised \ {s}
      /\ UNCHANGED <<closing, deaths, taskVars>>
      /\ \A t \in Subscribers : phase[t] \in {"off", "starting", "on"}
  BY <1>1, <1>2 DEF Start
<1>4. \/ /\ bridge[c] = "new" /\ bridge' = [bridge EXCEPT ![c] = "starting"]
         /\ phase' = [phase EXCEPT ![s] = "starting"] /\ reader' = reader
      \/ /\ bridge[c] # "new" /\ bridge' = bridge /\ phase' = [phase EXCEPT ![s] = "on"]
         /\ reader' = IF bridge[c] = "failed" THEN reader ELSE WithReader(c, list)
  BY <1>1, <1>2 DEF Start
<1>5. \/ registry = c /\ bridge[c] \in Open \cup {"failed"}
      \/ /\ registry = 0 /\ bridge[c] = "new" /\ members[c] = <<>>
         /\ \A d \in Consumers : bridge[d] = "new" <=> d >= c
         /\ \A d \in Consumers : bridge[d] \notin Open \cup {"stopping"}
         /\ \A t \in Handlers : phase[t] \notin Active
  BY <1>1, <1>3, AcquiredIs DEF Leaving
<1>6. /\ list \in Seq(Handlers) /\ Once(list)
      /\ Range(list) = Range(members[c]) \cup ({s} \cap Handlers)
  <2>1. members[c] \in Seq(Handlers) /\ Once(members[c])
    BY DEF LifeTypes, Members
  <2> QED BY <1>2, <2>1, IsRegistered
<1>7. /\ \A d \in Consumers : members'[d] = IF d = c THEN list ELSE members[d]
      /\ \A t \in Subscribers : t # s => phase'[t] = phase[t] /\ held'[t] = held[t]
      /\ phase'[s] \in {"starting", "on"} /\ held'[s] = c
      /\ \A d \in Consumers : d # c => bridge'[d] = bridge[d]
      /\ bridge[c] = "new" => bridge'[c] = "starting" /\ phase'[s] = "starting"
      /\ bridge[c] # "new" => bridge'[c] = bridge[c]
  BY <1>3, <1>4 DEF LifeTypes
<1>8. bridge'[c] \in Open \cup {"failed"} /\ c # 0
  BY <1>5, <1>7 DEF Open, Consumers
<1>9. \A t \in Subscribers : phase'[t] \notin Leaving
  BY <1>3, <1>7 DEF Leaving
<1>10. LifeTypes'
  <2>1. reader' \in [Consumers -> {"none", "reading", "ended"}]
    BY <1>4, ReaderIs DEF LifeTypes
  <2>2. members' \in [Consumers -> Seq(Handlers)]
    BY <1>3, <1>6 DEF LifeTypes
  <2>3. /\ bridge' \in [Consumers -> {"new", "starting", "running", "failed", "stopping", "stopped"}]
        /\ phase' \in [Subscribers -> {"off"} \cup Active \cup Leaving]
    BY <1>4 DEF LifeTypes, Active
  <2>4. /\ registry' \in 0..MaxConsumers /\ held' \in [Subscribers -> 0..MaxConsumers]
        /\ starts' \in 0..MaxStarts
    BY <1>3, BoundAssumption DEF LifeTypes, Consumers
  <2> QED BY <1>3, <2>1, <2>2, <2>3, <2>4 DEF LifeTypes
<1>11. InTurn'
  <2>1. CASE bridge[c] = "new"
    <3>1. \A d \in Consumers : bridge'[d] = "new" <=> d > c
      BY <1>5, <1>7, <2>1, BoundAssumption DEF Consumers, Open
    <3>2. c \in 0..MaxConsumers
      BY BoundAssumption DEF Consumers
    <3> QED BY <3>1, <3>2 DEF InTurn
  <2>2. CASE bridge[c] # "new"
    BY <1>7, <2>2, InTurnKept
  <2> QED BY <2>1, <2>2
<1>12. Members'
  <2>1. ASSUME NEW d \in Consumers, NEW t \in Range(members'[d])
        PROVE  d = c /\ phase'[t] \in Active
    <3>1. \A e \in Consumers : \A u \in Range(members[e]) :
              u \in Subscribers /\ u # s /\ e = registry /\ phase[u] \in Active
      <4>1. \A e \in Consumers : members[e] \in Seq(Handlers)
        BY DEF LifeTypes
      <4>2. \A e \in Consumers : Range(members[e]) \subseteq Subscribers
        BY <4>1, RangeOfSeq, SubscriberAssumption
      <4> QED BY <1>3, <4>2 DEF Members, Active
    <3>2. CASE d # c
      <4>1. t \in Range(members[d])
        BY <1>7, <2>1, <3>2
      <4>2. d = registry /\ d # 0
        BY <3>1, <4>1 DEF Consumers
      <4> QED BY <1>5, <3>2, <4>2
    <3>3. CASE d = c
      <4>1. t = s \/ t \in Range(members[c])
        BY <1>6, <1>7, <2>1, <3>3
      <4>2. CASE t = s
        BY <1>7, <3>3, <4>2 DEF Active
      <4>3. CASE t \in Range(members[c])
        BY <1>7, <3>1, <3>3, <4>3
      <4> QED BY <4>1, <4>2, <4>3
    <3> QED BY <3>2, <3>3
  <2>2. \A d \in Consumers : Once(members'[d])
    BY <1>6, <1>7 DEF Members
  <2> QED BY <1>3, <2>1, <2>2 DEF Members
<1>13. Users'
  <2>1. ASSUME NEW t \in Handlers, phase'[t] \in Active
        PROVE  held'[t] = c /\ t \in Range(members'[c])
    <3>1. CASE t = s
      BY <1>6, <1>7, <2>1, <3>1
    <3>2. CASE t # s
      <4>1. phase[t] \in Active /\ held'[t] = held[t]
        BY <1>7, <2>1, <3>2, SubscriberAssumption
      <4>2. registry = c
        BY <1>5, <4>1
      <4>3. held[t] = c /\ t \in Range(members[c])
        BY <4>1, <4>2 DEF Users
      <4> QED BY <1>6, <1>7, <4>1, <4>3
    <3> QED BY <3>1, <3>2
  <2> QED BY <1>3, <1>8, <2>1 DEF Users
<1>14. Leavers'
  BY <1>9 DEF Leavers
<1>15. Current'
  <2>1. phase'[s] # "off"
    BY <1>7
  <2> QED BY <1>3, <1>8, <2>1 DEF Current
<1>16. Bridges'
  <2>1. ASSUME NEW d \in Consumers, d # c PROVE bridge'[d] \notin Open \cup {"stopping"}
    <3>1. bridge'[d] = bridge[d]
      BY <1>7, <2>1
    <3>2. CASE registry = c
      BY <1>3, <2>1, <3>1, <3>2 DEF Bridges
    <3>3. CASE registry = 0
      BY <1>5, <1>8, <3>1, <3>3
    <3> QED BY <1>5, <3>2, <3>3
  <2> QED BY <1>3, <1>8, <2>1 DEF Bridges, Open
<1>17. Routers'
  <2>1. \A d \in Consumers : reader'[d] = "ended" => reader[d] = "ended"
    BY <1>4, ReaderIs DEF LifeTypes
  <2>2. \A d \in Consumers : reader[d] = "ended" => bridge'[d] \notin Open \cup {"new"}
    BY <1>7 DEF Routers
  <2>3. ASSUME NEW t \in Handlers, phase'[t] = "on", bridge'[held'[t]] \in Open
        PROVE  reader'[held'[t]] = "reading"
    <3>1. held'[t] = c /\ t \in Range(list)
      <4>1. phase'[t] \in Active
        BY <2>3 DEF Active
      <4> QED BY <1>3, <1>7, <1>13, <4>1 DEF Users
    <3>2. list # <<>>
      BY <1>6, <3>1, NonEmpty
    <3>3. bridge[c] # "new"
      <4>1. CASE t = s
        BY <1>7, <2>3, <4>1
      <4>2. CASE t # s
        <5>1. phase[t] = "on"
          BY <1>7, <2>3, <4>2, SubscriberAssumption
        <5> QED BY <1>5, <5>1 DEF Active, Open
      <4> QED BY <4>1, <4>2
    <3>4. bridge[c] \in Open /\ reader' = WithReader(c, list) /\ reader[c] # "ended"
      BY <1>4, <2>3, <3>1, <3>3 DEF Routers, Open
    <3> QED BY <3>1, <3>2, <3>4, ReaderIs
  <2> QED BY <2>1, <2>2, <2>3 DEF Routers
<1>18. TaskTypes' /\ OnAConnection'
  <2>1. \A d \in Consumers : bridge[d] \in {"running", "stopping"} => bridge'[d] = bridge[d]
    BY <1>7
  <2> QED BY <1>3, <2>1, TasksKept
<1> QED BY <1>10, <1>11, <1>12, <1>13, <1>14, <1>15, <1>16, <1>17, <1>18

-----------------------------------------------------------------------------
(* stop() *)

\* A subscriber that waits for its handlers or timers is still on the consumer.
LEMMA StaysActive ==
    ASSUME LifeInv, NEW s \in Subscribers, phase[s] \in Active,
           NEW p \in Active \ {"on"}, phase' = [phase EXCEPT ![s] = p],
           UNCHANGED <<registry, members, reader, bridge, held, closing, raised, starts, deaths>>
    PROVE  LifeInv'
<1> USE DEF LifeInv
<1>1. /\ \A t \in Subscribers : phase'[t] = IF t = s THEN p ELSE phase[t]
      /\ \A t \in Subscribers : phase'[t] \in Active <=> phase[t] \in Active
      /\ \A t \in Subscribers : phase'[t] \in Leaving => phase'[t] = phase[t]
      /\ \A t \in Subscribers : phase'[t] = "off" <=> phase[t] = "off"
      /\ \A t \in Subscribers : phase[t] = "joining" => phase'[t] = "joining"
      /\ \A t \in Subscribers : phase'[t] = "on" => phase[t] = "on"
  BY DEF LifeTypes, Active, Leaving
<1>2. LifeTypes'
  BY DEF LifeTypes, Active
<1>3. InTurn' /\ Current' /\ Bridges'
  BY <1>1 DEF InTurn, Current, Bridges
<1>4. Members'
  <2>1. \A d \in Consumers : members[d] \in Seq(Handlers)
    BY DEF LifeTypes
  <2>2. \A d \in Consumers : Range(members[d]) \subseteq Subscribers
    BY <2>1, RangeOfSeq, SubscriberAssumption
  <2> QED BY <1>1, <2>2 DEF Members
<1>5. Users' /\ Routers'
  BY <1>1, SubscriberAssumption DEF Users, Routers
<1>6. Leavers'
  BY <1>1 DEF Leavers
<1> QED BY <1>2, <1>3, <1>4, <1>5, <1>6

\* release() leaves the consumer to the others, or begins to close it.
LEMMA ReleaseKeeps ==
    ASSUME LifeInv, NEW s \in Subscribers, phase[s] \in Active, Release(s),
           UNCHANGED <<registry, raised, starts, deaths>>
    PROVE  /\ LifeInv' /\ (cancelled \subseteq Tasks => cancelled' \subseteq Tasks)
           /\ \A c \in Consumers : bridge[c] \in {"running", "stopping"}
                                       => bridge'[c] \in {"running", "stopping"}
<1> USE DEF LifeInv
<1> DEFINE c == registry
           left == Detach(members[c], s)
<1>1. held' = [held EXCEPT ![s] = 0]
  BY DEF Release
<1>2. /\ \A d \in Consumers : members[d] \in Seq(Handlers) /\ Range(members[d]) \subseteq Subscribers
      /\ \A d \in Consumers : \A t \in Range(members[d]) : d = c /\ phase[t] \in Active
  <2>1. \A d \in Consumers : members[d] \in Seq(Handlers)
    BY DEF LifeTypes
  <2> QED BY <2>1, RangeOfSeq, SubscriberAssumption DEF Members
<1>3. CASE c = 0
  <2>1. /\ phase' = [phase EXCEPT ![s] = "off"]
        /\ UNCHANGED <<members, closing, reader, bridge, cancelled>>
    BY <1>3 DEF Release
  <2>2. /\ \A t \in Subscribers : phase'[t] = IF t = s THEN "off" ELSE phase[t]
        /\ \A t \in Subscribers : t # s => held'[t] = held[t]
        /\ c \notin Consumers
    BY <1>1, <1>3, <2>1 DEF LifeTypes, Consumers
  <2>3. LifeTypes'
    BY <1>1, <2>1, BoundAssumption DEF LifeTypes
  <2>4. InTurn' /\ Current'
    BY <1>3, <2>1 DEF InTurn, Current
  <2>5. Members'
    BY <1>2, <2>1, <2>2 DEF Members
  <2>6. Users'
    BY <2>2, SubscriberAssumption DEF Users, Active
  <2>7. Leavers'
    BY <2>1, <2>2 DEF Leavers, Leaving
  <2>8. Bridges'
    BY <2>1, <2>2 DEF Bridges, Active
  <2>9. Routers'
    BY <2>1, <2>2, SubscriberAssumption DEF Routers
  <2> QED BY <2>1, <2>3, <2>4, <2>5, <2>6, <2>7, <2>8, <2>9
<1>4. CASE c # 0
  <2>1. c \in Consumers /\ members[c] \in Seq(Handlers) /\ Once(members[c])
    BY <1>4 DEF LifeTypes, Consumers, Members
  <2>2. /\ left \in Seq(Handlers) /\ Once(left) /\ Range(left) = Range(members[c]) \ {s}
        /\ (left = <<>> <=> Range(left) = {})
    <3>1. /\ left \in Seq(Handlers) /\ Once(left) /\ Range(left) = Range(members[c]) \ {s}
      BY <2>1, Detached
    <3> HIDE DEF left
    <3> QED BY <3>1, NonEmpty
  <2>3. members' = [members EXCEPT ![c] = left]
    BY <1>4 DEF Release
  <2>4. PICK p : /\ phase' = [phase EXCEPT ![s] = p]
                 /\ \/ /\ left # <<>> /\ p = "off"
                       /\ UNCHANGED <<closing, reader, bridge, cancelled>>
                    \/ /\ left = <<>> /\ p = "closing" /\ closing' = [closing EXCEPT ![s] = c]
                       /\ reader' = [reader EXCEPT ![c] = "none"]
                       /\ cancelled' = cancelled \cup Routed(c) /\ bridge' = bridge
                    \/ /\ left = <<>> /\ p = "joining" /\ closing' = [closing EXCEPT ![s] = c]
                       /\ reader' = [reader EXCEPT ![c] = "none"]
                       /\ bridge' = [bridge EXCEPT ![c] = "stopping"] /\ cancelled' = cancelled
    BY <1>4 DEF Release
  <2> HIDE DEF left
  <2>5. /\ p \in {"off", "closing", "joining"}
        /\ \A t \in Subscribers : phase'[t] = IF t = s THEN p ELSE phase[t]
        /\ \A t \in Subscribers : t # s => held'[t] = held[t] /\ closing'[t] = closing[t]
        /\ p # "off" => closing'[s] = c
        /\ \A d \in Consumers : members'[d] = IF d = c THEN left ELSE members[d]
        /\ \A d \in Consumers : d # c => reader'[d] = reader[d] /\ bridge'[d] = bridge[d]
        /\ bridge'[c] = IF p = "joining" THEN "stopping" ELSE bridge[c]
        /\ reader'[c] = IF p = "off" THEN reader[c] ELSE "none"
    BY <1>1, <2>1, <2>3, <2>4 DEF LifeTypes
  <2>6. p = "off" <=> left # <<>>
    BY <2>4
  <2>7. bridge[c] \in Open \cup {"failed", "stopping"}
    BY <1>4 DEF Current
  <2>8. LifeTypes'
    <3>1. members' \in [Consumers -> Seq(Handlers)]
      BY <2>1, <2>2, <2>3 DEF LifeTypes
    <3>2. /\ phase' \in [Subscribers -> {"off"} \cup Active \cup Leaving]
          /\ held' \in [Subscribers -> 0..MaxConsumers]
      BY <1>1, <2>4, <2>5, BoundAssumption DEF LifeTypes, Leaving
    <3>3. closing' \in [Subscribers -> 0..MaxConsumers]
      <4>1. c \in 0..MaxConsumers
        BY <2>1, BoundAssumption DEF Consumers
      <4> QED BY <2>4, <4>1 DEF LifeTypes
    <3>4. reader' \in [Consumers -> {"none", "reading", "ended"}]
      BY <2>4 DEF LifeTypes
    <3>5. bridge' \in [Consumers -> {"new", "starting", "running", "failed", "stopping",
                                     "stopped"}]
      BY <2>4 DEF LifeTypes
    <3> QED BY <3>1, <3>2, <3>3, <3>4, <3>5 DEF LifeTypes
  <2>9. InTurn'
    BY <2>1, <2>5, <2>7, InTurnKept DEF Open
  <2>10. Members'
    <3>1. \A d \in Consumers : \A t \in Range(members'[d]) : t # s /\ t \in Range(members[d])
      <4>1. \A d \in Consumers \ {c} : Range(members[d]) = {}
        BY <1>2
      <4> QED BY <2>2, <2>5, <4>1
    <3>2. \A d \in Consumers : Once(members'[d])
      BY <2>2, <2>5 DEF Members
    <3> QED BY <1>2, <2>5, <3>1, <3>2 DEF Members
  <2>11. \A t \in Handlers : phase'[t] \in Active => t # s /\ phase[t] \in Active /\ t \in Range(left)
    <3>1. ASSUME NEW t \in Handlers, phase'[t] \in Active PROVE t # s /\ phase[t] \in Active
      BY <2>5, <3>1, SubscriberAssumption DEF Active
    <3> QED BY <2>2, <3>1 DEF Users
  <2>12. Users'
    <3>1. ASSUME NEW t \in Handlers, phase'[t] \in Active PROVE p = "off"
      BY <2>2, <2>6, <2>11, <3>1
    <3> QED BY <2>1, <2>5, <2>11, <3>1, SubscriberAssumption DEF Users
  <2>13. Leavers'
    <3>1. ASSUME NEW t \in Subscribers, t # s, phase[t] \in Leaving
          PROVE  closing[t] = c /\ left = <<>>
      <4>1. closing[t] = c /\ members[c] = <<>>
        BY <1>4, <3>1 DEF Leavers
      <4> QED BY <2>1, <2>2, <4>1, NonEmpty
    <3>2. ASSUME NEW t \in Subscribers, t # s, phase'[t] \in Leaving
          PROVE  /\ closing'[t] = c /\ members'[c] = <<>>
                 /\ phase'[t] = "joining" => bridge'[c] \in {"stopping", "stopped"}
      <4>1. phase[t] \in Leaving /\ phase'[t] = phase[t] /\ closing'[t] = closing[t]
        BY <2>5, <3>2
      <4>2. closing[t] = c /\ left = <<>>
        BY <3>1, <3>2, <4>1
      <4> QED BY <2>1, <2>5, <4>1, <4>2 DEF Leavers
    <3>3. bridge'[c] # "new"
      BY <2>5, <2>7 DEF Open
    <3>4. phase'[s] \in Leaving =>
             /\ closing'[s] = c /\ members'[c] = <<>>
             /\ phase'[s] = "joining" => bridge'[c] = "stopping"
      BY <2>1, <2>5, <2>6 DEF Leaving
    <3>5. ASSUME NEW t \in Subscribers, phase'[t] \in Leaving
          PROVE  /\ closing'[t] = c /\ members'[c] = <<>>
                 /\ phase'[t] = "joining" => bridge'[c] \in {"stopping", "stopped"}
      BY <3>2, <3>4, <3>5
    <3>6. registry' = c
      OBVIOUS
    <3> QED BY <2>1, <3>3, <3>5, <3>6 DEF Leavers
  <2>14. Current'
    <3>1. \E t \in Subscribers : phase'[t] # "off"
      <4>1. CASE p # "off"
        BY <2>5, <4>1
      <4>2. CASE p = "off"
        <5>1. PICK t \in Range(left) : TRUE
          BY <2>2, <2>6, <4>2
        <5>2. t # s /\ phase[t] \in Active /\ t \in Subscribers
          BY <1>2, <2>1, <2>2, <5>1
        <5> QED BY <2>5, <5>2 DEF Active
      <4> QED BY <4>1, <4>2
    <3> QED BY <2>5, <2>7, <3>1 DEF Current
  <2>15. Bridges'
    <3>1. ASSUME NEW d \in Consumers PROVE bridge'[d] \in Open => d = c
      BY <2>5, <3>1 DEF Bridges, Open
    <3>2. ASSUME NEW d \in Consumers, bridge'[d] = "stopping"
          PROVE  \E t \in Subscribers : phase'[t] = "joining" /\ closing'[t] = d
      <4>1. CASE p = "joining" /\ d = c
        BY <2>5, <4>1
      <4>2. CASE ~(p = "joining" /\ d = c)
        <5>1. bridge[d] = "stopping"
          BY <2>5, <3>2, <4>2
        <5>2. PICK t \in Subscribers : phase[t] = "joining" /\ closing[t] = d
          BY <5>1 DEF Bridges
        <5> QED BY <2>5, <5>2 DEF Active
      <4> QED BY <4>1, <4>2
    <3> QED BY <3>1, <3>2 DEF Bridges
  <2>16. Routers'
    <3>1. ASSUME NEW t \in Handlers, phase'[t] = "on"
          PROVE  p = "off" /\ phase[t] = "on" /\ held'[t] = held[t]
      <4>1. phase'[t] \in Active
        BY <3>1 DEF Active
      <4> QED BY <2>2, <2>5, <2>6, <2>11, <3>1, <4>1, SubscriberAssumption
    <3>2. p = "off" => reader' = reader /\ bridge' = bridge
      BY <2>4
    <3>3. \A d \in Consumers : reader'[d] = "ended" => bridge'[d] \notin Open \cup {"new"}
      BY <2>5 DEF Routers, Open
    <3> QED BY <3>1, <3>2, <3>3 DEF Routers
  <2>17. cancelled' \subseteq cancelled \cup Tasks
    BY <2>4 DEF Routed
  <2> QED BY <2>5, <2>8, <2>9, <2>10, <2>12, <2>13, <2>14, <2>15, <2>16, <2>17
<1> QED BY <1>3, <1>4

LEMMA StopKeeps ==
    ASSUME QueueInv, NEW s \in Subscribers, Stop(s) \/ Drained(s) \/ Unscheduled(s)
    PROVE  QueueInv'
<1> USE DEF QueueInv
<1>1. /\ UNCHANGED <<registry, raised, starts, deaths, status, via, owner, waited, ran>>
      /\ phase[s] \in Active
  BY DEF Stop, Drained, Unscheduled, Active
<1>2. CASE Release(s) /\ UNCHANGED place
  <2>1. /\ LifeInv' /\ cancelled' \subseteq Tasks
        /\ \A c \in Consumers : bridge[c] \in {"running", "stopping"}
                                    => bridge'[c] \in {"running", "stopping"}
    BY <1>1, <1>2, ReleaseKeeps DEF TaskTypes
  <2>2. TaskTypes'
    BY <1>1, <1>2, <2>1 DEF TaskTypes
  <2>3. OnAConnection'
    BY <1>1, <2>1 DEF OnAConnection
  <2> QED BY <2>1, <2>2, <2>3
<1>3. CASE /\ \E p \in Active \ {"on"} : phase' = [phase EXCEPT ![s] = p]
           /\ place' = place \/ place' = [m \in Tasks |-> IF m \in Pending(s) \ Fired(s)
                                                           THEN "left" ELSE place[m]]
           /\ cancelled' \subseteq cancelled \cup Tasks
           /\ UNCHANGED <<members, reader, bridge, held, closing>>
  <2>1. LifeInv'
    BY <1>1, <1>3, StaysActive
  <2>2. place' \in [Tasks -> {"queue", "buffer", "deferred", "routed", "fired", "pulled", "left"}]
    BY <1>3 DEF TaskTypes
  <2>3. TaskTypes'
    BY <1>1, <1>3, <2>2 DEF TaskTypes
  <2>4. OnAConnection'
    BY <1>1, <1>3 DEF OnAConnection
  <2> QED BY <2>1, <2>3, <2>4
<1>4. (Release(s) /\ UNCHANGED place)
      \/ (/\ \E p \in Active \ {"on"} : phase' = [phase EXCEPT ![s] = p]
          /\ place' = place \/ place' = [m \in Tasks |-> IF m \in Pending(s) \ Fired(s)
                                                          THEN "left" ELSE place[m]]
          /\ cancelled' \subseteq cancelled \cup Tasks
          /\ UNCHANGED <<members, reader, bridge, held, closing>>)
  <2>1. ToCancel(s) \subseteq Tasks
    BY DEF ToCancel, Fired, Pending
  <2>2. ASSUME Unschedule(s)
        PROVE  \/ Release(s) /\ UNCHANGED place
               \/ /\ phase' = [phase EXCEPT ![s] = "unscheduling"]
                  /\ place' = [m \in Tasks |-> IF m \in Pending(s) \ Fired(s)
                                                THEN "left" ELSE place[m]]
                  /\ cancelled' \subseteq cancelled \cup Tasks
                  /\ UNCHANGED <<members, reader, bridge, held, closing>>
    BY <2>1, <2>2 DEF Unschedule
  <2>3. {"draining", "unscheduling"} \subseteq Active \ {"on"}
    BY DEF Active
  <2>4. CASE Unschedule(s)
    BY <2>2, <2>3, <2>4
  <2>5. CASE /\ phase' = [phase EXCEPT ![s] = "draining"]
             /\ UNCHANGED <<members, reader, bridge, held, closing, place, cancelled>>
    BY <2>3, <2>5
  <2>6. CASE Release(s) /\ UNCHANGED place
    BY <2>6
  <2> QED BY <2>4, <2>5, <2>6 DEF Stop, Drained, Unscheduled
<1> QED BY <1>2, <1>3, <1>4

LEMMA ReaderGoneKeeps == ASSUME QueueInv, NEW s \in Subscribers, ReaderGone(s) PROVE QueueInv'
<1> USE DEF QueueInv, LifeInv, ReaderGone
<1>1. PICK c \in Consumers : /\ c = closing[s] /\ members[c] = <<>> /\ bridge[c] # "new"
                             /\ registry \in {0, c}
  BY DEF Leavers, Leaving
<1>2. /\ \A t \in Subscribers : phase'[t] = IF t = s THEN "joining" ELSE phase[t]
      /\ phase[s] = "closing"
      /\ \A d \in Consumers : bridge'[d] = IF d # c THEN bridge[d]
                                          ELSE IF bridge[c] = "stopped" THEN "stopped" ELSE "stopping"
  BY <1>1 DEF LifeTypes
<1>3. LifeTypes'
  BY DEF LifeTypes, Leaving
<1>4. InTurn'
  BY <1>1, <1>2, InTurnKept
<1>5. \A t \in Subscribers : phase'[t] \in Active => phase[t] \in Active /\ t # s
  BY <1>2 DEF Active
<1>6. Range(members[c]) = {} /\ \A t \in Handlers : phase[t] \notin Active \/ registry # c
  <2>1. members[c] \in Seq(Handlers)
    BY DEF LifeTypes
  <2>2. Range(members[c]) = {}
    BY <1>1, <2>1, NonEmpty
  <2> QED BY <2>2 DEF Users
<1>7. \A t \in Handlers : phase[t] \notin Active
  BY <1>1, <1>6 DEF Users, Consumers
<1>8. Members'
  <2>1. \A d \in Consumers : members[d] \in Seq(Handlers)
    BY DEF LifeTypes
  <2>2. \A d \in Consumers : Range(members[d]) \subseteq Subscribers
    BY <2>1, RangeOfSeq, SubscriberAssumption
  <2>3. \A t \in Subscribers : phase[t] \in Active => phase'[t] \in Active
    BY <1>2 DEF Active
  <2> QED BY <2>2, <2>3 DEF Members
<1>9. Users'
  BY <1>5, <1>7, SubscriberAssumption DEF Users
<1>10. Leavers'
  <2>1. ASSUME NEW t \in Subscribers, phase'[t] \in Leaving
        PROVE  /\ closing[t] \in Consumers /\ registry \in {0, closing[t]}
               /\ members[closing[t]] = <<>> /\ bridge'[closing[t]] # "new"
    <3>1. phase[t] \in Leaving
      BY <1>2, <2>1 DEF Leaving
    <3> QED BY <1>2, <3>1 DEF Leavers
  <2>2. ASSUME NEW t \in Subscribers, phase'[t] = "joining"
        PROVE  bridge'[closing[t]] \in {"stopping", "stopped"}
    <3>1. CASE closing[t] = c
      BY <1>2, <3>1
    <3>2. CASE closing[t] # c
      <4>1. phase[t] = "joining" /\ closing[t] \in Consumers
        BY <1>1, <1>2, <2>2, <3>2 DEF Leavers, Leaving
      <4> QED BY <1>2, <3>2, <4>1 DEF Leavers, Leaving
    <3> QED BY <3>1, <3>2
  <2> QED BY <2>1, <2>2 DEF Leavers
<1>11. Current'
  <2>1. registry # 0 => bridge[registry] # "stopped" /\ registry = c
    BY <1>1 DEF Current, Open
  <2> QED BY <1>2, <2>1 DEF Current
<1>12. Bridges'
  <2>1. \A d \in Consumers : bridge'[d] \in Open => d = registry
    BY <1>2 DEF Bridges, Open
  <2>2. phase'[s] = "joining" /\ closing[s] = c
    BY <1>1, <1>2
  <2>3. \A t \in Subscribers : phase[t] = "joining" => phase'[t] = "joining"
    BY <1>2
  <2> QED BY <1>2, <2>1, <2>2, <2>3 DEF Bridges
<1>13. Routers'
  <2>1. \A t \in Handlers : phase'[t] # "on"
    BY <1>5, <1>7, SubscriberAssumption DEF Active
  <2>2. \A d \in Consumers : reader[d] = "ended" => bridge'[d] \notin Open \cup {"new"}
    BY <1>2 DEF Routers, Open
  <2> QED BY <2>1, <2>2 DEF Routers
<1>14. TaskTypes' /\ OnAConnection'
  <2>1. \A d \in Consumers : bridge[d] \in {"running", "stopping"}
                                 => bridge'[d] \in {"running", "stopping"}
    BY <1>2
  <2> QED BY <2>1, TasksKept
<1> QED BY <1>3, <1>4, <1>8, <1>9, <1>10, <1>11, <1>12, <1>13, <1>14

\* The connection is closed: what was unacked is ready again, and the next subscriber
\* gets a new consumer.
LEMMA JoinedKeeps == ASSUME QueueInv, NEW s \in Subscribers, Joined(s) PROVE QueueInv'
<1> USE DEF QueueInv, LifeInv, Joined
<1>1. PICK c \in Consumers : /\ c = closing[s] /\ members[c] = <<>> /\ bridge[c] # "new"
                             /\ registry \in {0, c}
  BY DEF Leavers, Leaving
<1>2. /\ \A t \in Subscribers : phase'[t] = IF t = s THEN "off" ELSE phase[t]
      /\ \A t \in Subscribers : closing'[t] = IF t = s THEN 0 ELSE closing[t]
      /\ phase[s] = "joining" /\ registry' = 0
      /\ \A d \in Consumers : bridge'[d] = IF d = c THEN "stopped" ELSE bridge[d]
  BY <1>1 DEF LifeTypes
<1>3. LifeTypes'
  <2>1. phase' \in [Subscribers -> {"off"} \cup Active \cup Leaving]
    BY DEF LifeTypes
  <2>2. closing' \in [Subscribers -> 0..MaxConsumers]
    <3>1. 0 \in 0..MaxConsumers
      BY BoundAssumption
    <3> QED BY <3>1 DEF LifeTypes
  <2>3. registry' \in 0..MaxConsumers
    BY <1>2, BoundAssumption
  <2>4. bridge' \in [Consumers -> {"new", "starting", "running", "failed", "stopping", "stopped"}]
    BY <1>1 DEF LifeTypes
  <2> QED BY <2>1, <2>2, <2>3, <2>4 DEF LifeTypes
<1>4. InTurn'
  BY <1>1, <1>2, InTurnKept
<1>5. Range(members[c]) = {} /\ \A d \in Consumers : Range(members[d]) = {}
  <2>1. members[c] \in Seq(Handlers)
    BY DEF LifeTypes
  <2>2. Range(members[c]) = {}
    BY <1>1, <2>1, NonEmpty
  <2> QED BY <1>1, <2>2 DEF Members, Consumers
<1>6. \A t \in Handlers : phase[t] \notin Active
  BY <1>1, <1>5 DEF Users
<1>7. Members'
  BY <1>5 DEF Members
<1>8. \A t \in Handlers : phase'[t] \notin Active
  BY <1>2, <1>6, SubscriberAssumption DEF Active
<1>9. Users' /\ Current'
  BY <1>2, <1>8 DEF Users, Current
<1>10. Leavers'
  <2>1. ASSUME NEW t \in Subscribers, phase'[t] \in Leaving
        PROVE  /\ closing'[t] \in Consumers /\ members[closing'[t]] = <<>>
               /\ bridge'[closing'[t]] # "new"
               /\ phase'[t] = "joining" => bridge'[closing'[t]] \in {"stopping", "stopped"}
    <3>1. phase[t] \in Leaving /\ phase'[t] = phase[t] /\ closing'[t] = closing[t]
      BY <1>2, <2>1 DEF Leaving
    <3> QED BY <1>2, <3>1 DEF Leavers
  <2> QED BY <1>2, <2>1 DEF Leavers
<1>11. Bridges'
  <2>1. \A d \in Consumers : bridge'[d] \notin Open
    BY <1>1, <1>2 DEF Bridges, Open, Consumers
  <2>2. ASSUME NEW d \in Consumers, bridge'[d] = "stopping"
        PROVE  \E t \in Subscribers : phase'[t] = "joining" /\ closing'[t] = d
    <3>1. d # c /\ bridge[d] = "stopping"
      BY <1>2, <2>2
    <3>2. PICK t \in Subscribers : phase[t] = "joining" /\ closing[t] = d
      BY <3>1 DEF Bridges
    <3> QED BY <1>1, <1>2, <3>1, <3>2
  <2> QED BY <2>1, <2>2 DEF Bridges
<1>12. Routers'
  <2>1. \A t \in Handlers : phase'[t] # "on"
    BY <1>8 DEF Active
  <2>2. \A d \in Consumers : reader[d] = "ended" => bridge'[d] \notin Open \cup {"new"}
    BY <1>2 DEF Routers, Open
  <2> QED BY <2>1, <2>2 DEF Routers
<1>13. TaskTypes'
  BY DEF TaskTypes
<1>14. OnAConnection'
  <2>1. \A m \in Tasks : status'[m] = "unacked" => status[m] = "unacked" /\ via[m] # c
    BY <1>1 DEF Unacked, TaskTypes
  <2> QED BY <1>2, <2>1 DEF OnAConnection
<1> QED BY <1>3, <1>4, <1>7, <1>9, <1>10, <1>11, <1>12, <1>13, <1>14

-----------------------------------------------------------------------------
(* Routing tasks, whenever subscribers start *)

\* That handlers are served does not need ~Overlap.
ServeTypes ==
    /\ registry \in 0..MaxConsumers
    /\ members \in [Consumers -> Seq(Handlers)]
    /\ reader \in [Consumers -> {"none", "reading", "ended"}]
    /\ bridge \in [Consumers -> {"new", "starting", "running", "failed", "stopping",
                                  "stopped"}]
    /\ phase \in [Subscribers -> {"off"} \cup Active \cup Leaving]
    /\ held \in [Subscribers -> 0..MaxConsumers]

\* A handler is on the list of the consumer it holds, which only its own stop() changes;
Live == Open \cup {"new"}
Listed ==
    /\ \A c \in Consumers : Once(members[c])
    /\ \A s \in Handlers : phase[s] \in {"starting", "on"} =>
          /\ held[s] \in Consumers /\ s \in Range(members[held[s]])
          /\ bridge[held[s]] # "new"

\* so its consumer gets a routing task, which does not end before the bridge.
Routing ==
    /\ \A c \in Consumers : reader[c] = "ended" => bridge[c] \notin Live
    /\ \A s \in Handlers : phase[s] = "on" /\ bridge[held[s]] \in Open => reader[held[s]] = "reading"

ServeInv == ServeTypes /\ Listed /\ Routing

\* A step that leaves the lists, and the reader of every bridge that may yet run.
LEMMA ServeKept ==
    ASSUME ServeInv, ServeTypes', UNCHANGED members,
           \A t \in Handlers : phase'[t] \in {"starting", "on"} =>
               phase'[t] = phase[t] /\ held'[t] = held[t],
           \A c \in Consumers : /\ bridge'[c] = "new" => bridge[c] = "new"
                                /\ bridge'[c] \in Live => bridge[c] \in Live /\ reader'[c] = reader[c]
    PROVE  ServeInv'
<1> USE DEF ServeInv
<1>1. Listed'
  BY DEF Listed
<1>2. ASSUME NEW c \in Consumers, reader'[c] = "ended" PROVE bridge'[c] \notin Live
  BY <1>2 DEF Routing
<1>3. ASSUME NEW t \in Handlers, phase'[t] = "on", bridge'[held'[t]] \in Open
      PROVE  reader'[held'[t]] = "reading"
  <2>1. phase[t] = "on" /\ held'[t] = held[t] /\ held[t] \in Consumers /\ bridge[held[t]] # "new"
    BY <1>3 DEF Listed
  <2> QED BY <1>3, <2>1 DEF Routing, Live
<1> QED BY <1>1, <1>2, <1>3 DEF Routing

\* The steps of bridges, and what the thread or the reader of a stopped one does.
LEMMA EndingsServe ==
    ASSUME ServeInv,
           \/ \E c \in Consumers : BridgeRuns(c) \/ RouterEnds(c) \/ Dies(c)
           \/ \E s \in Subscribers : ReaderGone(s) \/ Joined(s)
           \/ UNCHANGED lifeVars
    PROVE  ServeInv'
<1> USE DEF ServeInv, ServeTypes, Live, Open
<1>1. ASSUME NEW c \in Consumers, BridgeRuns(c) \/ RouterEnds(c) \/ Dies(c) PROVE ServeInv'
  <2>1. /\ UNCHANGED <<registry, members, phase, held>>
        /\ reader' \in [Consumers -> {"none", "reading", "ended"}]
        /\ bridge' \in [Consumers -> {"new", "starting", "running", "failed", "stopping", "stopped"}]
        /\ \A d \in Consumers : /\ bridge'[d] = "new" => bridge[d] = "new"
                                /\ bridge'[d] \in Live => bridge[d] \in Live /\ reader'[d] = reader[d]
    BY <1>1 DEF BridgeRuns, RouterEnds, Dies
  <2>2. ServeTypes'
    BY <2>1
  <2> HIDE DEF ServeInv, ServeTypes, Live, Open
  <2> QED BY <2>1, <2>2, ServeKept
<1>2. ASSUME NEW s \in Subscribers, ReaderGone(s) \/ Joined(s) PROVE ServeInv'
  <2>1. /\ UNCHANGED <<members, held, reader>>
        /\ \E p \in {"joining", "off"} : phase' = [phase EXCEPT ![s] = p]
        /\ registry' \in {0, registry}
    BY <1>2 DEF ReaderGone, Joined
  <2> DEFINE ends(b) == bridge' = [bridge EXCEPT ![closing[s]] = b]
  <2>2. PICK b \in {"stopping", "stopped"} : ends(b)
    <3>1. CASE ReaderGone(s)
      <4>1. ends(IF bridge[closing[s]] = "stopped" THEN "stopped" ELSE "stopping")
        BY <3>1 DEF ReaderGone
      <4> QED BY <4>1
    <3>2. CASE Joined(s)
      <4>1. ends("stopped")
        BY <3>2 DEF Joined
      <4> QED BY <4>1
    <3> QED BY <1>2, <3>1, <3>2
  <2>3. ServeTypes'
    <3>1. phase' \in [Subscribers -> {"off"} \cup Active \cup Leaving]
      BY <2>1 DEF Leaving
    <3>2. bridge' \in [Consumers -> {"new", "starting", "running", "failed", "stopping", "stopped"}]
      BY <2>2
    <3>3. registry' \in 0..MaxConsumers
      BY <2>1, BoundAssumption
    <3> QED BY <2>1, <3>1, <3>2, <3>3
  <2>4. /\ \A t \in Handlers : phase'[t] \in {"starting", "on"} => phase'[t] = phase[t]
        /\ \A d \in Consumers : /\ bridge'[d] = "new" => bridge[d] = "new"
                                /\ bridge'[d] \in Live => bridge[d] \in Live
    <3>1. \A d \in Consumers : bridge'[d] \in {bridge[d], "stopping", "stopped"}
      BY <2>2
    <3>2. \A t \in Subscribers : phase'[t] \in {phase[t], "joining", "off"}
      BY <2>1
    <3> QED BY <3>1, <3>2, SubscriberAssumption
  <2> HIDE DEF ServeInv, ServeTypes, Live, Open
  <2> QED BY <2>1, <2>3, <2>4, ServeKept
<1>3. CASE UNCHANGED lifeVars
  <2>1. ServeTypes' /\ UNCHANGED <<members, phase, held, bridge, reader>>
    BY <1>3 DEF lifeVars
  <2> HIDE DEF ServeInv, ServeTypes, Live, Open
  <2> QED BY <2>1, ServeKept
<1> QED BY <1>1, <1>2, <1>3

LEMMA StartServes == ASSUME ServeInv, NEW s \in Subscribers, Start(s) PROVE ServeInv'
<1> USE DEF ServeInv
<1> DEFINE c == Acquired
           list == Registered(members[c], s)
<1>1. /\ c \in Consumers /\ registry' = c
      /\ members' = [members EXCEPT ![c] = list] /\ held' = [held EXCEPT ![s] = c]
      /\ members[c] \in Seq(Handlers) /\ Once(members[c])
  BY DEF Start, ServeTypes, Listed
<1>2. /\ list \in Seq(Handlers) /\ Once(list)
      /\ Range(list) = Range(members[c]) \cup ({s} \cap Handlers)
  BY <1>1, IsRegistered
<1>3. s \in Handlers => list # <<>>
  <2> HIDE DEF list
  <2> QED BY <1>2, NonEmpty
<1> HIDE DEF c, list
<1>4. \/ /\ bridge[c] = "new" /\ bridge' = [bridge EXCEPT ![c] = "starting"]
         /\ phase' = [phase EXCEPT ![s] = "starting"] /\ reader' = reader
      \/ /\ bridge[c] # "new" /\ bridge' = bridge /\ phase' = [phase EXCEPT ![s] = "on"]
         /\ reader' = IF bridge[c] = "failed" THEN reader ELSE WithReader(c, list)
  BY DEF Start, c, list
<1>5. /\ reader' \in [Consumers -> {"none", "reading", "ended"}]
      /\ \A d \in Consumers : /\ reader'[d] = "ended" => reader[d] = "ended"
                              /\ reader[d] = "reading" => reader'[d] = "reading"
  BY <1>1, <1>4 DEF ServeTypes, WithReader
<1>6. /\ \A d \in Consumers : /\ bridge'[d] = "new" => bridge[d] = "new"
                              /\ bridge'[d] \in Live => bridge[d] \in Live
      /\ bridge' \in [Consumers -> {"new", "starting", "running", "failed", "stopping", "stopped"}]
  BY <1>1, <1>4 DEF ServeTypes, Live, Open
<1>7. /\ \A t \in Subscribers : t # s => phase'[t] = phase[t] /\ held'[t] = held[t]
      /\ held'[s] = c /\ (phase'[s] = "on" => bridge'[c] = bridge[c] /\ bridge[c] # "new")
  BY <1>1, <1>4 DEF ServeTypes
<1>8. ServeTypes'
  <2>1. members' \in [Consumers -> Seq(Handlers)]
    BY <1>1, <1>2 DEF ServeTypes
  <2> QED BY <1>1, <1>4, <1>5, <1>6, <2>1 DEF ServeTypes, Active, Consumers
<1>9. Listed'
  <2>1. \A d \in Consumers : Once(members'[d]) /\ Range(members[d]) \subseteq Range(members'[d])
    BY <1>1, <1>2 DEF Listed, ServeTypes
  <2>2. ASSUME NEW t \in Handlers, phase'[t] \in {"starting", "on"}
        PROVE  /\ held'[t] \in Consumers /\ t \in Range(members'[held'[t]])
               /\ bridge'[held'[t]] # "new"
    <3>1. CASE t = s
      BY <1>1, <1>2, <1>4, <1>7, <3>1 DEF ServeTypes
    <3>2. CASE t # s
      BY <1>6, <1>7, <2>1, <2>2, <3>2, SubscriberAssumption DEF Listed
    <3> QED BY <3>1, <3>2
  <2> QED BY <2>1, <2>2 DEF Listed
<1>10. ASSUME NEW d \in Consumers, reader'[d] = "ended" PROVE bridge'[d] \notin Live
  BY <1>5, <1>6, <1>10 DEF Routing
<1>11. ASSUME NEW t \in Handlers, phase'[t] = "on", bridge'[held'[t]] \in Open
       PROVE  reader'[held'[t]] = "reading"
  <2>1. CASE t = s
    <3>1. held'[t] = c /\ bridge[c] \in Open /\ bridge' = bridge
      BY <1>4, <1>7, <1>11, <2>1, SubscriberAssumption DEF ServeTypes
    <3>2. reader' = WithReader(c, list) /\ reader[c] # "ended"
      BY <1>1, <1>4, <3>1 DEF Routing, Live, Open
    <3> QED BY <1>1, <1>3, <2>1, <3>1, <3>2 DEF WithReader, ServeTypes
  <2>2. CASE t # s
    <3>1. phase[t] = "on" /\ held'[t] = held[t] /\ held[t] \in Consumers /\ bridge[held[t]] # "new"
      BY <1>7, <1>11, <2>2, SubscriberAssumption DEF Listed
    <3>2. bridge[held[t]] \in Open
      BY <1>6, <1>11, <3>1 DEF Live
    <3> QED BY <1>5, <3>1, <3>2 DEF Routing
  <2> QED BY <2>1, <2>2
<1> QED BY <1>8, <1>9, <1>10, <1>11 DEF Routing

LEMMA StartedServes == ASSUME ServeInv, NEW s \in Subscribers, Started(s) PROVE ServeInv'
<1> USE DEF ServeInv, Started
<1> DEFINE c == held[s]
<1>1. /\ \A t \in Subscribers : phase'[t] = IF t = s THEN "on" ELSE phase[t]
      /\ UNCHANGED <<registry, members, bridge, held>> /\ phase[s] = "starting"
  BY DEF ServeTypes
<1>2. /\ reader' \in [Consumers -> {"none", "reading", "ended"}]
      /\ \A d \in Consumers : /\ reader'[d] = "ended" => reader[d] = "ended"
                              /\ reader[d] = "reading" => reader'[d] = "reading"
  BY DEF ServeTypes, WithReader
<1>3. ServeTypes'
  BY <1>1, <1>2 DEF ServeTypes, Active
<1>4. Listed'
  BY <1>1, SubscriberAssumption DEF Listed
<1>5. ASSUME NEW d \in Consumers, reader'[d] = "ended" PROVE bridge'[d] \notin Live
  BY <1>1, <1>2, <1>5 DEF Routing
<1>6. ASSUME NEW t \in Handlers, phase'[t] = "on", bridge'[held'[t]] \in Open
      PROVE  reader'[held'[t]] = "reading"
  <2>1. /\ held'[t] = held[t] /\ held[t] \in Consumers /\ t \in Range(members[held[t]])
        /\ members[held[t]] \in Seq(Handlers)
    BY <1>1, <1>6, SubscriberAssumption DEF Listed, ServeTypes
  <2>2. CASE t = s
    <3>1. members[c] # <<>> /\ reader[c] # "ended"
      BY <1>1, <1>6, <2>1, <2>2, NonEmpty DEF Routing, Live
    <3>2. CASE bridge[c] = "running"
      BY <2>1, <2>2, <3>1, <3>2 DEF WithReader, ServeTypes
    <3> QED BY <1>1, <1>6, <2>1, <2>2, <3>2 DEF Open
  <2>3. CASE t # s
    BY <1>1, <1>2, <1>6, <2>1, <2>3, SubscriberAssumption DEF Routing
  <2> QED BY <2>2, <2>3
<1> QED BY <1>3, <1>4, <1>5, <1>6 DEF Routing

LEMMA ReleaseServes ==
    ASSUME ServeInv, NEW s \in Subscribers, Release(s), UNCHANGED registry
    PROVE  ServeInv'
<1> USE DEF ServeInv
<1> DEFINE c == registry
           left == Detach(members[c], s)
<1>1. /\ held' = [held EXCEPT ![s] = 0]
      /\ \E p \in {"off", "closing", "joining"} : phase' = [phase EXCEPT ![s] = p]
  BY DEF Release
<1>2. /\ \A t \in Handlers : phase'[t] \in {"starting", "on"} =>
             t # s /\ phase'[t] = phase[t] /\ held'[t] = held[t]
      /\ phase' \in [Subscribers -> {"off"} \cup Active \cup Leaving]
      /\ held' \in [Subscribers -> 0..MaxConsumers]
  BY <1>1, SubscriberAssumption, BoundAssumption DEF ServeTypes, Leaving
<1>3. CASE c = 0
  <2>1. UNCHANGED <<members, reader, bridge>>
    BY <1>3 DEF Release
  <2>2. ServeTypes'
    BY <1>2, <2>1 DEF ServeTypes
  <2> QED BY <1>2, <2>1, <2>2, ServeKept
<1>4. CASE c # 0
  <2>1. c \in Consumers /\ members[c] \in Seq(Handlers) /\ Once(members[c])
    BY <1>4 DEF ServeTypes, Listed, Consumers
  <2>2. /\ left \in Seq(Handlers) /\ Once(left) /\ Range(left) = Range(members[c]) \ {s}
        /\ (left = <<>> <=> Range(left) = {})
    <3>1. /\ left \in Seq(Handlers) /\ Once(left) /\ Range(left) = Range(members[c]) \ {s}
      BY <2>1, Detached
    <3> HIDE DEF left
    <3> QED BY <3>1, NonEmpty
  <2>3. /\ members' = [members EXCEPT ![c] = left]
        /\ reader' = reader \/ (left = <<>> /\ reader' = [reader EXCEPT ![c] = "none"])
        /\ bridge' = bridge \/ bridge' = [bridge EXCEPT ![c] = "stopping"]
    BY <1>4 DEF Release
  <2> HIDE DEF c, left
  <2>4. ServeTypes'
    <3>1. members' \in [Consumers -> Seq(Handlers)]
      BY <2>1, <2>2, <2>3 DEF ServeTypes
    <3>2. reader' \in [Consumers -> {"none", "reading", "ended"}]
      BY <2>3 DEF ServeTypes
    <3>3. bridge' \in [Consumers -> {"new", "starting", "running", "failed", "stopping", "stopped"}]
      BY <2>3 DEF ServeTypes
    <3> QED BY <1>2, <3>1, <3>2, <3>3 DEF ServeTypes
  <2>5. \A d \in Consumers : /\ bridge'[d] \in {bridge[d], "stopping"}
                             /\ reader'[d] = reader[d] \/ (d = c /\ left = <<>> /\ reader'[d] = "none")
                             /\ members'[d] = IF d = c THEN left ELSE members[d]
    BY <2>3 DEF ServeTypes
  <2>6. ASSUME NEW t \in Handlers, phase'[t] \in {"starting", "on"}
        PROVE  /\ held'[t] = held[t] /\ held[t] \in Consumers /\ t \in Range(members'[held[t]])
               /\ bridge[held[t]] # "new" /\ phase'[t] = phase[t]
    <3>1. /\ t # s /\ phase'[t] = phase[t] /\ held'[t] = held[t]
      BY <1>2, <2>6
    <3>2. held[t] \in Consumers /\ t \in Range(members[held[t]]) /\ bridge[held[t]] # "new"
      BY <2>6, <3>1 DEF Listed
    <3> QED BY <2>2, <2>5, <3>1, <3>2
  <2>7. Listed'
    BY <2>2, <2>5, <2>6 DEF Listed
  <2>8. ASSUME NEW d \in Consumers, reader'[d] = "ended" PROVE bridge'[d] \notin Live
    BY <2>5, <2>8 DEF Routing, Live, Open
  <2>9. ASSUME NEW t \in Handlers, phase'[t] = "on", bridge'[held'[t]] \in Open
        PROVE  reader'[held'[t]] = "reading"
    <3>1. /\ held'[t] = held[t] /\ held[t] \in Consumers /\ t \in Range(members'[held[t]])
          /\ phase[t] = "on"
      BY <2>6, <2>9
    <3>2. bridge[held[t]] \in Open
      <4>1. bridge'[held[t]] \in {bridge[held[t]], "stopping"} /\ bridge'[held[t]] \in Open
        BY <2>5, <2>9, <3>1
      <4> QED BY <4>1 DEF Open
    <3>3. reader[held[t]] = "reading"
      BY <3>1, <3>2 DEF Routing
    <3> QED BY <2>2, <2>5, <3>1, <3>3
  <2> QED BY <2>4, <2>7, <2>8, <2>9 DEF Routing
<1> QED BY <1>3, <1>4

LEMMA StopServes ==
    ASSUME ServeInv, NEW s \in Subscribers, Stop(s) \/ Drained(s) \/ Unscheduled(s)
    PROVE  ServeInv'
<1>1. UNCHANGED registry
  BY DEF Stop, Drained, Unscheduled
<1>2. CASE Release(s)
  BY <1>1, <1>2, ReleaseServes
<1>3. CASE /\ \E p \in {"draining", "unscheduling"} : phase' = [phase EXCEPT ![s] = p]
           /\ UNCHANGED <<members, reader, bridge, held>>
  <2>1. ServeTypes'
    BY <1>1, <1>3 DEF ServeInv, ServeTypes, Active
  <2>2. \A t \in Handlers : phase'[t] \in {"starting", "on"} => phase'[t] = phase[t]
    BY <1>3, SubscriberAssumption DEF ServeInv, ServeTypes
  <2> QED BY <1>3, <2>1, <2>2, ServeKept
<1> QED BY <1>2, <1>3 DEF Stop, Drained, Unscheduled, Unschedule

LEMMA AlwaysServed == Spec => []ServeInv
<1>1. Init => ServeInv
  <2> SUFFICES ASSUME Init PROVE ServeInv
    OBVIOUS
  <2>1. \A c \in Consumers : members[c] = <<>> /\ Once(<<>>)
    BY DEF Init, Once
  <2>2. members \in [Consumers -> Seq(Handlers)]
    BY EmptySeq DEF Init
  <2>3. ServeTypes
    BY <2>2, BoundAssumption DEF Init, ServeTypes
  <2>4. Listed /\ Routing
    BY <2>1, SubscriberAssumption DEF Init, Listed, Routing
  <2> QED BY <2>3, <2>4 DEF ServeInv
<1>2. ServeInv /\ [Next]_vars => ServeInv'
  <2> SUFFICES ASSUME ServeInv, [Next]_vars PROVE ServeInv'
    OBVIOUS
  <2>1. CASE \/ \E c \in Consumers, m \in Tasks : Deliver(c, m) \/ Route(c, m)
             \/ \E m \in Tasks : Fire(m) \/ Finish(m) \/ AckPulled(m) \/ Unwind(m)
             \/ \E s \in Subscribers, m \in Tasks : Pull(s, m)
             \/ UNCHANGED vars
    <3>1. UNCHANGED lifeVars
      BY <2>1 DEF Deliver, Route, Fire, Finish, AckPulled, Unwind, Pull, vars
    <3> QED BY <3>1, EndingsServe
  <2>2. CASE \E s \in Subscribers : Start(s) \/ Stop(s) \/ Started(s) \/ Drained(s) \/ Unscheduled(s)
    BY <2>2, StartServes, StopServes, StartedServes
  <2>3. CASE \/ \E c \in Consumers : BridgeRuns(c) \/ RouterEnds(c) \/ Dies(c)
             \/ \E s \in Subscribers : ReaderGone(s) \/ Joined(s)
    BY <2>3, EndingsServe
  <2> QED BY <2>1, <2>2, <2>3 DEF Next, Lifecycle
<1> QED BY <1>1, <1>2, PTL DEF Spec

-----------------------------------------------------------------------------
(* The theorems *)

LEMMA QueueInit == Init => QueueInv
<1> SUFFICES ASSUME Init PROVE QueueInv
  OBVIOUS
<1> USE BoundAssumption
<1>1. LifeTypes /\ TaskTypes
  <2>1. members \in [Consumers -> Seq(Handlers)]
    BY EmptySeq DEF Init
  <2> QED BY <2>1 DEF Init, LifeTypes, TaskTypes
<1>2. InTurn
  <2>1. \A c \in Consumers : bridge[c] = "new" <=> c > 0
    BY DEF Init, Consumers
  <2> QED BY <2>1 DEF InTurn
<1>3. Members
  <2>1. \A c \in Consumers : members[c] = <<>> /\ Once(<<>>) /\ Range(<<>>) = {}
    BY DEF Init, Once, Range
  <2> QED BY <2>1 DEF Members
<1>4. Users /\ Leavers /\ Current /\ Bridges /\ Routers /\ OnAConnection
  BY SubscriberAssumption DEF Init, Users, Leavers, Current, Bridges, Routers, OnAConnection,
                              Active, Leaving, Open
<1> QED BY <1>1, <1>2, <1>3, <1>4 DEF QueueInv, LifeInv

LEMMA QueueStep == ~Overlap /\ QueueInv /\ [Next]_vars => QueueInv'
<1> SUFFICES ASSUME ~Overlap, QueueInv, [Next]_vars PROVE QueueInv'
  OBVIOUS
<1>1. CASE \/ \E c \in Consumers, m \in Tasks : Deliver(c, m) \/ Route(c, m)
           \/ \E m \in Tasks : Fire(m) \/ Finish(m) \/ AckPulled(m) \/ Unwind(m)
           \/ \E s \in Subscribers, m \in Tasks : Pull(s, m)
  <2>1. UNCHANGED lifeVars
    BY <1>1 DEF Deliver, Route, Fire, Finish, AckPulled, Unwind, Pull
  <2> QED BY <1>1, <2>1, DeliveryKeeps
<1>2. ASSUME NEW s \in Subscribers,
             \/ Start(s) \/ Stop(s) \/ Started(s) \/ Drained(s) \/ Unscheduled(s)
             \/ ReaderGone(s) \/ Joined(s)
      PROVE  QueueInv'
  BY <1>2, StartKeeps, StopKeeps, StartedKeeps, ReaderGoneKeeps, JoinedKeeps
<1>3. ASSUME NEW c \in Consumers, Dies(c) \/ BridgeRuns(c) \/ RouterEnds(c) PROVE QueueInv'
  BY <1>3, DiesKeeps, BridgeRunsKeeps, RouterEndsKeeps
<1>4. CASE UNCHANGED vars
  <2>1. UNCHANGED lifeVars /\ UNCHANGED taskVars /\ UNCHANGED bridge
    BY <1>4 DEF vars, lifeVars
  <2> QED BY <2>1, LifeGoesOn, TasksKept DEF QueueInv
<1> QED BY <1>1, <1>2, <1>3, <1>4 DEF Next, Lifecycle

LEMMA AlwaysQueueInv == ASSUME ~Overlap PROVE Spec => []QueueInv
<1>1. QueueInv /\ [Next]_vars => QueueInv'
  BY QueueStep
<1> QED BY QueueInit, <1>1, PTL DEF Spec

\* Every state has its type, and who is on a consumer has started and not yet left it.
THEOREM QueueTypes == ASSUME ~Overlap PROVE Spec => []TypeOK
<1>1. QueueInv => TypeOK
  <2> SUFFICES ASSUME QueueInv PROVE TypeOK
    OBVIOUS
  <2> USE DEF QueueInv, LifeInv
  <2>1. phase \in [Subscribers -> {"off", "starting", "on", "draining", "unscheduling",
                                   "closing", "joining"}]
    BY DEF LifeTypes, Active, Leaving
  <2>2. \A c \in Consumers : \A i \in 1..Len(members[c]) : phase[members[c][i]] # "off"
    <3>1. ASSUME NEW c \in Consumers, NEW i \in 1..Len(members[c])
          PROVE  members[c][i] \in Range(members[c])
      <4>1. members[c] \in Seq(Handlers)
        BY DEF LifeTypes
      <4> QED BY <4>1, RangeEquality
    <3> QED BY <3>1 DEF Members, Active
  <2> QED BY <2>1, <2>2 DEF LifeTypes, TaskTypes, TypeOK
<1> QED BY AlwaysQueueInv, <1>1, PTL

\* release() closes a consumer "once the last one leaves", never before: a handler
\* that started has a consumer that reads, is about to, or failed for good.
THEOREM ConsumerStays == ASSUME ~Overlap PROVE Spec => []ConsumerOutlivesItsUsers
<1>1. QueueInv => ConsumerOutlivesItsUsers
  BY DEF QueueInv, LifeInv, Users, Active, Open, ConsumerOutlivesItsUsers
<1> QED BY AlwaysQueueInv, <1>1, PTL

\* Whoever started the bridge of a queue, with handlers or without, and whoever stops
\* meanwhile, a handler that started on it has a routing task (SharedConsumer.start).
THEOREM EveryHandlerIsServed == Spec => []HandlersAreServed
<1>1. ServeInv => HandlersAreServed
  BY DEF ServeInv, Routing, Open, HandlersAreServed
<1> QED BY AlwaysServed, <1>1, PTL

\* Once every subscriber has stopped, the last one has closed the connection, and the
\* broker has every delivery settled or back (unregister, release).
THEOREM NothingLeftBehind == ASSUME ~Overlap PROVE Spec => []NothingStranded
<1>1. QueueInv => NothingStranded
  <2> SUFFICES ASSUME QueueInv, \A s \in Subscribers : phase[s] = "off",
                      NEW m \in Tasks, status[m] = "unacked"
               PROVE  FALSE
    BY DEF NothingStranded
  <2> USE DEF QueueInv, LifeInv
  <2>1. PICK c \in Consumers : c = via[m] /\ bridge[c] \in {"running", "stopping"}
    BY DEF OnAConnection
  <2>2. CASE bridge[c] = "running"
    <3>1. registry = c /\ c # 0
      BY <2>2 DEF Bridges, Open, Consumers
    <3> QED BY <3>1 DEF Current
  <2>3. CASE bridge[c] = "stopping"
    BY <2>3 DEF Bridges
  <2> QED BY <2>1, <2>2, <2>3
<1> QED BY AlwaysQueueInv, <1>1, PTL
=============================================================================
