---------------------------- MODULE QueueConsumer ----------------------------
(***************************************************************************)
(* subscriber/consumer.py, subscriber/scheduler.py and the lifecycle and   *)
(* dispatch of subscriber/usecase.py: the subscribers of one queue share a *)
(* consumer, whose router hands each task to the subscriber that claims    *)
(* it; tasks with a future eta wait in the subscriber's scheduler.         *)
(*                                                                         *)
(* The bridge is reduced to what ConsumerBridge shows of it: a running     *)
(* bridge delivers and settles; stopping it fails every settlement and     *)
(* gives what was unsettled back to the queue.  FastStream's base classes  *)
(* (running, the graceful wait, the acknowledgement middleware) are        *)
(* modelled from how the package uses them.  All of it runs on one event   *)
(* loop: an action is what happens between two awaits.                     *)
(***************************************************************************)
EXTENDS Naturals, Sequences, SequencesExt, FiniteSets

CONSTANTS
    Subscribers, Handlers,  \* subscribers of the queue, and those with a handler
    Tasks,
    Claim,         \* the task name a subscriber claims, or AnyTask
    Name,          \* the name of a task
    AnyTask,
    Fates,         \* of a task: "now", "defer" and "expired" as its eta and expires allow
    OnError,       \* what the policy does with a failed delivery: "rejected" or "requeued"
    Window,        \* prefetch (0: unlimited)
    HandlersHang,  \* may a handler outlast the graceful timeout?
    Overlap,       \* may subscribers start while others stop?
    MaxConsumers,  \* bound: shared consumers created
    MaxStarts,     \* bound: subscriber starts
    MaxDeaths      \* bound: bridges that fail for good

ASSUME SubscriberAssumption == Handlers \subseteq Subscribers
ASSUME FateAssumption ==
    Fates \in [Tasks -> (SUBSET {"now", "defer", "expired"}) \ {{}}]
ASSUME PolicyAssumption == OnError \in {"rejected", "requeued"}
ASSUME SwitchAssumption == HandlersHang \in BOOLEAN /\ Overlap \in BOOLEAN
ASSUME BoundAssumption ==
    /\ Window \in Nat /\ MaxConsumers \in Nat /\ MaxStarts \in Nat /\ MaxDeaths \in Nat

VARIABLES
    registry,    \* the consumer registered for the queue (0: none)
    members,     \* of a consumer: its _subscribers
    reader,      \* of a consumer: its _reader task
    bridge,      \* of a consumer: the state of its bridge
    phase,       \* of a subscriber: where its start() or stop() is
    held,        \* of a subscriber: its _consumer (0: none)
    closing,     \* of a subscriber: the consumer its release() closes (0: none)
    raised,      \* subscribers whose last stop() raised out of release()
    starts,      \* starts so far
    deaths,      \* bridges that failed so far
    status,      \* of a task: at the broker
    via,         \* of a task: the consumer it was last delivered to
    place,       \* of a task: where the delivery is in the process
    owner,       \* of a task: the subscriber it was dispatched to
    cancelled,   \* deliveries whose asyncio task was cancelled and unwinds
    waited,      \* tasks that waited for their eta at least once
    ran          \* tasks some handler or caller got

lifeVars == <<registry, members, reader, bridge, phase, held, closing, raised, starts, deaths>>
taskVars == <<status, via, place, owner, cancelled, waited, ran>>
vars == <<lifeVars, taskVars>>

Consumers == 1..MaxConsumers
NoOne == "no one"

TypeOK ==
    /\ registry \in 0..MaxConsumers
    /\ members \in [Consumers -> Seq(Handlers)]
    /\ \A c \in Consumers : \A i \in 1..Len(members[c]) : phase[members[c][i]] # "off"
    /\ reader \in [Consumers -> {"none", "reading", "ended"}]
    /\ bridge \in [Consumers -> {"new", "starting", "running", "failed", "stopping",
                                  "stopped"}]
    /\ phase \in [Subscribers -> {"off", "starting", "on", "draining", "unscheduling",
                                  "closing", "joining"}]
    /\ held \in [Subscribers -> 0..MaxConsumers]
    /\ closing \in [Subscribers -> 0..MaxConsumers]
    /\ raised \subseteq Subscribers
    /\ starts \in 0..MaxStarts /\ deaths \in 0..MaxDeaths
    /\ status \in [Tasks -> {"ready", "unacked", "acked", "rejected"}]
    /\ via \in [Tasks -> 0..MaxConsumers]
    /\ place \in [Tasks -> {"queue", "buffer", "deferred", "routed", "fired", "pulled", "left"}]
    /\ owner \in [Tasks -> Subscribers \cup {NoOne}]
    /\ cancelled \subseteq Tasks /\ waited \subseteq Tasks /\ ran \subseteq Tasks

Init ==
    /\ registry = 0
    /\ members = [c \in Consumers |-> <<>>]
    /\ reader = [c \in Consumers |-> "none"]
    /\ bridge = [c \in Consumers |-> "new"]
    /\ phase = [s \in Subscribers |-> "off"]
    /\ held = [s \in Subscribers |-> 0]
    /\ closing = [s \in Subscribers |-> 0]
    /\ raised = {} /\ starts = 0 /\ deaths = 0
    /\ status = [m \in Tasks |-> "ready"]
    /\ via = [m \in Tasks |-> 0]
    /\ place = [m \in Tasks |-> "queue"]
    /\ owner = [m \in Tasks |-> NoOne]
    /\ cancelled = {} /\ waited = {} /\ ran = {}

-----------------------------------------------------------------------------
(* Dispatch *)

\* FastStream's flag: set by start(), cleared first thing by stop().
IsRunning(s) == phase[s] \in {"starting", "on"}

\* select_subscriber: the first exact match, otherwise the first that claims every task.
Selected(subs, name) ==
    LET Claiming(what) == {i \in DOMAIN subs : Claim[subs[i]] = what}
        candidates == IF Claiming(name) # {} THEN Claiming(name) ELSE Claiming(AnyTask)
    IN  {subs[i] : i \in {j \in candidates : \A k \in candidates : j <= k}}

\* A delivery is settled; on a bridge that is closed nothing happens, and the broker
\* gets it back when the connection ends.
Settle(m, outcome) ==
    /\ status' = [status EXCEPT ![m] = IF bridge[via[m]] # "running" THEN @
                                       ELSE IF outcome = "requeued" THEN "ready" ELSE outcome]
    /\ place' = [place EXCEPT ![m] = IF bridge[via[m]] # "running" /\ status[m] = "unacked"
                                     THEN "left" ELSE "queue"]
    /\ cancelled' = cancelled \ {m}

\* CelerySubscriber.dispatch and consume: drop an expired task, defer a future
\* one, run one that is due -- or, when not running, reject it unrun.
Dispatch(s, m, how) ==
    \/ /\ "expired" \in Fates[m]
       /\ Settle(m, "acked")
       /\ UNCHANGED <<owner, waited, ran>>
    \/ /\ "defer" \in Fates[m]
       /\ place' = [place EXCEPT ![m] = "deferred"]
       /\ owner' = [owner EXCEPT ![m] = s]
       /\ waited' = waited \cup {m}
       /\ UNCHANGED <<status, cancelled, ran>>
    \/ /\ "now" \in Fates[m] /\ ~IsRunning(s)
       /\ Settle(m, "rejected")
       /\ UNCHANGED <<owner, waited, ran>>
    \/ /\ "now" \in Fates[m] /\ IsRunning(s)
       /\ place' = [place EXCEPT ![m] = how]
       /\ owner' = [owner EXCEPT ![m] = s]
       /\ ran' = ran \cup {m}
       /\ UNCHANGED <<status, cancelled, waited>>

\* What runs in a handler of s, and what the router of c is awaiting.
Handling(s) == {m \in Tasks : owner[m] = s /\ place[m] \in {"routed", "fired"}}
Routed(c) == {m \in Tasks : via[m] = c /\ place[m] = "routed"}
Unacked(c) == {m \in Tasks : via[m] = c /\ status[m] = "unacked"}

-----------------------------------------------------------------------------
(* Deliveries *)

\* The bridge buffers a delivery.
Deliver(c, m) ==
    /\ bridge[c] = "running"
    /\ status[m] = "ready" /\ place[m] = "queue"
    /\ Window = 0 \/ Cardinality(Unacked(c)) < Window
    /\ status' = [status EXCEPT ![m] = "unacked"]
    /\ via' = [via EXCEPT ![m] = c]
    /\ place' = [place EXCEPT ![m] = "buffer"]
    /\ UNCHANGED <<lifeVars, owner, cancelled, waited, ran>>

\* _route: to the selected subscriber, or rejected because nobody claims it.
KeepUnclaimed(m) ==
    /\ place' = [place EXCEPT ![m] = "left"]
    /\ UNCHANGED <<status, cancelled>>
Drop(m) == Settle(m, "rejected")
Route(c, m) ==
    LET selected == Selected(members[c], Name[m])
    IN  /\ reader[c] = "reading" /\ Routed(c) = {} /\ bridge[c] = "running"
        /\ place[m] = "buffer" /\ via[m] = c
        /\ \/ \E s \in selected : Dispatch(s, m, "routed")
           \/ selected = {} /\ Drop(m) /\ UNCHANGED <<owner, waited, ran>>
        /\ UNCHANGED <<lifeVars, via>>

\* EtaScheduler._wait: the delay is over.
Fire(m) ==
    /\ place[m] = "deferred"
    /\ Dispatch(owner[m], m, "fired")
    /\ UNCHANGED <<lifeVars, via>>

\* A handler ends; the acknowledgement middleware settles the delivery.
Finish(m) ==
    /\ place[m] \in {"routed", "fired"} /\ m \notin cancelled
    /\ \E outcome \in {"acked", OnError} : Settle(m, outcome)
    /\ UNCHANGED <<lifeVars, via, owner, waited, ran>>

\* A cancelled handler unwinds through the same middleware.
Unwind(m) ==
    /\ m \in cancelled
    /\ Settle(m, OnError)
    /\ UNCHANGED <<lifeVars, via, owner, waited, ran>>

\* get_one or iteration by a subscriber without handlers; its caller acknowledges.
Pull(s, m) ==
    /\ s \notin Handlers /\ held[s] # 0 /\ phase[s] # "starting" /\ bridge[held[s]] = "running"
    /\ place[m] = "buffer" /\ via[m] = held[s]
    /\ place' = [place EXCEPT ![m] = "pulled"]
    /\ owner' = [owner EXCEPT ![m] = s]
    /\ ran' = ran \cup {m}
    /\ UNCHANGED <<lifeVars, status, via, cancelled, waited>>

AckPulled(m) ==
    /\ place[m] = "pulled"
    /\ Settle(m, "acked")
    /\ UNCHANGED <<lifeVars, via, owner, waited, ran>>

-----------------------------------------------------------------------------
(* start() *)

\* SharedConsumer.start: a routing task, once anyone is registered.
OnlyFirst(c, list) ==
    IF bridge[c] # "running" /\ list # <<>> THEN [reader EXCEPT ![c] = "reading"] ELSE reader
WithReader(c, list) ==
    IF reader[c] = "none" /\ list # <<>> THEN [reader EXCEPT ![c] = "reading"] ELSE reader

\* ConsumerRegistry.acquire: the consumer of the queue, or the next one.
Fresh == 1 + Cardinality({c \in Consumers : bridge[c] # "new"})
Acquired == IF registry # 0 THEN registry ELSE Fresh

\* SharedConsumer.register: a subscriber with handlers, once.
Registered(list, s) ==
    IF s \in Handlers /\ \A i \in 1..Len(list) : list[i] # s THEN Append(list, s) ELSE list

\* acquire a consumer, register, start the bridge.  A bridge that has a thread
\* already -- one that is stopping, too -- lets SharedConsumer.start go on; one that failed raises
\* its error, and the subscriber stays registered until it is stopped.
Start(s) ==
    LET c    == Acquired
        list == Registered(members[c], s)
    IN  /\ phase[s] = "off"
        /\ Overlap \/ \A t \in Subscribers : phase[t] \in {"off", "starting", "on"}
        /\ starts < MaxStarts /\ starts' = starts + 1
        /\ c \in Consumers
        /\ raised' = raised \ {s}
        /\ registry' = c
        /\ held' = [held EXCEPT ![s] = c]
        /\ members' = [members EXCEPT ![c] = list]
        /\ IF bridge[c] = "new"
           THEN /\ bridge' = [bridge EXCEPT ![c] = "starting"]
                /\ phase' = [phase EXCEPT ![s] = "starting"]
                /\ UNCHANGED reader
           ELSE /\ phase' = [phase EXCEPT ![s] = "on"]
                /\ reader' = IF bridge[c] = "failed" THEN reader ELSE WithReader(c, list)
                /\ UNCHANGED bridge
        /\ UNCHANGED <<closing, deaths, taskVars>>

BridgeRuns(c) ==
    /\ bridge[c] = "starting"
    /\ bridge' = [bridge EXCEPT ![c] = "running"]
    /\ UNCHANGED <<registry, members, reader, phase, held, closing, raised, starts, deaths, taskVars>>

\* start() resumes: the bridge runs, or start() raises because it was stopped.
Started(s) ==
    LET c == held[s]
    IN  /\ phase[s] = "starting" /\ bridge[c] # "starting"
        /\ phase' = [phase EXCEPT ![s] = "on"]
        /\ reader' = IF bridge[c] = "running" THEN WithReader(c, members[c]) ELSE reader
        /\ UNCHANGED <<registry, members, bridge, held, closing, raised, starts, deaths, taskVars>>

\* The thread of a started bridge fails for good: the broker has the deliveries back,
\* the process what its handlers and timers hold.  (Failures before that, and what
\* redelivery does to a running handler: ConsumerBridge and TaskOutcome.)
Dies(c) ==
    /\ deaths < MaxDeaths /\ deaths' = deaths + 1
    /\ bridge[c] = "running" /\ \A s \in Subscribers : phase[s] # "starting"
    /\ bridge' = [bridge EXCEPT ![c] = "failed"]
    /\ status' = [m \in Tasks |-> IF m \in Unacked(c) THEN "ready" ELSE status[m]]
    /\ place' = [m \in Tasks |-> IF m \in Unacked(c) /\ place[m] \in {"buffer", "left"}
                                  THEN "queue" ELSE place[m]]
    /\ UNCHANGED <<registry, members, reader, phase, held, closing, raised, starts,
                   via, owner, cancelled, waited, ran>>

-----------------------------------------------------------------------------
(* stop() *)

\* ConsumerRegistry.release detaches s from the registered consumer and, if no
\* handler is left on it, stops it: the reader is cancelled, and then the bridge.
KeepMember(list, s) == list
KeepNobody(list, s) == <<>>
Detach(list, s) == RemoveFirst(list, s)
Release(s) ==
    LET c == registry
        left == Detach(members[c], s)
        goes(p) == phase' = [phase EXCEPT ![s] = p]
    IN  /\ held' = [held EXCEPT ![s] = 0]
        /\ IF c = 0
           THEN goes("off") /\ UNCHANGED <<members, closing, reader, bridge, cancelled>>
           ELSE /\ members' = [members EXCEPT ![c] = left]
                /\ CASE left # <<>> ->
                          goes("off") /\ UNCHANGED <<closing, reader, bridge, cancelled>>
                     [] left = <<>> /\ reader[c] = "reading" ->
                          /\ goes("closing") /\ closing' = [closing EXCEPT ![s] = c]
                          /\ reader' = [reader EXCEPT ![c] = "none"]
                          /\ cancelled' = cancelled \cup Routed(c)
                          /\ UNCHANGED bridge
                     [] left = <<>> /\ reader[c] # "reading" ->
                          /\ goes("joining") /\ closing' = [closing EXCEPT ![s] = c]
                          /\ reader' = [reader EXCEPT ![c] = "none"]
                          /\ bridge' = [bridge EXCEPT ![c] = "stopping"]
                          /\ UNCHANGED cancelled

\* EtaScheduler.stop cancels every pending task: one that sleeps is forgotten
\* unsettled, one in its handler unwinds.  With none pending nothing is awaited.
Pending(s) == {m \in Tasks : owner[m] = s /\ place[m] \in {"deferred", "fired"}}
Fired(s) == {m \in Pending(s) : place[m] = "fired"}
CancelNone(s) == {}
ToCancel(s) == Fired(s)
Unschedule(s) ==
    IF Pending(s) = {}
    THEN Release(s) /\ UNCHANGED place
    ELSE /\ phase' = [phase EXCEPT ![s] = "unscheduling"]
         /\ place' = [m \in Tasks |-> IF m \in Pending(s) \ Fired(s)
                                       THEN "left" ELSE place[m]]
         /\ cancelled' = cancelled \cup ToCancel(s)
         /\ UNCHANGED <<members, reader, bridge, held, closing>>

\* FastStream's stop: running is cleared, handlers get the graceful timeout.
Stop(s) ==
    /\ phase[s] = "on"
    /\ IF Handling(s) = {}
       THEN Unschedule(s)
       ELSE /\ phase' = [phase EXCEPT ![s] = "draining"]
            /\ UNCHANGED <<members, reader, bridge, held, closing, place, cancelled>>
    /\ UNCHANGED <<registry, raised, starts, deaths, status, via, owner, waited, ran>>

Drained(s) ==
    /\ phase[s] = "draining"
    /\ HandlersHang \/ Handling(s) = {}
    /\ Unschedule(s)
    /\ UNCHANGED <<registry, raised, starts, deaths, status, via, owner, waited, ran>>

Unscheduled(s) ==
    /\ phase[s] = "unscheduling"
    /\ Fired(s) = {}
    /\ Release(s)
    /\ UNCHANGED <<registry, raised, starts, deaths, status, via, place, owner, waited, ran>>

\* The cancelled reader is gone: bridge.stop() closes the session.
EndsByItself(c) == Routed(c) = {} /\ bridge[c] # "running"
Unwound(c) == Routed(c) \cap cancelled = {}
ReaderGone(s) ==
    LET c == closing[s]
    IN  /\ phase[s] = "closing"
        /\ Unwound(c)
        /\ phase' = [phase EXCEPT ![s] = "joining"]
        /\ bridge' = [bridge EXCEPT ![c] = IF @ = "stopped" THEN @ ELSE "stopping"]
        /\ UNCHANGED <<registry, members, reader, held, closing, raised, starts, deaths, taskVars>>

\* The thread is joined and its connection closed, so the broker has the unacked
\* deliveries back; the registry entry of the queue is deleted, whichever consumer it
\* names by now.  If another release() of the same consumer has deleted it already, the
\* deletion raises out of stop().
Joined(s) ==
    LET c == closing[s]
    IN  /\ phase[s] = "joining"
        /\ phase' = [phase EXCEPT ![s] = "off"]
        /\ closing' = [closing EXCEPT ![s] = 0]
        /\ bridge' = [bridge EXCEPT ![c] = "stopped"]
        /\ registry' = 0
        /\ raised' = IF registry = 0 THEN raised \cup {s} ELSE raised
        /\ status' = [m \in Tasks |-> IF m \in Unacked(c) THEN "ready" ELSE status[m]]
        /\ place' = [m \in Tasks |-> IF m \in Unacked(c) THEN "queue" ELSE place[m]]
        /\ cancelled' = cancelled \ Unacked(c)
        /\ UNCHANGED <<members, reader, held, starts, deaths, via, owner, waited, ran>>

\* The router finds the exception that a closed bridge leaves for its readers.
RouterEnds(c) ==
    /\ reader[c] = "reading" /\ Routed(c) = {}
    /\ bridge[c] \in {"failed", "stopping", "stopped"}
    /\ reader' = [reader EXCEPT ![c] = "ended"]
    /\ UNCHANGED <<registry, members, bridge, phase, held, closing, raised, starts, deaths, taskVars>>

-----------------------------------------------------------------------------
Lifecycle ==
    \/ \E c \in Consumers : BridgeRuns(c) \/ RouterEnds(c)
    \/ \E s \in Subscribers :
          Started(s) \/ Drained(s) \/ Unscheduled(s) \/ ReaderGone(s) \/ Joined(s)
    \/ \E m \in Tasks : Unwind(m)

Next ==
    \/ \E s \in Subscribers : Start(s) \/ Stop(s)
    \/ \E c \in Consumers : Dies(c)
    \/ \E c \in Consumers, m \in Tasks : Deliver(c, m) \/ Route(c, m)
    \/ \E m \in Tasks : Fire(m) \/ Finish(m) \/ AckPulled(m)
    \/ \E s \in Subscribers, m \in Tasks : Pull(s, m)
    \/ Lifecycle

Spec == Init /\ [][Next]_vars

\* The event loop runs what is ready, threads end when told to, and a cancelled
\* task unwinds; handlers may never end.
FairSpec == Spec /\ WF_vars(Lifecycle)

\* In addition timers go off, handlers end, and the router gets to every buffered
\* delivery (the buffer is a fifo).
Handled(m) ==
    \/ Finish(m)
    \/ AckPulled(m)
    \/ (Fire(m) /\ place'[m] # "deferred")
    \/ \E c \in Consumers : Route(c, m)
    \/ \E s \in Subscribers : Pull(s, m)
HandlersEnd == WF_vars(\E m \in Tasks : Handled(m))

-----------------------------------------------------------------------------
(* Properties *)

\* Once every subscriber has stopped, the broker has every delivery settled or
\* back: however the stops of the sharers of a consumer interleave, the last of
\* them closes the connection (unregister, release).
NothingStranded ==
    (\A s \in Subscribers : phase[s] = "off") => \A m \in Tasks : status[m] # "unacked"

\* A handler that is started on a consuming bridge has a routing task: the reader
\* is created whether the handler or a pull subscriber started the bridge
\* (SharedConsumer.start).
HandlersAreServed ==
    \A s \in Handlers :
        phase[s] = "on" /\ bridge[held[s]] = "running" => reader[held[s]] = "reading"

\* "A queue is read once" (consumer.py): one consumer at a time is open.  With Overlap it
\* can be two: the second of two overlapping release() calls deletes the entry of the
\* consumer that a start in between has registered.
OneConsumerReads ==
    \A c, d \in Consumers :
        {bridge[c], bridge[d]} \subseteq {"starting", "running"} => c = d

\* A started subscriber has a consumer that reads or is about to: release closes
\* it "once the last one leaves" (consumer.py, ConsumerRegistry.release).
ConsumerOutlivesItsUsers ==
    \A s \in Handlers : phase[s] = "on" => bridge[held[s]] \in {"starting", "running", "failed"}

\* stop() comes to an end, it returns or raises, even if no handler ever ends by itself
\* (TasksMixin and EtaScheduler.stop cancel what still runs, SharedConsumer.stop the reader).
StopFinishes ==
    \A s \in Subscribers : phase[s] \in {"draining", "unscheduling", "closing", "joining"}
                            ~> phase[s] = "off"

\* stop() does not raise: "a subscriber that never registered -- a get_one one -- still
\* releases" (test_consumer.py).  It raises when it overlaps the stop of the last handler:
\* both close the consumer, and the second has no registry entry left to delete.
StopsReturn == raised = {}

\* No delivery keeps its slot of the prefetch window for good: unclaimed, expired,
\* failed and cancelled ones are settled too (_drop, _drop_expired,
\* _settle_unhandled), or the connection closes.  (Deferred ones: DeferredComesBack.)
WindowDrains ==
    HandlersEnd => \A m \in Tasks :
        (status[m] = "unacked" /\ m \notin waited) ~> (status[m] # "unacked" \/ m \in waited)

\* "Deferred tasks were never acked, so the broker redelivers them" (usecase.py,
\* stop): a task that waited for its eta and no handler got is not thrown away.
DeferredSurvivesStop ==
    \A m \in Tasks : m \in waited /\ m \notin ran => status[m] # "rejected"

\* The same comment: the broker gets a deferred task back after the subscriber
\* that held it has stopped.  It does not while another subscriber keeps the
\* consumer's connection open.
DeferredComesBack ==
    HandlersEnd => \A m \in Tasks : place[m] = "left" ~> place[m] # "left"

\* "broker.ping() returns False while any queue consumer is recovering or has
\* stopped" (README.md): ping is true (every registered bridge runs) only if the
\* bridge of every started subscriber that has read a task runs.  It is true, too, when
\* the stop of the last handler has closed the consumer of a pull subscriber and taken
\* it out of the registry.
PingTells ==
    (registry # 0 => bridge[registry] = "running") =>
        \A s \in Subscribers : phase[s] = "on" /\ (\E m \in ran : owner[m] = s)
                                => bridge[held[s]] = "running"
=============================================================================
