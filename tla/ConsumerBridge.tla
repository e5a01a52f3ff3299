--------------------------- MODULE ConsumerBridge ---------------------------
(***************************************************************************)
(* subscriber/bridge.py and subscriber/session.py, with the settlement of  *)
(* message.py.  A consumer thread owns the kombu connection of one queue,  *)
(* the event loop owns everything else.  Deliveries cross to the loop as   *)
(* call_soon_threadsafe callbacks; settlements cross back through the      *)
(* action queue of the session that delivered the message.                 *)
(*                                                                         *)
(* The broker and the wire are external: a message is ready, unacked on    *)
(* one connection, or gone for good.  A connection may drop between any    *)
(* two steps, and what it held is ready again.                             *)
(***************************************************************************)
EXTENDS Integers, Sequences, FiniteSets, Functions

CONSTANTS
    Messages,         \* tasks on the broker queue
    Readers,          \* coroutines that may await get()
    Prefetches,       \* windows the subscribers ask for (0: unlimited)
    InitialPrefetch,  \* window of the first subscriber
    Operations,       \* settlements the application asks for
    CanCancel,        \* may a coroutine awaiting a settlement be cancelled?
    MaxStarts,        \* bound: calls of start() that spawn a thread
    MaxSessions,      \* bound: connections opened
    MaxDeliveries,    \* bound: deliveries, redeliveries included
    MaxAttempts,      \* bound: settlements submitted
    MaxFaults         \* bound: failures of the connection or of the consumer

ASSUME PrefetchAssumption == Prefetches \subseteq Nat /\ InitialPrefetch \in Nat
ASSUME ApplicationAssumption ==
    Operations \subseteq {"acked", "rejected", "requeued"} /\ CanCancel \in BOOLEAN
ASSUME BoundAssumption ==
    /\ MaxStarts \in Nat /\ MaxSessions \in Nat /\ MaxDeliveries \in Nat
    /\ MaxAttempts \in Nat /\ MaxFaults \in Nat

VARIABLES
    pc,          \* where the consumer thread is
    inhand,      \* attempt popped from the action queue, not yet run (0: none)
    failing,     \* an exception is leaving _run_connections
    patience,    \* the timeout of the drain_events in progress
    stopEvent, started, prefetchChanged, consuming, error, thread, prefetch,
    session,     \* the latest session (0: none)
    queue,       \* generation of the _messages queue
    closed, actions, unsettled,    \* of each session
    callbacks,   \* callbacks scheduled by call_soon_threadsafe
    messages,    \* the asyncio queue of each generation
    reader,      \* generation a reader waits on (0: not waiting)
    starting, stopping, raising,   \* coroutines start, stop and raise_prefetch
    attempts,    \* settlements submitted, each with its future
    up,          \* the connection of the latest session is alive
    window,      \* the QoS window in force on it
    deliveries,  \* what the broker delivered, in order
    faults

local   == <<inhand, failing, patience>>            \* locals of the thread
flags   == <<started, prefetchChanged, consuming, error>>
shared  == <<session, closed, actions, unsettled>>
wire    == <<up, window, deliveries, faults>>
life    == <<thread, stopEvent, queue, starting, stopping>>
widen   == <<prefetch, raising>>
inbox   == <<messages, reader>>
vars == <<pc, local, flags, shared, wire, life, widen, inbox, callbacks, attempts>>

Sessions == 1..MaxSessions
Queues   == 1..(MaxStarts + 1)
Pill     == 0    \* the exception left in a queue whose consumer ended
Outcomes == {"acked", "rejected", "requeued"}

Points == {"none", "top", "connect", "open", "mark", "loop", "run", "exec", "prefetch",
           "qos", "drain", "lost", "finally", "disconnect", "wait", "exit", "dead"}
Delivery == [msg : Messages, session : Sessions,
             wire : Outcomes \cup {"unacked", "dropped"},
             app : {"posted", "buffered", "held", "discarded"}]
Attempt  == [delivery : Nat, op : Outcomes,
             future : {"pending", "cancelled", "done", "failed"}]
Callback == [call : {"put"}, queue : Queues, item : Nat]
              \cup [call : {"complete"}, attempt : Nat, ok : BOOLEAN]

TypeOK ==
    /\ pc \in Points /\ inhand \in Nat
    /\ failing \in BOOLEAN /\ patience \in {"short", "long"}
    /\ stopEvent \in BOOLEAN /\ started \in BOOLEAN /\ prefetchChanged \in BOOLEAN
    /\ consuming \in BOOLEAN /\ error \in BOOLEAN /\ thread \in BOOLEAN
    /\ prefetch \in Nat
    /\ session \in 0..MaxSessions /\ queue \in Queues
    /\ closed \in [Sessions -> BOOLEAN]
    /\ actions \in [Sessions -> Seq(Nat)]
    /\ unsettled \in [Sessions -> Nat]
    /\ callbacks \in Seq(Callback)
    /\ messages \in [Queues -> Seq(Nat)]
    /\ reader \in [Readers -> Queues \cup {0}]
    /\ starting \in {"idle", "waiting", "joining"}
    /\ stopping \in {"idle", "closing", "joining"}
    /\ raising \in BOOLEAN
    /\ attempts \in Seq(Attempt)
    /\ up \in BOOLEAN /\ window \in Nat /\ faults \in Nat
    /\ deliveries \in Seq(Delivery)

Init ==
    /\ pc = "none" /\ inhand = 0 /\ failing = FALSE /\ patience = "long"
    /\ stopEvent = FALSE /\ started = FALSE /\ prefetchChanged = FALSE
    /\ consuming = FALSE /\ error = FALSE /\ thread = FALSE
    /\ prefetch = InitialPrefetch /\ session = 0 /\ queue = 1
    /\ closed = [s \in Sessions |-> FALSE]
    /\ actions = [s \in Sessions |-> <<>>]
    /\ unsettled = [s \in Sessions |-> 0]
    /\ callbacks = <<>> /\ messages = [q \in Queues |-> <<>>]
    /\ reader = [r \in Readers |-> 0]
    /\ starting = "idle" /\ stopping = "idle" /\ raising = FALSE
    /\ attempts = <<>>
    /\ up = FALSE /\ window = 0 /\ deliveries = <<>> /\ faults = 0

-----------------------------------------------------------------------------
(* Helpers *)

Unacked(s) == {i \in DOMAIN deliveries :
                  deliveries[i].session = s /\ deliveries[i].wire = "unacked"}
Ready(m) == \A i \in DOMAIN deliveries :
                deliveries[i].msg = m => deliveries[i].wire \in {"requeued", "dropped"}

\* complete_future, scheduled for an attempt.  (Mutant: errors are ignored.)
AlwaysSucceeds(a, ok) == [call |-> "complete", attempt |-> a, ok |-> TRUE]
Completion(a, ok) == [call |-> "complete", attempt |-> a, ok |-> ok]

\* ConsumerSession.close: under the lock, refuse new actions and fail those queued.
FailNone(s) == <<>>
FailQueued(s) == [i \in 1..Len(actions[s]) |-> Completion(actions[s][i], FALSE)]
CloseSession(s) ==
    /\ closed' = [closed EXCEPT ![s] = TRUE]
    /\ actions' = [actions EXCEPT ![s] = <<>>]
    /\ callbacks' = callbacks \o FailQueued(s)

\* The connection ends, and the broker takes back what was not settled on it.
EndConnection ==
    /\ up' = FALSE
    /\ deliveries' = [i \in 1..Len(deliveries) |->
          IF i \in Unacked(session) THEN [deliveries[i] EXCEPT !.wire = "dropped"]
                                    ELSE deliveries[i]]

Fault == faults < MaxFaults /\ faults' = faults + 1

\* The thread goes from one point to another and does nothing else.
Move(from, to) == pc = from /\ pc' = to /\ UNCHANGED <<local, flags, shared, wire, callbacks>>

-----------------------------------------------------------------------------
(* The consumer thread: _run, _run_connections, _consume_loop *)

\* The while test of _run_connections.
Top == Move("top", IF stopEvent THEN "exit" ELSE "connect")

\* connection_factory(), and the session of the new connection.
Connect ==
    /\ pc = "connect" /\ pc' = "open"
    /\ session < MaxSessions
    /\ session' = session + 1
    /\ UNCHANGED <<local, flags, closed, actions, unsettled, wire, callbacks>>

\* connection_factory() raises outside the try: nothing is closed or retried.
FactoryFails ==
    /\ pc = "connect" /\ pc' = "exit"
    /\ Fault
    /\ failing' = TRUE
    /\ UNCHANGED <<inhand, patience, flags, shared, up, window, deliveries, callbacks>>

\* Channel, Consumer(prefetch_count=self._prefetch_count), consume().
FirstWindow == InitialPrefetch
ConsumerWindow == prefetch
Open ==
    /\ pc = "open" /\ pc' = "mark"
    /\ up' = TRUE
    /\ window' = ConsumerWindow
    /\ UNCHANGED <<local, flags, shared, deliveries, faults, callbacks>>

\* _consuming = True, _started.set().
MarkConsuming ==
    /\ pc = "mark" /\ pc' = "loop"
    /\ consuming' = TRUE /\ started' = TRUE
    /\ UNCHANGED <<local, prefetchChanged, error, shared, wire, callbacks>>

\* The while test of _consume_loop.
LoopForever == Move("loop", "run")
Loop == Move("loop", IF stopEvent THEN "finally" ELSE "run")

\* run_actions: get_nowait, without the lock of the session.
DecreaseFreely(n) == n - 1
Decrease(n) == IF n > 0 THEN n - 1 ELSE 0
PopAction ==
    /\ pc = "run" /\ pc' = "exec"
    /\ actions[session] # <<>>
    /\ inhand' = Head(actions[session])
    /\ actions' = [actions EXCEPT ![session] = Tail(@)]
    /\ unsettled' = [unsettled EXCEPT ![session] = Decrease(@)]
    /\ UNCHANGED <<failing, patience, flags, session, closed, wire, callbacks>>

ActionsDone == Move("run", "prefetch") /\ actions[session] = <<>>

\* The action succeeds: basic_ack or basic_reject reaches the broker.
ExecuteAction ==
    LET d == attempts[inhand].delivery
    IN  /\ pc = "exec" /\ pc' = "run"
        /\ up /\ deliveries[d].wire = "unacked"
        /\ deliveries' = [deliveries EXCEPT ![d].wire = attempts[inhand].op]
        /\ callbacks' = Append(callbacks, Completion(inhand, TRUE))
        /\ inhand' = 0
        /\ UNCHANGED <<failing, patience, flags, shared, up, window, faults>>

\* The action raises: its future fails.  MessageStateError (kombu settles a
\* message once) stays with the caller; a broken connection ends the session and
\* any other error the thread.
ActionRaises ==
    LET settled == deliveries[attempts[inhand].delivery].wire \in Outcomes
    IN  /\ pc = "exec"
        /\ \/ settled /\ pc' = "run" /\ UNCHANGED <<failing, faults>>
           \/ ~settled /\ ~up /\ pc' = "lost" /\ UNCHANGED <<failing, faults>>
           \/ Fault /\ pc' = "finally" /\ failing' = TRUE
        /\ callbacks' = Append(callbacks, Completion(inhand, FALSE))
        /\ inhand' = 0
        /\ UNCHANGED <<patience, flags, shared, up, window, deliveries>>

NextTimeout == IF unsettled[session] > 0 THEN "short" ELSE "long"

\* _apply_prefetch: the flag is cleared before the count is read ...
ClearFlag ==
    /\ pc = "prefetch" /\ pc' = "qos"
    /\ prefetchChanged /\ prefetchChanged' = FALSE
    /\ UNCHANGED <<local, started, consuming, error, shared, wire, callbacks>>

\* ... and then the window is widened, unless the connection is gone.
Qos ==
    /\ pc = "qos"
    /\ \/ up /\ window' = prefetch /\ pc' = "drain" /\ patience' = NextTimeout
       \/ ~up /\ pc' = "lost" /\ UNCHANGED <<window, patience>>
    /\ UNCHANGED <<inhand, failing, flags, shared, up, deliveries, faults, callbacks>>

KeepPrefetch ==
    /\ pc = "prefetch" /\ pc' = "drain"
    /\ ~prefetchChanged
    /\ patience' = NextTimeout
    /\ UNCHANGED <<inhand, failing, flags, shared, wire, callbacks>>

\* A delivery, left to the application to settle.  (Mutant: no_ack.)
NoAckArrival(m) == [msg |-> m, session |-> session, wire |-> "acked", app |-> "posted"]
Arrival(m) == [msg |-> m, session |-> session, wire |-> "unacked", app |-> "posted"]

\* drain_events delivers a message: on_message.
Drain(m) ==
    /\ pc = "drain" /\ pc' = "loop"
    /\ up /\ Ready(m)
    /\ window = 0 \/ Cardinality(Unacked(session)) < window
    /\ Len(deliveries) < MaxDeliveries
    /\ deliveries' = Append(deliveries, Arrival(m))
    /\ unsettled' = [unsettled EXCEPT ![session] = @ + 1]
    /\ callbacks' = Append(callbacks, [call |-> "put", queue |-> queue,
                                       item |-> Len(deliveries) + 1])
    /\ UNCHANGED <<local, flags, session, closed, actions, up, window, faults>>

\* drain_events times out, or finds the connection gone.
DrainEnds == Move("drain", IF up THEN "loop" ELSE "lost")

\* The first step on a new connection, or a blocking read, fails: recoverably or not.
ConsumeFails(recoverable) ==
    /\ pc = "open" \/ (pc = "drain" /\ ~recoverable)
    /\ pc' = IF recoverable THEN "lost" ELSE "finally"
    /\ Fault
    /\ failing' = ~recoverable
    /\ UNCHANGED <<inhand, patience, flags, shared, up, window, deliveries, callbacks>>

\* `except recoverable`: a failure before the first consume reaches start().
Recover ==
    /\ pc = "lost" /\ pc' = "finally"
    /\ failing' = ~started
    /\ UNCHANGED <<inhand, patience, flags, shared, wire, callbacks>>

\* The finally block: the session is closed ...
Finally ==
    /\ pc = "finally" /\ pc' = "disconnect"
    /\ consuming' = FALSE
    /\ CloseSession(session)
    /\ UNCHANGED <<local, started, prefetchChanged, error, session, unsettled, wire>>

\* ... before the connection is.
Disconnect ==
    /\ pc = "disconnect" /\ pc' = IF failing THEN "exit" ELSE "wait"
    /\ EndConnection
    /\ UNCHANGED <<local, flags, shared, window, faults, callbacks>>

\* stop_event.wait(delay): the event is set, or the delay is over.
GiveUp == Move("wait", "exit")
Wait == Move("wait", IF stopEvent THEN "exit" ELSE "top")

\* _run: keep the error, release start(), leave the exception for the readers.
Exit ==
    /\ pc = "exit" /\ pc' = "dead"
    /\ error' = failing
    /\ consuming' = FALSE /\ started' = TRUE
    /\ callbacks' = Append(callbacks, [call |-> "put", queue |-> queue, item |-> Pill])
    /\ UNCHANGED <<local, prefetchChanged, shared, wire>>

ThreadStep ==
    \/ Top \/ Connect \/ Open \/ MarkConsuming \/ Loop
    \/ PopAction \/ ActionsDone \/ ExecuteAction \/ ActionRaises
    \/ ClearFlag \/ Qos \/ KeepPrefetch
    \/ (\E m \in Messages : Drain(m)) \/ DrainEnds
    \/ Recover \/ Finally \/ Disconnect \/ Wait \/ Exit

\* The thread never touches what belongs to the loop.
ThreadFrame == UNCHANGED <<life, widen, inbox, attempts>>
ThreadNext == ThreadStep /\ ThreadFrame
ThreadFails ==
    /\ FactoryFails \/ \E recoverable \in BOOLEAN : ConsumeFails(recoverable)
    /\ ThreadFrame

-----------------------------------------------------------------------------
(* The event loop: coroutines switch only where they await, so no other      *)
(* one runs inside the synchronous parts of stop() and raise_prefetch().     *)

LoopFree == stopping # "closing" /\ ~raising

\* A callback scheduled by the thread runs: put_nowait, or complete_future.
RunCallback ==
    LET c == Head(callbacks)
    IN  /\ callbacks # <<>> /\ callbacks' = Tail(callbacks)
        /\ \/ /\ c.call = "put"
              /\ messages' = [messages EXCEPT ![c.queue] = Append(@, c.item)]
              /\ deliveries' = IF c.item = Pill THEN deliveries
                               ELSE [deliveries EXCEPT ![c.item].app = "buffered"]
              /\ UNCHANGED attempts
           \/ /\ c.call = "complete"
              /\ attempts' = IF attempts[c.attempt].future # "pending" THEN attempts
                             ELSE [attempts EXCEPT ![c.attempt].future =
                                      IF c.ok THEN "done" ELSE "failed"]
              /\ UNCHANGED <<messages, deliveries>>
        /\ UNCHANGED <<pc, failing, flags, closed, actions, life, widen, reader>>

\* start(): a fresh queue and a thread.  It returns at once when there is one.
\* (Environment: nobody restarts a bridge while a stop() of it is in progress.)
Start ==
    /\ starting = "idle" /\ starting' = "waiting"
    /\ ~thread /\ stopping = "idle"
    /\ queue <= MaxStarts /\ queue' = queue + 1
    /\ thread' = TRUE /\ pc' = "top" /\ failing' = FALSE
    /\ stopEvent' = FALSE /\ started' = FALSE /\ error' = FALSE
    /\ UNCHANGED <<prefetchChanged, consuming, closed, actions, deliveries, stopping, widen,
                   inbox, callbacks, attempts>>

\* start() resumes once _started is set: joins a failed thread, or is done
\* (returning, or raising IncorrectState if stopped meanwhile).
WhenConsuming == consuming
WhenStarted == started
StartResumes ==
    /\ starting = "waiting" /\ WhenStarted
    /\ starting' = IF error /\ thread THEN "joining" ELSE "idle"
    /\ UNCHANGED <<pc, failing, flags, closed, actions, deliveries, thread, stopEvent, queue,
                   stopping, widen, inbox, callbacks, attempts>>

\* start() or stop() has joined the thread.
Joined ==
    /\ \/ starting = "joining" /\ starting' = "idle" /\ UNCHANGED stopping
       \/ stopping = "joining" /\ stopping' = "idle" /\ UNCHANGED starting
    /\ pc = "dead"
    /\ thread' = FALSE
    /\ UNCHANGED <<pc, failing, flags, closed, actions, deliveries, stopEvent, queue, widen,
                   inbox, callbacks, attempts>>

\* stop(): the event first ... (a repeated stop would only leave a second pill)
Stop ==
    /\ stopping = "idle" /\ stopping' = "closing"
    /\ queue > 1 /\ (thread \/ Pill \notin Range(messages[queue]))
    /\ stopEvent' = TRUE
    /\ UNCHANGED <<pc, failing, flags, closed, actions, deliveries, thread, queue, starting,
                   widen, inbox, callbacks, attempts>>

\* ... then the latest session, and then the thread, if there is one.
StopCloses ==
    /\ stopping = "closing"
    /\ IF session > 0 THEN CloseSession(session)
                      ELSE UNCHANGED <<closed, actions, callbacks>>
    /\ \/ thread /\ stopping' = "joining" /\ UNCHANGED messages
       \/ ~thread /\ stopping' = "idle"
                  /\ messages' = [messages EXCEPT ![queue] = Append(@, Pill)]
    /\ UNCHANGED <<pc, failing, flags, deliveries, thread, stopEvent, queue, starting, widen,
                   reader, attempts>>

\* raise_prefetch(count): only ever wider; the count, then the flag.
RaisePrefetch(count) ==
    /\ prefetch # 0 /\ (count = 0 \/ count > prefetch)
    /\ prefetch' = count /\ raising' = TRUE
    /\ UNCHANGED <<pc, failing, flags, closed, actions, deliveries, life, inbox, callbacks,
                   attempts>>

RaiseFlag ==
    /\ raising /\ raising' = FALSE
    /\ prefetchChanged' = TRUE
    /\ UNCHANGED <<pc, failing, started, consuming, error, closed, actions, deliveries, life,
                   prefetch, inbox, callbacks, attempts>>

\* get(): the reader stays with the queue it found (the bridge is created and
\* started in one step of the loop, so nobody waits on the constructor's queue).
Get(r) ==
    /\ reader[r] = 0 /\ queue > 1
    /\ reader' = [reader EXCEPT ![r] = queue]
    /\ UNCHANGED <<pc, failing, flags, closed, actions, deliveries, life, widen, messages,
                   callbacks, attempts>>

\* The reader takes an item: an exception is put back and raised, a delivery of
\* a closed session discarded, any other returned.
TakeAway(items) == Tail(items)
PutBack(items) == Append(Tail(items), Pill)
Receive(r) ==
    LET q == reader[r]
        item == Head(messages[q])
        dead == closed[deliveries[item].session]
    IN  /\ q # 0 /\ messages[q] # <<>>
        /\ \/ /\ item = Pill
              /\ messages' = [messages EXCEPT ![q] = PutBack(@)]
              /\ reader' = [reader EXCEPT ![r] = 0]
              /\ UNCHANGED deliveries
           \/ /\ item # Pill
              /\ messages' = [messages EXCEPT ![q] = Tail(@)]
              /\ reader' = [reader EXCEPT ![r] = IF dead THEN q ELSE 0]
              /\ deliveries' = [deliveries EXCEPT ![item].app =
                                   IF dead THEN "discarded" ELSE "held"]
        /\ UNCHANGED <<pc, failing, flags, closed, actions, life, widen, callbacks, attempts>>

\* CeleryMessage.settle takes its lock and finds nothing committed: no earlier
\* attempt is pending or done.
MaySettle(d) ==
    /\ deliveries[d].app = "held"
    /\ \A a \in DOMAIN attempts : attempts[a].delivery = d =>
           attempts[a].future \in {"cancelled", "failed"}

\* ConsumerAcknowledgement keeps the session; execute() submits the action to it,
\* or raises because it is closed.  (Mutants: the latest session; no test.)
LatestSession(d) == session
BoundSession(d) == deliveries[d].session
AcceptsAlways(s) == TRUE
Accepts(s) == ~closed[s]
Settle(d, op) ==
    LET s == BoundSession(d)
        Submitted(future) == Append(attempts, [delivery |-> d, op |-> op, future |-> future])
    IN  /\ MaySettle(d) /\ Len(attempts) < MaxAttempts
        /\ \/ /\ Accepts(s)
              /\ attempts' = Submitted("pending")
              /\ actions' = [actions EXCEPT ![s] = Append(@, Len(attempts) + 1)]
           \/ /\ ~Accepts(s)
              /\ attempts' = Submitted("failed")
              /\ UNCHANGED actions
        /\ UNCHANGED <<pc, failing, flags, closed, deliveries, life, widen, inbox, callbacks>>

\* The task awaiting a settlement is cancelled: the action stays queued.
Cancel(a) ==
    /\ CanCancel /\ attempts[a].future = "pending"
    /\ attempts' = [attempts EXCEPT ![a].future = "cancelled"]
    /\ UNCHANGED <<pc, failing, flags, closed, actions, deliveries, life, widen, inbox,
                   callbacks>>

\* The loop never touches what belongs to the thread.
LoopFrame == UNCHANGED <<inhand, patience, session, unsettled, up, window, faults>>
LoopProgress ==
    /\ \/ LoopFree /\ (RunCallback \/ StartResumes \/ Joined)
       \/ StopCloses \/ RaiseFlag
    /\ LoopFrame
ReaderNext(r) == LoopFree /\ LoopFrame /\ Receive(r)
LoopCalls ==
    /\ LoopFree /\ LoopFrame
    /\ \/ Start \/ Stop
       \/ \E count \in Prefetches : RaisePrefetch(count)
       \/ \E r \in Readers : Get(r)
       \/ \E d \in DOMAIN deliveries, op \in Operations : Settle(d, op)
       \/ \E a \in DOMAIN attempts : Cancel(a)

\* The connection drops under the consumer.
Drop ==
    /\ up /\ Fault
    /\ EndConnection
    /\ UNCHANGED <<pc, local, flags, shared, window, life, widen, inbox, callbacks, attempts>>

Next ==
    \/ ThreadNext \/ ThreadFails
    \/ LoopProgress \/ (\E r \in Readers : ReaderNext(r)) \/ LoopCalls
    \/ Drop

Spec == Init /\ [][Next]_vars

\* The thread and the loop keep running, and a reader is woken; nothing obliges
\* anyone to call start(), stop(), get() or settle(), and nothing need fail.
FairSpec ==
    /\ Spec
    /\ WF_vars(ThreadNext) /\ WF_vars(LoopProgress)
    /\ \A r \in Readers : WF_vars(ReaderNext(r))

-----------------------------------------------------------------------------
(* What the bridge guarantees *)

Pending      == {a \in DOMAIN attempts : attempts[a].future = "pending"}
SessionOf(a) == deliveries[attempts[a].delivery].session
WireOf(a)    == deliveries[attempts[a].delivery].wire

\* A settlement runs on the connection that delivered its message and on no
\* other: an old delivery never settles anything after a reconnect
\* (session.py:32, ConsumerAcknowledgement).
SessionIsolation ==
    /\ \A s \in Sessions : \A a \in Range(actions[s]) : SessionOf(a) = s
    /\ inhand # 0 => SessionOf(inhand) = session

\* Whoever awaits a settlement can still be answered: its action waits in an open
\* session that a running thread serves, is being run, or its completion is
\* scheduled (session.py:82-83 and close(), bridge.py finally).
NoOrphanedFuture ==
    \A a \in Pending :
        \/ inhand = a
        \/ /\ a \in Range(actions[session]) /\ ~closed[session]
           /\ pc \notin {"none", "dead"}
        \/ \E ok \in BOOLEAN : Completion(a, ok) \in Range(callbacks)

\* A settlement reported as done did reach the broker, with that outcome, and one
\* reported as failed did not, unless an abandoned attempt had settled the
\* delivery before (session.py, run_actions and complete_future).
OutcomeIsTrue ==
    \A a \in DOMAIN attempts :
        /\ attempts[a].future = "done" => WireOf(a) = attempts[a].op
        /\ attempts[a].future = "failed" /\ WireOf(a) \in Outcomes =>
               \E b \in DOMAIN attempts : /\ b < a /\ attempts[b].op = WireOf(a)
                                         /\ attempts[b].delivery = attempts[a].delivery

\* No widening of the window is lost between the loop and the thread: once the
\* flag is down, a live connection has the widest count asked for
\* (raise_prefetch, _apply_prefetch, the Consumer constructor).
PrefetchNotLost ==
    consuming /\ up /\ pc # "qos" /\ ~prefetchChanged /\ ~raising => window = prefetch

\* Nobody waits on a queue whose consumer ended without the exception that ends
\* the wait being there or on its way (get() puts it back, bridge.py:136-141).
Ended(q) == 1 < q /\ (q < queue \/ pc = "dead")
EndIsVisible ==
    \A q \in Queues : q <= queue /\ Ended(q) =>
        \/ Pill \in Range(messages[q])
        \/ [call |-> "put", queue |-> q, item |-> Pill] \in Range(callbacks)

\* start() never ends with an error of its own making when the consumer failed:
\* the failure reaches the caller (bridge.py:150-151).
FailureReachesStart ==
    [][starting = "waiting" /\ error /\ starting' # starting => thread]_vars

\* stop() returns, wherever in connecting, reading, recovering or waiting the thread
\* is when it is asked to end (bridge.py, stop).
StopReturns == stopping # "idle" ~> stopping = "idle"

\* start() returns or raises: _started is set by a thread that consumes and by one
\* that ends (bridge.py, _run).
StartReturns == starting # "idle" ~> starting = "idle"

\* A settlement that is awaited is answered, by its action or by the end of its
\* session (session.py, execute and close).
SettlementReturns == \A a \in 1..MaxAttempts : (a \in Pending) ~> (a \notin Pending)

\* A reader of a queue whose consumer ended is woken, also when others take the
\* exception before it (bridge.py, get).
ReadersWake ==
    \A r \in Readers : (reader[r] # 0 /\ Ended(reader[r])) ~> reader[r] = 0

\* Every call on the bridge comes back.
CallsReturn == StopReturns /\ StartReturns /\ SettlementReturns /\ ReadersWake

\* A consumer that lost its connection consumes again, unless it is stopped or
\* fails for good (bridge.py, _run_connections).
Reconnects ==
    (started /\ pc \notin {"none", "dead"}) ~> (consuming \/ stopEvent \/ error)

\* The bridge implements the queue of TaskQueue.tla: a task leaves the broker only
\* by a settlement asked for on the delivery that holds it.
Latest(m) == {i \in DOMAIN deliveries : deliveries[i].msg = m /\ deliveries[i].wire = "unacked"}
StatusOf(m) ==
    IF Ready(m) THEN "ready"
    ELSE (CHOOSE d \in Range(deliveries) :
              d.msg = m /\ d.wire \notin {"requeued", "dropped"}).wire
AskedOf(m) == {attempts[a].op : a \in {b \in DOMAIN attempts : attempts[b].delivery \in Latest(m)}}

Queue == INSTANCE TaskQueue WITH status <- [m \in Messages |-> StatusOf(m)],
                                 asked <- [m \in Messages |-> AskedOf(m)]
ImplementsQueue == Queue!Spec
=============================================================================
