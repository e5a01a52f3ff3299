# A formal model of faststream-celery

faststream-celery is a FastStream broker that speaks the Celery task protocol
over kombu. This directory holds TLA+ models of its concurrent core, the TLC
configurations that check them on small instances, and proofs that TLAPS checks.
Paths in this file are relative to `src/faststream_celery/` unless they start
with `docs/`, `tests/` or `README.md`.

Run a configuration with `tlc -workers 2 -config <run>.cfg <module>.tla`, a proof
with `tlapm <module>_proofs.tla`. `PROJECT.json` says which run belongs to
which module, which source lines every definition stands for, and for every
property a mutant of the model that violates it.

## 1. The system

One process runs an asyncio event loop. Each consumed queue has one thread of its
own that owns a kombu connection; publications and blocking Redis or kombu calls
go to worker threads.

| part | files | state | operations | talks to |
|---|---|---|---|---|
| consumer bridge and session | `subscriber/bridge.py`, `subscriber/session.py`, `acknowledgement.py` | thread, events, error, prefetch and its change flag, `_messages` queue; per connection: action queue, closed, unsettled | start, stop, raise_prefetch, get; execute, on_message, run_actions, close | the broker by kombu; the loop by `call_soon_threadsafe`; the thread by queues and events |
| message settlement | `message.py` | `committed`, a lock | ack, nack, reject | the session of the delivery |
| shared consumer and registry | `subscriber/consumer.py` | consumers by queue, members, the reader task | acquire, release, start, unregister, route | bridge, subscribers |
| subscriber | `subscriber/usecase.py` | `_consumer`, FastStream's `running` | start, stop, dispatch, consume, get_one, iteration | registry, scheduler, FastStream's pipeline |
| ETA scheduler | `subscriber/scheduler.py` | pending asyncio tasks | schedule, stop | subscriber |
| result middleware | `middlewares.py` | none of its own; result keys, replies | consume_scope | backend, producer, canvas |
| canvas | `canvas.py` | none of its own | on_success, on_failure, on_chord_part, _fail_chord | producer, Redis |
| chord journal and join | `backend/redis.py` | the keys `.j`, `.s`, `.t`, the result meta | record_chord_part, join_group, clear_chord, store, load, wait | Redis |
| memory backend | `backend/memory.py` | results, events | store, load, wait, disconnect | waiters |
| producer and write connection | `publisher/producer.py`, `configs/broker.py`, `broker/broker.py` | one connection, one lock per start | publish, request, ping, connect, disconnect | the broker, by worker threads |
| wire format | `parser.py`, `schemas/`, `response.py` | none | envelopes, signatures, commands, payloads, parsing | |
| declarations | `broker/registrator.py`, `broker/router.py`, `fastapi/fastapi.py`, the factories and configs, `security.py` | configs of registrators, subscribers, publishers | subscriber, publisher, include_router, routes | FastStream's config composition |
| test broker | `testing.py` | swapped producer and backend, reply futures, request tasks | publish and request in place, enter, exit | handlers, the memory backend |
| telemetry, metrics, AsyncAPI | `opentelemetry/`, `prometheus/`, `specification.py` of both sides | none | names of destinations | |

What makes it hard:

- **Two owners.** Thread and loop share a bridge without a common lock: a change
  flag and a value (prefetch), a queue and a closed flag (settlements), an event
  and an error (start), an exception in a queue that must wake every reader.
- **Connections come and go.** A delivery of an ended connection is redelivered
  while its handler still runs, and its late settlement must not reach the new
  connection.
- **Starts and stops interleave** at every await, on a consumer that several
  subscribers share; deferred tasks come due in the middle.
- **Several executors share a chord** through Redis round trips that may fail
  between any two steps, with redelivery as the only retry.
- **Outcome and delivery are separate** (ADR-0004), although one exception decides
  both, and reporting is a sequence of round trips that may break anywhere.
- **One write connection, many threads.** Publications, pings and the close each run
  on some worker thread of a limited number; requests hold one while they wait.
- **Waiting for a result** races the result, the deadline and the broker's stop.
- **Fake mode is a second implementation** of production: messages built beside the
  producer, continuations nested in their predecessor, requests on tasks of their own
  that may be running when the test leaves.
- **Options come from many places**: endpoint, router, inclusion and broker, some
  read at the declaration and some later.

What makes each part correct: for the bridge, that a settlement has a true answer,
on the right connection, and that every call returns; for the shared consumer, that
nothing is stranded, every handler is served and stops end; for chords, that a body
is published at most once, whole and in order, and that every chord ends; for an
outcome, that a failure a client sees is final, that what is acknowledged is done
and that nothing unsettled is left behind; for the write connection, that two
threads never use it at once; for a request, that it returns a terminal outcome of its
own task and misses neither a result nor the deadline; for declarations, that workers
are fed and names agree; for the test broker, that a handler, the canvas and a client
cannot tell it from production.

## 2. Modules

| module | models | checked by |
|---|---|---|
| `ConsumerBridge` | bridge, session and settlement, with the broker's side of a connection | `MCConsumerBridge` |
| `TaskQueue` | abstract: what a subscriber relies on, whatever connection serves it | implemented by `ConsumerBridge` |
| `ConsumerBridgeSettlement_proofs` | proof: types of the bridge, settlements stay with their connection, no widening is lost | tlapm |
| `ConsumerBridgeOutcome_proofs` | proof: settlements are answered, truly, and readers see the end; the bridge implements `TaskQueue` | tlapm |
| `QueueConsumer` | registry, shared consumer, routing, subscriber lifecycle, scheduler | `MCQueueConsumer` |
| `QueueConsumer_proofs` | proof: types; the consumer stays while a handler uses it, serves every handler and leaves nothing unacked | tlapm |
| `ChordJoin` | the chord header: result middleware, canvas and Redis, by several executors | `MCChordJoin` |
| `ChordBarrier` | abstract: results arrive, then the body is published or failed, with its errbacks, each once at most | implemented by `ChordJoin` |
| `ChordJoin_proofs` | proof: types, saved groups are whole, the chord implements `ChordBarrier` | tlapm |
| `TaskOutcome` | one message: handler, effects, policy, redelivered attempts | `MCTaskOutcome` |
| `WriteConnection` | the write connection: connect, stop, publish, ping, worker threads | through `RequestCalls` |
| `RequestCalls` | requests on top of it: memory backend, Redis backend, RPC reply queue | `MCRequestCalls` |
| `ResultRequest` | abstract: what `request()` promises | implemented by `RequestCalls` and by `TestBroker` |
| `RequestCalls_proofs` | proof: types, publications are alone, no result is missed; a request keeps its promise | tlapm |
| `TaskOutcome_proofs` | proof: types; what an attempt reports agrees with what becomes of its message, with itself and with other attempts | tlapm |
| `Envelope` | operators: tasks, signatures, envelopes, commands, parsing, continuations | through `TestBroker` |
| `Declarations` | brokers, routers, endpoints and their options; windows of a real start | through `TestBroker` |
| `TestBroker` | fake mode around a declared application | through `TestBrokerOrder` |
| `TestBrokerOrder` | the order in which the handlers of a workflow run, read off its definition | `MCTestBroker` |
| `TestBroker_proofs` | proof: types, windows, the fake's messages, answers and promise, a clean exit | tlapm |
| `SequenceFacts` | lemmas on least numbers and on sequences that several proofs use | tlapm |

### ConsumerBridge

The consumer thread is the program counter `pc` through `_run`,
`_run_connections` and `_consume_loop`; an action is the stretch between two points
at which the loop could see a difference (so `_apply_prefetch` is `ClearFlag` and
`Qos`). The loop's side is one action per coroutine step: `Start`, `StartResumes`,
`Joined`, `Stop`, `StopCloses`, `RaisePrefetch`, `RaiseFlag`, `Get`, `Receive`,
`Settle`, `Cancel`. `callbacks` is the fifo of `call_soon_threadsafe`. A session is
a number; `closed`, `actions` and `unsettled` are its fields. `deliveries` is a
history of what the broker delivered, each with its fate at the broker (`wire`) and
in the process (`app`); `attempts` is the history of settlements with their
futures. `Drop` ends the connection between any two steps.

Left out: the length of the reconnect delay; `get()` before the first start, which the
package's callers never do; and a `start()` issued, or a second `stop()`, while a `stop()`
is in progress. The shared consumer does cause these two (two releases that overlap, and
an acquire during a release), so they are in `QueueConsumer`, on its smaller bridge.

A settlement on a dead connection always raises here; over AMQP a `basic_ack` may be
written without an error and be lost, and the answer is then *settled* although the broker
delivers again.

### QueueConsumer

One event loop, so an action is what happens between two awaits. `phase` is where
a subscriber's `start()` or `stop()` is: draining is FastStream's graceful wait,
unscheduling the await in `EtaScheduler.stop`, closing the await of the cancelled
reader, joining the await of the bridge's thread. `place` is where a delivery is in
the process. The bridge is reduced to six states, what `ConsumerBridge` shows of
it; one that runs may fail for good (`Dies`), which returns what it held and leaves
handlers and timers behind. A task that a handler still holds is not redelivered
before that handler ends here (overlapping attempts are `TaskOutcome`'s). `registry` is
the consumer that the registry names, which is not always one that is open, and `raised`
a history of the stops that found no entry left to delete. The constant `Overlap` says
whether a start may begin while another subscriber's stop is in progress; stops always
overlap freely. Failing bridge starts, MANUAL settlement and the concurrent subscriber are
not in this module, nor are synchronous handlers on worker threads, which cancelling
cannot interrupt, and handlers that swallow their cancellation.

### ChordJoin

An action is one round trip to Redis or to the broker. `work` is what each executor
is doing; `journal` and `size` are `.j` and `.s`; `meta` is the result keys. `Fault`
makes a round trip fail before or after it took effect, `Lose` and `Crash` redeliver. The
publication of the body is the one round trip whose failure `on_chord_part` catches, so
`Decide` has that failure itself, also before or after the effect; `doubt` remembers that
a published body's publication raised.
The client (which sends the header, sets the size before the last task and may save
the group) and the broker are external. Not modelled: the `.t` counter, key expiry,
nested groups, and the frozen chain of a failed body.

### TaskOutcome

`work[w]` is one attempt: where it is, the exception that is travelling
(`raising`), `CeleryMessage.committed`, the effects it has still to bring about
(`plan`) and those it brought about (`did`). `SuccessPlan` and `FailurePlan` are the
sequences of `consume_scope` with everything `_report`, `failed_chain_results`,
`on_success` and `on_failure` do inside it; `Do` and `Fail` take them one effect at a
time. FastStream's acknowledgement middleware (`Receive`, `Exit`, `Disposition`) is
external, in the form the tests of `tests/unit/test_outcomes.py` rely on. The chord
is one effect here. A reply that travels back to `request()`, which the middleware
lets through, is not modelled.

### WriteConnection and RequestCalls

`life` is where `start()` or `stop()` of the broker is between its awaits; `call[p]`
is where the coroutine `p` is in `publish()`, `request()` or `ping()`, with the
connection and the lock it has read: `_build_payload` may give the loop up, so both can
be older than the present ones. `OnThread` are the calls that occupy a worker thread.
`RequestCalls` continues a request after its publication: in `loading` and `asleep`
(`InMemoryResultBackend.wait`, with `listening` and `woken` for its events), in
`loading` and `napping` (`RedisResultBackend.wait`), or in `asking` and `rpc`
(`request_sync`, with `queue` and `inhand` for its replies). `Expire` is the deadline:
`move_on_after` interrupts an await, `request_sync` looks at the clock when its turn
comes. The executor (`Report`) reports what it likes, as often as it likes, to tasks
that were published; replies of other tasks and undecodable ones come as `foreign` and
`broken`. kombu opens a closed connection that is written to or checked again.

### Envelope

Functions from records to records: `build_task_envelope`, `as_signature`,
`parse_envelope`, the payloads and destinations of a command, result envelopes, and the
continuations of `canvas.py` with every option they forward. Keyword arguments, reprs,
content types and JSON are left out; a datetime keeps its instant and whether it knows
its zone, which is what the ISO text and its parsing can lose. What a step leads to (its
callbacks, errbacks and chain) is kept as it was given, signatures or tasks, and read by
`as_signatures` where the code reads it. The parser also takes a v2 body of two elements
(`parser.py:143`), which no producer here sends; `CanvasSteps` is the set of the signatures that
workflows are written with.

### Declarations

`app.declarations` is executed one by one into `configs` (of a registrator, the
composition of configs from the broker to itself), `subscribers` and `publishers`.
What `create_subscriber` settles at once is stored; queue names and policies are
operators over `configs`, since the code reads them later. A publisher that decorates a
handler is kept with its subscriber. `include_router` copies the chain of configs of the outer registrator, which
FastStream keeps by reference; that differs only for routers in routers, included from the
inside out, and the applications here have one router. `StartNext` starts the next
subscriber for real and acquires its window. `ApplicationAssumption` says that a declaration names registrators
declared before it, and that the counts it gives are numbers.

### TestBroker

A coroutine is a stack of the messages it is processing: `publish()` of the fake
producer runs a handler in place, and its continuations run inside. A frame has the
agenda of `consume_scope` after its handler: results to store and commands to publish,
in the order of the code. `CallRequest` puts the handler on a task of its own; `Return`
is a wait that ends. `Exit`, `Unwind`, `Exited` are the way out. The abstraction differs
from `TaskOutcome` on purpose: there one message meets every fault and policy, here many
messages meet real options. The agendas have no `on_chord_part`: in fake mode a task that
belongs to a chord raises a `SetupError` (`canvas.py:95`), as its backend is in memory,
and no order here has one. The order of a workflow has a module of its own,
`TestBrokerOrder`, since it needs a recursive operator, which the provers cannot use.

## 3. Runs

| run | instance | expected |
|---|---|---|
| `bridge_settlement` | 2 messages, 2 connections, 2 deliveries, 2 settlements that may be cancelled, 1 widening, 1 fault | passes |
| `bridge_calls` | 1 message, 2 starts, 3 connections, 1 reader, 1 settlement that may be cancelled, 1 fault, fair | passes |
| `bridge_start_race` | 1 start, 1 fault | violation |
| `queue_lifecycle` | 3 subscribers (claimant, catch-all, pull), 2 tasks of every fate, 3 starts, window 1, 1 bridge that fails, handlers that may hang | passes |
| `queue_deferred_rejected` | a deferred task and a stop | violation |
| `chord_once` | 3 header tasks, 2 executors, 1 fault | passes |
| `chord_faults` | 2 header tasks, 2 executors, 2 faults, 1 redelivery, requeueing, fair | passes |
| `chord_redelivered` | 2 header tasks, 2 executors, 1 redelivery | violation |
| `task_outcome` | 2 workers, every policy, 8 handler fates, 1 fault, 1 redelivery, a chain of 2 signatures, fair | passes |
| `request_calls` | 2 callers, 2 calls, 2 connections, 2 threads, every backend, 2 reports, fair | passes |
| `ping_race` | 2 callers, 1 connection, 2 threads | violation |
| `test_broker` | 4 applications, 4 orders, 2 callers, 2 calls, 2 request tasks | passes |

`bridge_settlement` shows that a settlement acts on the connection of its delivery
(`SessionIsolation`), that its answer is what happened at the broker
(`OutcomeIsTrue`), that no widening of the window is lost (`PrefetchNotLost`), and that
the bridge refines `TaskQueue` (`ImplementsQueue`): a task leaves the broker only by a
settlement asked for since its last delivery. Two connections and two deliveries are the
least that show a late settlement meeting a new connection; a third adds no new relation
of two.

`bridge_calls` adds what the loop can do at the same time: a second start, a stop
between any two steps, a cancelled settlement. No future is orphaned
(`NoOrphanedFuture`), every ended queue has its exception for the readers
(`EndIsVisible`); stop, start, settlement and waiting readers come to an end
(`CallsReturn`), and a lost connection is replaced (`Reconnects`).

`queue_lifecycle` lets three subscribers start, work and stop. Stops overlap each other at
every await, and starts overlap starts; a start does not begin while another subscriber's
stop is in progress (`Overlap = FALSE`, see section 5). It shows that after the last stop
the broker has every delivery settled or back (`NothingStranded`), that a started handler
keeps its consumer whoever stops (`ConsumerOutlivesItsUsers`) and has a reader whoever
started the bridge (`HandlersAreServed`), that one consumer reads at a time
(`OneConsumerReads`), that stops end, by returning or raising, although handlers hang
(`StopFinishes`), and that every slot of the window comes back (`WindowDrains`). Three
starts of three subscribers give every sharing pattern, or one restart into a second
consumer.

`chord_once` shows that without redelivery the chord is the abstract barrier, also
with one failing round trip, or a publication that fails before or after it reached the
broker: a body in header order, a failure and errbacks, each once at most, and none of the
last two after a publication that returned (`ImplementsBarrier`, with every publication
and every stored failure in the mapping). Three tasks are the least with an order to get wrong in the
middle. `chord_faults` shows that every chord ends, whatever fails, when failed
deliveries are requeued, and that a saved group stays whole under redelivery.

`task_outcome` shows of every attempt: a reported failure is never requeued
(`FailureIsFinal`), instructions leave no outcome (`NoOutcomeForInstruction`), an
acknowledged success has all its effects (`AckedMeansDone`), a success that breaks
later does not become a failure (`OneVerdict`); of the message: no attempt repeats
another's report unless the broker redelivered or an effect broke under `NACK_ON_ERROR`
(`NothingRepeats`), every delivery is settled unless the policy is MANUAL
(`DeliveriesEnd`), and retrying completes (`RetryCompletes`). Two workers are what a
redelivered attempt needs to overlap the first.

`request_calls` shows that publications use their connection alone (`OneWriter`), that a
request returns only a terminal outcome of its own task, reported after the call, on all
three ways (`ImplementsRequest`, a refinement), that a wait in memory misses no result,
stored however close to its look or its deadline (`InTimeIsReturned`), and that every
call, start and stop returns (`CallsReturn`). Two threads are the least on which a
publication and a check overlap, and the number at which two requests over RPC leave
none; two connections are one restart, so that a caller's lock or producer may be old.

`test_broker` runs four applications. One answers by reply queue, with two handlers on a
queue and a router under NACK_ON_ERROR; one keeps results in a backend, with a decorated
handler declared by a route; one declares windows on a FastAPI router and is started for
real, as is its twin with refused credentials. The orders are a workflow of two callbacks,
a chain of two with a frozen step and an errback; a scheduled task through a publisher;
a continuation that is refused; a task nobody handles, for an exchange and a routing key of
its own. It shows that fake mode keeps the
promise of a request (`ImplementsRequest`), that a handler that ran for a request has
answered it when its task ends (`EndedMeansAnswered`), that a workflow runs in the order of its definition with the right
arguments and parents (`RunsInOrder`), that whatever is published looks to the parser,
the canvas, the scheduler and telemetry as kombu would deliver it (`FakeDeliversTheSame`;
of telemetry unless a header given by hand names another task, section 5),
that nothing runs when the test has left (`NothingRunsAfterExit`), and of the real start,
that no subscriber has a narrower window than it asked for (`WorkersAreFed`). The definition
of a workflow's order (`Walk`) is written from the workflow, not from the stack that runs
it. Callers are symmetric in this run. `Frozen1` is the id of a frozen step, `CanvasSteps`
the steps of the four orders, and TLC evaluates the assumptions that the proofs use:
ids, callers, reply queues, declarations and steps are what section 6 says they are.

`CHECK_DEADLOCK FALSE` is set in every run: a stopped bridge, stopped subscribers, a
decided chord and a settled message really have nothing more to do, and exhausted
bounds stop the rest. The liveness properties cover what the deadlock check would.

### Bounds

Sessions, deliveries, attempts, starts, consumers, faults and losses are capped by
constants named `Max...`, each in the guard of the one action that uses it up. A
bound stops the environment (no further fault, delivery, start, call or report); only
`MaxSessions` could stop the thread, and `bridge_calls` allows as many connections
as its starts and its fault can use. `Threads` is no bound but the limiter's capacity.

### Fairness

- `ConsumerBridge!FairSpec`: the thread and the event loop keep running, and a
  reader whose queue has an item is woken. Nothing obliges the application to call,
  and nothing need fail. `drain_events` has a timeout and the delay ends, so the
  thread is never blocked for good.
- `QueueConsumer!FairSpec`: only the steps of starts, stops, joined threads and
  unwinding tasks. Handlers may hang. `HandlersEnd`, the antecedent of
  `WindowDrains`, adds what that property really needs: handlers end, timers go off
  and the router reaches a buffered delivery: for the deliveries together, weak fairness of
  the steps that handle one.
- `ChordJoin!FairSpec`: the client sends the whole header, executors take what is
  ready and go on, and a join that cannot complete reaches its deadline.
- `TaskOutcome!FairSpec`: attempts go on, and what is ready is delivered.
- `RequestCalls!FairSpec`: a step of a start, a stop or a call that can be taken is
  taken, and deadlines pass: the loop and the threads run, locks and the limiter are
  fair queues, blocking kombu calls return or raise. Nobody need call, publish a result
  or start the broker.
- `TestBroker` has safety properties only.

## 4. Where the code and what is said of it differ

Each of these is a run that must end in a counterexample.

- `bridge_start_race`: `start()` waits for the thread's first connection; if that
  fails while a `stop()` runs, `stop()` has already joined the thread and forgotten
  it, and `start()` ends with an error of its own (`None` has no `join`) instead of
  the connection's (`bridge.py:104`; the comment at line 150 says fatal failures
  must reach startup callers).
- `queue_deferred_rejected`: a deferred task that comes due after `stop()` cleared
  `running` is not run and then rejected (`usecase.py:238`), where the comment at
  line 184 and `tests/unit/test_subscriber.py:351` say it goes back to the broker.
- `chord_redelivered`: completeness and content of the journal are read in two round
  trips (`redis.py:165`); an executor that completes the group in between clears it,
  and the body is published without arguments.
- `ping_race`: `ping()` checks the write connection on a worker thread without the
  publish lock (`configs/broker.py:82`), while a publication uses it on another; so does
  the close of `stop()` (`producer.py:118`). The comments at `configs/broker.py:86` and
  `producer.py:70` say why it must not.

## 5. Known limits of what the passing runs show

Five configurations named in this section are not among the runs of section 3:
`queue_overlap.cfg` passes, the other four end in the counterexample described.

- That the loop polls while something is unsettled is not stated: a settlement that is
  cancelled and asked for again decrements `unsettled` twice (`session.py:78`), and the
  loop blocks for the long timeout while another delivery is unsettled. The effect is a
  delay.
- *A stop that raises.* A subscriber without handlers is on no list, so its `stop()` closes
  the consumer just as that of the last handler does. If the two overlap, the second `del`
  of the registry entry raises a `KeyError` out of `stop()` (`consumer.py:200`;
  `tests/unit/test_consumer.py:222` says that such a subscriber "still releases"). No start
  is involved. The model keeps this in `raised`; `StopsReturn` says that it does not
  happen, and fails (`queue_release_twice.cfg`).
- *Starts during a stop.* `TypeOK`, `ConsumerOutlivesItsUsers`, `NothingStranded` and
  `OneConsumerReads` hold with `Overlap = FALSE` only; `StopFinishes` and
  `HandlersAreServed` hold with such starts, too (`queue_overlap.cfg`). Nothing in the code
  enforces the restriction: a broker that starts and stops its subscribers together keeps
  it, one subscriber that is stopped by itself while another of its queue starts does not.
  Then `acquire()` may hand out a consumer that `release()` is stopping, so that what was
  started sits on a stopped bridge; and a second `del` may forget the new consumer while it
  reads, so that the next start opens another one on the same queue
  (`queue_two_readers.cfg`; `consumer.py:6` says a queue is read once).
- *Pull subscribers are no users.* `ConsumerOutlivesItsUsers` is about handlers. The stop of
  the last one closes the consumer of a pull subscriber that is still started, and takes it
  out of what `ping()` looks at (`consumer.py:90`), although `README.md:183` says `ping()` is
  `False` while a queue consumer has stopped: `PingTells` fails (`queue_ping.cfg`).
- *Deferred tasks that stay.* What `stop()` cancels in the scheduler is not settled, so the
  broker has it back only when the connection closes; while another subscriber of the queue
  keeps it open, the tasks stay unacked (`scheduler.py:38`, against the comment at
  `usecase.py:184`): `DeferredComesBack` fails (`queue_deferred_kept.cfg`).
- A chord's body can be published and also stored as failed, when its publication raises
  after the broker has it (`canvas.py:126`). `ChordBarrier` allows that one case;
  `docs/design.md` promises no exactly-once publication.
- Duplicate chord entries with conflicting outcomes count as two members; ADR-0005
  leaves them open. `chord_once` excludes redelivery for that reason.
- After a redelivery two attempts may report different outcomes: `NothingRepeats` is
  stated without lost connections, as `docs/design.md` promises nothing more.
- `OneWriter` asks for the lock of the connection: a codec that gives the loop up while
  the broker restarts lets its message take the new lock with the old producer.
- A `ping()` that read the connection before `stop()` opens it again afterwards; its
  timeout does not end a check that is on its thread. `stop()` of the memory backend
  forgets the events of waiters, who then wait for their deadline, and a start whose
  backend fails leaves the producer connected.
- Fake mode: the outcome of a fake subscriber, which receives what a decorated handler
  returned under the same correlation id, overwrites the handler's result in the backend
  (`ResultIsItsTasks` fails; `middlewares.py:72`, `testing.py:390`). A continuation that
  nobody handles, or whose handler raises, costs a request over RPC its reply and ends the
  chain, as the error rises through the publication; `EndedMeansAnswered` and
  `RunsInOrder` say "as far as it came". `EndedMeansAnswered` is about the first handler
  of a request: a fake subscriber under it runs in the same task, with the same id.
  `eta` and `expires` are carried but not acted on. A request made while the test broker
  is being left is not cancelled.
- A header `task` given with a message names another task than the body does. The publish
  end of telemetry describes the body's, the consumer end the header's, in production as
  in fake mode; `FakeDeliversTheSame` compares the two ends only without such a header.
- Subscribers of a router declared before `include_router()` do not inherit
  `max_workers` and `prefetch_count` of the broker, which `create_subscriber` reads at
  once; prefix and policy, read later, they do.
- Subscribers of several registrators are kept in the order of their declaration, while
  FastStream lists the broker's own first; it matters for two catch-alls of one queue.

## 6. Proofs

`ConsumerBridgeSettlement_proofs` proves `TypeCorrect`: `Spec => []TypeOK`, and
`SettlementStays`: `Spec => []SessionIsolation`, by one inductive invariant. Types
alone are not inductive, because the model names deliveries and attempts by their
number in a history: executing an action reads the delivery of the attempt in hand,
a callback writes the delivery or the attempt it names. `Linked` says that every such
number points into its history, that an action waits in the queue of the session of
its delivery (`AttemptsOf`) and that the one in hand is of the current session;
`Control` adds where the thread must have a session or an action in hand, and that
without a thread object it runs nowhere. The steps split by what they change: those
that leave the linked variables alone go through `DataKept`; the others show
`KeepsHistory` (histories only grow, and a number keeps its session and delivery), from
which `Growth` and `LinksKept` carry every link the action does not write. The proofs
use the assumptions of `ConsumerBridge` on its constants: windows and bounds are
numbers, operations are outcomes.

`ConsumerBridgeSettlement_proofs` also proves `WindowKept`: `Spec => []PrefetchNotLost`, for any
set of messages, readers and windows and any bounds. `PrefetchNotLost` is not
inductive: a consumer is created with a window (`Open`) before `consuming` is set
(`MarkConsuming`), and a widening in between must already be covered. The inductive
invariant `WindowInv` therefore extends it to the point `mark`, and adds
`ThreadKnown`: without a thread object no thread runs, so a new start never meets an
old loop. The proof has one lemma for the thread's steps, one for failures, one for
the event loop, each split by action; the theorem combines them with PTL. It uses
no assumption on the constants.

`ConsumerBridgeOutcome_proofs` adds what the bridge owes those who wait:
`NobodyWaitsInVain` (`[]NoOrphanedFuture`), `AnswersAreTrue` (`[]OutcomeIsTrue`) and
`EndStaysVisible` (`[]EndIsVisible`). None is inductive. That a pending attempt will be
answered needs to know where it can be (`Answerable`) and that only the session the
thread serves is open and a closed one has an empty queue (`OneOpen`). That *failed* means
not settled is a statement about the future of a delivery: it was refused because an
earlier attempt had settled it, or nothing later can settle it any more (`Hopeless`), and
that rests on the order in which a session runs its actions (`InOrder`). `Story` is the
conjunction, on top of the invariant of `ConsumerBridgeSettlement_proofs`. `PillLeft`
is separate: the exception goes back into the queue with each reader that takes it.

The last part of `ConsumerBridgeOutcome_proofs` is `BridgeIsAQueue`: `Spec => ImplementsQueue`,
for any number of connections. The refinement mapping reads the status of a task off
its deliveries by a CHOOSE; `Exclusive`, at most one delivery of a task holds it or
settled it, makes that choice a value (`StatusIs`), and `AskedIs` does the same for what
was asked. Each step is then sorted by what it does to those two: nothing (`SameTask`), a
delivery, a settlement, an asking, or the end of a connection.

`QueueConsumer_proofs` proves four invariants of `queue_lifecycle`: `QueueTypes`,
`ConsumerStays`, `EveryHandlerIsServed`, `NothingLeftBehind`. `EveryHandlerIsServed` holds
whenever subscribers start and stop: its invariant, `ServeInv`, says that a handler stays
on the list of the consumer it holds until its own stop (`Listed`), so that nobody takes
the routing task away before, and that such a task ends only with its bridge (`Routing`).

The other three have the hypothesis `~Overlap`, as the run does. It excludes a start during
another subscriber's stop, and no overlap of stops, of starts, or of either with
deliveries, timers and failures; with such starts TLC finds each of the three false
(section 5). That one consumer reads a queue (`OneConsumerReads`) is no theorem: the starts
that could refute it are the ones the hypothesis excludes. For any number of subscribers, tasks, consumers and failing bridges, the invariant `QueueInv`
says who may be on a list (`Members`, `Users`), what a leaving subscriber still owes
(`Leavers`), that consumers are used one after the other (`InTurn`), that only the
registered one is open (`Current`, `Bridges`), where a routing task must be (`Routers`)
and that what is unacked is on a connection somebody will close (`OnAConnection`).
`Detached` is the lemma on Python's `list.remove`: what leaves the list is gone, the
rest stays, once each.

`RequestCalls_proofs` proves `WritesAlone`: `Spec => []OneWriter`, and `NoLostWakeup`:
`Spec => InTimeIsReturned`, by one invariant, `CallInv`. `OneWriter` is not inductive:
that two writers with one lock are one needs that a caller in the critical section is the
lock's holder (`Held`), and a caller that acquires finds its lock free. The second needs
that a sleeper nobody has woken is listening and has no terminal result (`Awake`), as long
as its broker is up, and who can sleep at all (`Ways`); that a broker which has given its
connection up is not the one a caller has read rests on `Reads` and `Unwired`. Most steps move one
caller and disturb nobody else; they go through `MoveKeeps`, with `EndsKeeps` and
`GoesKeeps` for the two usual moves. The lock's two steps, the look of a waiter and the
report have a lemma each. `RequestTypes` (`[]TypeOK`) adds `Typed`: a lock that is held is held
by a call in its critical section, only a sleeper is woken, and a reply in hand belongs
to a request over RPC. The proofs use that worker threads, connections and bounds are
numbers, that backends are the three, that "nobody" is no caller, and that the states of
tasks differ from the other answers of a call.

The last part of `RequestCalls_proofs` is `RequestsKeepTheirPromise`: `Spec => ImplementsRequest`,
the refinement the run `request_calls` checks on two callers. Its invariant, `AskInv`,
goes with `CallInv`: a terminal state, wherever it is kept -- recorded by a backend, in
a reply queue or in hand -- was reported since the call (`Earned`), which a new call may
rely on only because it forgets the old result and finds no reply queue (`Quiet`); and a
call in progress has no answer yet, and only a request waits (`Proper`). Each step of a
caller then is a step of `ResultRequest` or none: `StillAsking` for a call that goes on,
`Returned` for one that ends. It uses that terminal states, progress and the other
answers of a call differ.

`TaskOutcome_proofs` proves `FailuresAreFinal`, `InstructionsAreSilent` and
`AcknowledgedIsDone`: `Spec => []FailureIsFinal`, `[]NoOutcomeForInstruction` and
`[]AckedMeansDone`, by one invariant of an attempt, `OutcomeInv`. The three speak of what
an attempt *did*; the invariant adds what it still *plans*, and when the two are decided:
a message that may yet be requeued (not settled, under `NACK_ON_ERROR`) plans only the
effects of a success (`GoesBack`), a handler that settles has lost the delivery to settle
again (`Once`), an instruction leaves nothing planned (`Instructed`), and for a handler
that returned whatever is not done is planned (`Returned`).

Three more theorems need what is *in* a plan: `OutcomeTypes` (`[]TypeOK`), `OneVerdictEach`
(`[]OneVerdict`) and the action property `NothingIsRepeated` (`NothingRepeats`). A
failure's plan walks down a chain of any length by a fold of the community modules.
`FlattenedIn`, of `SequenceFacts`, shows that what the fold makes consists of the effects of
its parts: the library's induction schemes take an operator, but a nonempty set of naturals has a least
member (`LeastOf`, by well-foundedness), and the least index at which the claim fails
is a contradiction. `FailureBlames` then says that a failure plans only blame, and
`OneStory` that an attempt either planned nothing of the kind or did nothing that tells of
a success. `NothingRepeats` rests on `Serial`: without a lost connection at most one
attempt speaks, it has said all that was ever said, and the message is not delivered again
once it has. `Owners` counts the attempt that may settle. The proofs use that policies and
fates are the listed ones, and that a message has the fields the report looks at, with any
chain (`TaskAssumption`).

`ChordJoin_proofs` proves `ChordTypes` (`[]TypeOK`), `SavedGroupIsWhole`
(`[]SavedBodyIsWhole`) and `ChordIsABarrier` (`Spec => ImplementsBarrier`), for a header of
any size and any number of executors. All rest on what ZRANGE returns. `InOrder` chooses
the sequence of a set of entries that is sorted by `Precedes`; that there is one, and only
one, is an induction over the set: `SortedUpto` puts the entries up to a key in order, and
the least key at which that fails is a contradiction (`LeastOf`). `WholeInOrder` then says
that the successes of all tasks, in order, are the header. `SavedInv` adds to the property
that what a join has read so far are successes, and what is decided is a failure or the
whole group; neither redelivery nor a clear by another executor disturbs it, because the
join of a saved group reads each result from its own key. The refinement is proved under
`Once`, the regime of `chord_once`: no delivery is repeated, and every outcome is stored.
That is a hypothesis about the environment, not about the code, and without it the barrier
does not hold: a redelivered task can be counted twice (`chord_redelivered`, section 5).
Under it, faults of Redis and of the broker are allowed, any number of them, before or
after their effect. The mapping hides nothing: `ChordBarrier` sees every publication, every
stored failure and every publication of the errbacks, so a second one of any is a step it
does not have. The invariant `BarrierInv` says that a task that was sent is executed once
(`Delivered`), that Redis knows nothing of it before its outcome is stored and one outcome
afterwards (`Entered`), and that one executor decides, when everything is over, and knows
every result (`OneDecides`); `Awaits`, a part of it, says before each step of that executor
what may have become of the body so far. `Seen` lists what a step may look like to the
barrier.

`TestBroker_proofs` proves every safety property of `test_broker` but one, for any
applications, orders and callers and any number of calls and requests. It has four
invariants, each on top of those before it.

- `DeclInv`: a registrator that a declaration may name has its configs, every subscriber
  has a number for its window, no test has begun before the declarations are over, and a
  subscriber that has started is fed. This gives `StartedAreFed` (`[]WorkersAreFed`),
  which does not follow from one acquisition: a later subscriber of the queue may only
  raise the window of an earlier one.
- `TestInv`: what a frame has still to do, what was stored and what was replied is the
  outcome of a handler that is in the log (`IsOutcome`); an id in use was generated before
  (`Past`) or chosen by somebody; what a message leads to consists of the workflow's steps.
  The lemmas on effects follow the agenda of `consume_scope` part by part, for a success,
  its continuations, a failure, its frozen steps and its errbacks. It gives `TestTypes`
  (`[]TypeOK`) and `FakeKeepsThePromise` (`Spec => ImplementsRequest`): storing and replying
  are stutters of `ResultRequest`, because the outcome was there when the handler finished.
- `ExitInv`: a task that runs while the test is being left is one that `Exit` waits for.
  It gives `ExitIsClean`, the action property `NothingRunsAfterExit`.
- `AnswerInv` follows the first handler of a request: before it, the request's message is
  the only frame of its task; after it, the answer has been given or is on that frame's
  agenda, at its head if it goes to a backend or tells of a failure, somewhere on it if it
  is the reply of a success, which waits for the continuations (`Owes`, `Prompt`); at the
  end it has been given, except a reply whose continuations broke. It gives
  `EndedAreAnswered` (`[]EndedMeansAnswered`).

`FakeDelivers` is about `[]FakeDeliversTheSame`: for what may be on an agenda, the fake's
message and the delivery of kombu are compared field by field. It needs that only a task is
sent without a correlation id, which `TestInv` carries (`Traced`) under the hypothesis that
the code's `None` is no mapping (`NoneIsNoMapping`). That is a hypothesis of this theorem
and not an assumption of the module because it ranges over all functions, which TLC cannot
evaluate. The other assumptions are evaluated in the run: generated ids are numbers and no
chosen one is; `None` is no number, no state and no reply queue; declarations name what is
there, and give numbers; orders and steps list their steps; callers are no request tasks.

Only model-checked: all liveness (with everything that needs ENABLED), and `RunsInOrder`.
Its reference, `Walk`, is a recursion over the definition of a workflow, signatures inside
signatures, which the provers cannot unfold; a proof would be an induction over it.
`ChordJoin`'s `BodyIsWhole` is false with a redelivery, which a run shows.

## 7. Plan

1. *Done*: the bridge and its refinement, the shared consumer, the chord and its
   refinement, outcomes, the write connection, requests and their refinement, the wire
   format, declarations and the test broker; the proofs of section 6, with those of the test broker.
2. The concurrent subscriber and undecodable headers in QueueConsumer; the chain of a
   failed chord body and nested groups in ChordJoin.
3. Proofs: what holds of a chord with redeliveries that are not interleaved; what a start
   during another subscriber's stop leaves true of the shared consumer.

## 8. Not modelled, and why

- Nested groups that a client saved (`schemas/group.py`): a tree that only shapes the
  arguments of a body; `ChordJoin` has the order of a flat one.
- Exceptions as texts (`schemas/result.py`), logging (`broker/logging.py`), spans and
  counters of telemetry, titles and schemas of AsyncAPI, annotations and types: wording
  and output without a state a property could relate to.
- The queue of the concurrent subscriber: FastStream's, and not in this repository.
- Dependency injection and HTTP of the FastAPI integration: FastAPI's.
- Content types and codecs: a payload is what they carry.
- `publish_batch`, which raises; examples and benchmarks.

FastStream, kombu, anyio, Redis, FastAPI and the Celery client are external and modelled
from how this code uses them.
