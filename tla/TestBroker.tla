----------------------------- MODULE TestBroker -----------------------------
(***************************************************************************)
(* TestCeleryBroker (testing.py) around a declared application: the fake   *)
(* producer runs the handler of a published task in place, the             *)
(* continuations of the handler inside the handler's own publication, and  *)
(* a requested task on an asyncio task of its own; a request waits for its *)
(* reply queue or for the in-memory backend.                               *)
(*                                                                         *)
(* Callers are coroutines of the test.  Every handler, and every           *)
(* publication a middleware wraps, may give up the event loop.  What is    *)
(* published in place returns before the test leaves the broker.           *)
(***************************************************************************)
EXTENDS Declarations

CONSTANTS
    Callers,
    Orders,         \* what callers ask for, each once: a body and where to, by which endpoint
    MaxCalls,       \* bound: calls
    MaxRequests     \* bound: requests that found a handler

ASSUME BoundAssumption == MaxCalls \in Nat /\ MaxRequests \in Nat

Tasks == 1..MaxRequests    \* asyncio tasks of requests
ASSUME CallerAssumption == Callers \cap Tasks = {}

\* A body has its own id, if it has one, and lists its steps.
Written(body) ==
    /\ Chosen(body)
    /\ IsTask(body) => \A steps \in {"link", "link_error", "chain"} : Listed(body[steps])
    /\ IsTriple(body) => \A steps \in {"callbacks", "errbacks", "chain"} : Listed(body.embed[steps])
ASSUME OrderAssumption ==
    \A order \in Orders : order.endpoint \in Nat /\ Chosen(order.headers) /\ Written(order.body)

\* A reply queue is a queue.
ASSUME QueueAssumption == None \notin {"reply"} \X Nat

VARIABLES
    mode,       \* "declaring", "started" for real, "testing", "leaving", "left"
    backend,    \* of config.result_backend while testing: "memory" or "none"
    stored,     \* InMemoryResultBackend.results
    pending,    \* _reply_queues: of a reply queue, the reply its future has or None
    stack,      \* of a coroutine: the messages it is processing, innermost last
    asking,     \* of a caller: its call, or the last one it made
    asked,      \* of the id of a call: its order
    answer,     \* of a caller: how its last call ended
    requests,   \* of a request task: "none", "running", "ok", "raised", "cancelled"
    snapshot,   \* request tasks that leaving found unfinished
    ids,        \* ids generated so far
    log,        \* the handlers that ended, in their order
    calls

testVars == <<mode, backend, stored, pending, stack, asking, asked, answer, requests,
              snapshot, ids, log, calls>>
vars == <<declVars, testVars>>

TypeOK ==
    /\ app \in Applications /\ declared \in 0..Len(app.declarations)
    /\ mode \in {"declaring", "started", "testing", "leaving", "left"}
    /\ backend \in {"none", "memory"}
    /\ DOMAIN stack = Callers \cup Tasks
    /\ \A p \in Callers : answer[p] \in {"none", "ok", "raised", "SUCCESS", "FAILURE"}
    /\ \A n \in Tasks : /\ requests[n] \in {"none", "running", "ok", "raised", "cancelled"}
                        /\ stack[n] # <<>> => requests[n] = "running"
    /\ snapshot \subseteq Tasks
    /\ ids \in Nat /\ \A e \in Range(log) : e.id # None /\ e.sub \in 1..Len(subscribers)
    /\ \A q \in DOMAIN pending :
          \E p \in Callers : asking[p].op = "request" /\ q = <<"reply", asking[p].id>>
    /\ \A p \in Callers : stack[p] # <<>> <=> asking[p].op = "publish"
    /\ calls \in 0..MaxCalls

Init ==
    /\ DeclInit
    /\ mode = "declaring" /\ backend = "none"
    /\ stored = NoHeaders /\ pending = NoHeaders
    /\ stack = [c \in Callers \cup Tasks |-> <<>>]
    /\ asking = [p \in Callers |-> [op |-> "idle", id |-> 0]]
    /\ asked = NoHeaders
    /\ answer = [p \in Callers |-> "none"]
    /\ requests = [n \in Tasks |-> "none"]
    /\ snapshot = {}
    /\ ids = 0 /\ log = <<>> /\ calls = 0

-----------------------------------------------------------------------------
(* Messages *)

\* build_message: "the message a Celery consumer would have received" for a command.
ItsOwnHeaders(cmd, envelope) == envelope.headers
Headers(cmd, envelope) == Override(envelope.headers, cmd.headers)
build_message(cmd, id, now) ==
    LET envelope == build_task_envelope(cmd.body, id, now)
    IN [body           |-> IF IsTask(cmd.body) THEN envelope.body ELSE cmd.body,
        headers        |-> IF IsTask(cmd.body) THEN Headers(cmd, envelope) ELSE cmd.headers,
        correlation_id |-> id, reply_to |-> cmd.reply_to,
        exchange       |-> Or(cmd.exchange, cmd.queue),
        routing_key    |-> Or(cmd.routing_key, cmd.queue)]
Now == 0    \* of build_task_envelope

\* What the parser makes of a message.
Id(msg) == Or(Get(parse_envelope(msg).headers, "id"), msg.correlation_id)
Task(msg) == Get(parse_envelope(msg).headers, "task")
Ignores(msg) == Get(parse_envelope(msg).headers, "ignore_result") = TRUE

\* select_subscriber over the handlers of the queue: the exact task, else the first
\* subscriber without one.
Candidates(queue) ==
    {i \in 1..Len(subscribers) :
        subscribers[i].calls # None /\ SubscriberQueue(subscribers[i]) = queue}
find_handler(queue, msg) ==
    LET exact == {i \in Candidates(queue) : subscribers[i].task = Task(msg)}
        rest  == {i \in Candidates(queue) : subscribers[i].task = None}
    IN IF exact # {} THEN Min(exact) ELSE IF rest # {} THEN Min(rest) ELSE None

-----------------------------------------------------------------------------
(* What a message leads to: consume_scope and the publishers after it *)

Result == 100 + Len(log)    \* what the next handler returns
When(condition, effect) == IF condition THEN <<effect>> ELSE <<>>
Publish(cmd) == [cmd |-> cmd, valid |-> TRUE]

StoreAtRoot(msg, result) ==
    When(backend = "memory" /\ ~Ignores(msg),
         [result |-> [result EXCEPT !.task_id = Get(parse_envelope(msg).headers, "root_id")]])
Store(msg, result) == When(backend = "memory" /\ ~Ignores(msg), [result |-> result])
Uncorrelated(msg, s, queue, result) ==
    When(queue # None /\ ~Ignores(msg) /\ ~s.no_reply,
         Publish([Reply(queue, result) EXCEPT !.correlation_id = None]))
Replied(msg, s, queue, result) ==
    When(queue # None /\ ~Ignores(msg) /\ ~s.no_reply, Publish(Reply(queue, result)))

\* No task here is the member of a chord: in fake mode on_chord_part refuses one.
\* The value is stored; then the callbacks and the chain; then it is the reply, and what
\* the decorating publishers send.
SuccessAgenda(msg, s) ==
    LET success == build_success(Id(msg), Result) IN
    Store(msg, success)
        \o Followers(parse_envelope(msg).headers, read_embed(msg), Result, SubscriberQueue(s))
        \o Replied(msg, s, msg.reply_to, success)
        \o [i \in DOMAIN s.publishers |->
              Publish(DecoratedCommand(s.publishers[i], [value |-> Result], msg.correlation_id))]

\* should_report_outcome: nothing under NACK_ON_ERROR, which would retry.
FailureAgenda(msg, s) ==
    LET Reported(id, reply_to) ==
            Store(msg, build_failure(id)) \o Replied(msg, s, reply_to, build_failure(id))
        chain == as_signatures(read_embed(msg).chain)
    IN IF ack_policy(s) = "NACK_ON_ERROR" THEN <<>>
       ELSE Reported(Id(msg), msg.reply_to)
            \o FlattenSeq([i \in DOMAIN chain |->
                   IF ~Frozen(chain[i]) THEN <<>>
                   ELSE Reported(Option(chain[i], "task_id"), Option(chain[i], "reply_to"))])
            \o Errbacks(parse_envelope(msg).headers, read_embed(msg), SubscriberQueue(s))

Frame(msg, s) == [msg |-> msg, sub |-> s, at |-> "handler", agenda |-> <<>>, raising |-> FALSE]

-----------------------------------------------------------------------------
(* Entering *)

DeclareNext == mode = "declaring" /\ Declare /\ UNCHANGED testVars

Declared == mode = "declaring" /\ declared = Len(app.declarations)

\* A real start instead of a test: every subscriber acquires its queue's consumer.
Start ==
    /\ Declared \/ mode = "started"
    /\ StartNext(ids)
    /\ mode' = "started" /\ ids' = ids + 1
    /\ UNCHANGED <<backend, stored, pending, stack, asking, answer, requests, asked, snapshot, log, calls>>

\* create_publisher_fake_subscriber: a publisher whose queue nobody handles gets a
\* subscriber of the test broker.
FakeSubscriber(queue) ==
    create_subscriber([max_workers |-> None, prefetch_count |-> None, task |-> None,
                       queue |-> queue, ack_policy |-> None, no_reply |-> FALSE,
                       calls |-> "fake", publishers |-> <<>>], "broker", broker_config(configs["broker"]))
Handled(subs, queue) == \E s \in Range(subs) : s.calls # None /\ SubscriberQueue(s) = queue
Unhandled ==
    {i \in DOMAIN publishers :
        LET queue == PublisherQueue(publishers[i])
        IN ~Handled(subscribers, queue) /\ \A j \in 1..i - 1 : PublisherQueue(publishers[j]) # queue}
WithFakes ==
    LET nth(k) == CHOOSE i \in Unhandled : Cardinality({j \in Unhandled : j <= i}) = k
    IN subscribers \o [k \in 1..Cardinality(Unhandled) |->
                           FakeSubscriber(PublisherQueue(publishers[nth(k)]))]

\* Only a broker with a result backend gets the one in memory.
change_result_backend(configured) == IF configured = "none" THEN "none" ELSE "memory"

\* The producer and the backend are swapped, publishers get their subscribers.
Enter ==
    /\ Declared /\ mode' = "testing"
    /\ backend' = change_result_backend(make_result_backend(Options.result_backend))
    /\ subscribers' = WithFakes
    /\ UNCHANGED <<app, declared, configs, publishers, windows, stored, pending, stack, asking,
                   asked, answer, requests, snapshot, ids, log, calls>>

-----------------------------------------------------------------------------
(* Publishing *)

Told(cmd, message) ==
    IF cmd.queue \in DOMAIN pending /\ pending[cmd.queue] = None
       /\ {"task_id", "status"} \subseteq DOMAIN message
       /\ cmd.correlation_id = Last(cmd.queue) /\ message.task_id = Last(cmd.queue)
       /\ message.status \in READY_STATES
    THEN [pending EXCEPT ![cmd.queue] = message.status] ELSE pending

\* An exception leaves every message the coroutine is processing; consume() of a
\* requested task swallows it.
LeavesTheOuter(c, how) ==
    /\ stack' = [stack EXCEPT ![c] = Front(@)]
    /\ IF c \in Tasks
       THEN requests' = [requests EXCEPT ![c] = how] /\ UNCHANGED <<asking, answer>>
       ELSE answer' = [answer EXCEPT ![c] = how] /\ UNCHANGED <<asking, requests>>
Ends(c, how) ==
    /\ stack' = [stack EXCEPT ![c] = <<>>]
    /\ IF c \in Tasks
       THEN requests' = [requests EXCEPT ![c] = how] /\ UNCHANGED <<asking, answer>>
       ELSE /\ asking' = [asking EXCEPT ![c].op = "idle"]
            /\ answer' = [answer EXCEPT ![c] = how]
            /\ UNCHANGED requests

\* FakeProducer.publish of anything but a request, by the coroutine c whose stack is
\* `frames`: a reply that is awaited, a handler to run in place, an error.
Delivers(c, cmd, frames) ==
    LET id  == IF cmd.correlation_id = None THEN ids + 1 ELSE cmd.correlation_id
        msg == build_message(cmd, id, Now)
        handler == find_handler(cmd.queue, msg)
    IN  /\ ids' = IF cmd.correlation_id = None THEN ids + 1 ELSE ids
        /\ IF cmd.queue \in DOMAIN pending
           THEN /\ pending' = Told(cmd, msg.body)
                /\ stack' = [stack EXCEPT ![c] = frames]
                /\ UNCHANGED <<requests, asking, answer>>
           ELSE /\ UNCHANGED pending
                /\ IF handler # None
                   THEN /\ stack' = [stack EXCEPT ![c] =
                                        Append(frames, Frame(msg, handler))]
                        /\ UNCHANGED <<requests, asking, answer>>
                   ELSE IF cmd.type = "REPLY"
                   THEN stack' = [stack EXCEPT ![c] = frames] /\ UNCHANGED <<requests, asking, answer>>
                   ELSE Ends(c, "raised")

-----------------------------------------------------------------------------
(* Callers *)

CommandOf(order, type, id) ==
    LET p == publishers[order.endpoint] IN
    CASE order.endpoint = 0 /\ type = "PUBLISH" -> BrokerPublish(order, id)
      [] order.endpoint = 0 /\ type = "REQUEST" -> BrokerRequest(order, id)
      [] order.endpoint # 0 /\ type = "PUBLISH" -> EndpointPublish(p, order, id)
      [] order.endpoint # 0 /\ type = "REQUEST" -> EndpointRequest(p, order, id)

Callable == {order \in Orders : order.endpoint <= Len(publishers) /\ order \notin Range(asked)}

Calling(p) ==
    /\ mode = "testing" /\ asking[p].op = "idle" /\ calls < MaxCalls /\ calls' = calls + 1
    /\ UNCHANGED <<declVars, mode, backend, stored, snapshot, log>>

\* publish(): returns when the handler and all that follows it has ended.
CallPublish(p) ==
    /\ Calling(p)
    /\ \E order \in Callable :
          LET cmd == CommandOf(order, "PUBLISH", ids + 1)
              msg == build_message(cmd, ids + 1, Now)
              handler == find_handler(cmd.queue, msg)
          IN  /\ ids' = ids + 1
              /\ asked' = Override(asked, [i \in {ids + 1} |-> order])
              /\ IF handler = None
                 THEN /\ asking' = [asking EXCEPT ![p] = [op |-> "idle", id |-> ids + 1]]
                      /\ answer' = [answer EXCEPT ![p] = "raised"]
                      /\ UNCHANGED stack
                 ELSE /\ asking' = [asking EXCEPT ![p] = [op |-> "publish", id |-> ids + 1]]
                      /\ answer' = [answer EXCEPT ![p] = "none"]
                      /\ stack' = [stack EXCEPT ![p] = <<Frame(msg, handler)>>]
    /\ UNCHANGED <<pending, requests>>

\* request(): with the backend, the task is published and its result awaited; without, a
\* reply queue is awaited (request_via_rpc).  A task nobody handles has no result.
CallRequest(p) ==
    /\ Calling(p)
    /\ \E order \in Callable :
          LET id    == ids + 1
              plain == CommandOf(order, "REQUEST", id)
              reply == <<"reply", id>>
              cmd   == IF backend = "memory" THEN plain ELSE [plain EXCEPT !.reply_to = reply]
              msg   == build_message(cmd, id, Now)
              handler == find_handler(cmd.queue, msg)
              free  == {n \in Tasks : requests[n] = "none"}
          IN  /\ ids' = id
              /\ pending' = IF backend = "memory" THEN pending
                            ELSE Override(pending, [q \in {reply} |-> None])
              /\ asked' = Override(asked, [i \in {id} |-> order])
              /\ asking' = [asking EXCEPT ![p] = [op |-> "request", id |-> id]]
              /\ answer' = [answer EXCEPT ![p] = "none"]
              /\ IF handler = None THEN UNCHANGED <<stack, requests>>
                 ELSE /\ free # {}
                      /\ requests' = [requests EXCEPT ![Min(free)] = "running"]
                      /\ stack' = [stack EXCEPT ![Min(free)] = <<Frame(msg, handler)>>]

\* Waiting: for the reply of the future, for the stored result, or until the deadline.
Waits(p) == asking[p].op = "request"
ReplyQueue(p) == <<"reply", asking[p].id>>
Return(p) ==
    /\ Waits(p)
    /\ \/ /\ ReplyQueue(p) \in DOMAIN pending /\ pending[ReplyQueue(p)] # None
          /\ answer' = [answer EXCEPT ![p] = pending[ReplyQueue(p)]]
       \/ /\ backend = "memory" /\ asking[p].id \in DOMAIN stored
          /\ answer' = [answer EXCEPT ![p] = stored[asking[p].id].status]
       \/ answer' = [answer EXCEPT ![p] = "raised"]
    /\ asking' = [asking EXCEPT ![p].op = "idle"]
    /\ pending' = [q \in DOMAIN pending \ {ReplyQueue(p)} |-> pending[q]]
    /\ UNCHANGED <<declVars, asked, mode, backend, stored, stack, requests, snapshot, ids, log, calls>>

-----------------------------------------------------------------------------
(* Processing *)

Top(c) == Last(stack[c])
SetTop(c, frame) == Append(Front(stack[c]), frame)
Cancelled(c) == c \in snapshot /\ mode = "leaving"
Processing(c) == stack[c] # <<>> /\ ~Cancelled(c)

\* The handler returns or raises.
Handle(c) ==
    /\ Processing(c) /\ Top(c).at = "handler"
    /\ \E ok \in IF subscribers[Top(c).sub].calls = "fake" THEN {TRUE} ELSE BOOLEAN :
          LET msg == Top(c).msg
              headers == parse_envelope(msg).headers
          IN  /\ log' = Append(log, [id |-> Id(msg), root |-> Or(Get(headers, "root_id"), Id(msg)),
                                     parent |-> Get(headers, "parent_id"), task |-> Task(msg),
                                     args |-> parse_envelope(msg).body, ok |-> ok,
                                     result |-> Result, sub |-> Top(c).sub, by |-> c])
              /\ stack' = [stack EXCEPT ![c] = SetTop(c,
                    [Top(c) EXCEPT !.at = "scope", !.raising = ~ok,
                                   !.agenda = IF ok THEN SuccessAgenda(msg, subscribers[Top(c).sub])
                                              ELSE FailureAgenda(msg, subscribers[Top(c).sub])])]
    /\ UNCHANGED <<declVars, asked, mode, backend, stored, pending, asking, answer, requests, snapshot,
                   ids, calls>>

\* The next effect: a stored result, or a publication inside this one.
Rest(c) == SetTop(c, [Top(c) EXCEPT !.agenda = Tail(@)])
Do(c) ==
    /\ Processing(c) /\ Top(c).agenda # <<>>
    /\ LET effect == Head(Top(c).agenda) IN
          \/ /\ Has(effect, "result")
             /\ stored' = Override(stored, [i \in {effect.result.task_id} |-> effect.result])
             /\ stack' = [stack EXCEPT ![c] = Rest(c)]
             /\ UNCHANGED <<pending, asking, answer, requests, ids>>
          \/ /\ Has(effect, "cmd")
             /\ IF effect.valid THEN Delivers(c, effect.cmd, Rest(c))
                ELSE Ends(c, "raised") /\ UNCHANGED <<pending, ids>>
             /\ UNCHANGED stored
    /\ UNCHANGED <<declVars, asked, mode, backend, snapshot, log, calls>>

\* process_message ends: its publisher goes on, or the exception goes up.
Leave(c) ==
    /\ Processing(c) /\ Top(c).at = "scope" /\ Top(c).agenda = <<>>
    /\ IF Top(c).raising THEN Ends(c, "raised")
       ELSE IF Len(stack[c]) = 1 THEN Ends(c, "ok")
       ELSE stack' = [stack EXCEPT ![c] = Front(@)] /\ UNCHANGED <<asking, answer, requests>>
    /\ UNCHANGED <<declVars, asked, mode, backend, stored, pending, snapshot, ids, log, calls>>

-----------------------------------------------------------------------------
(* Leaving *)

\* _create_ctx: every request task that has not ended is cancelled; the exception
\* reaches it at its await, and reports nothing.
Exit ==
    /\ mode = "testing" /\ \A p \in Callers : stack[p] = <<>>
    /\ mode' = "leaving"
    /\ snapshot' = {n \in Tasks : requests[n] = "running"}
    /\ UNCHANGED <<declVars, asked, backend, stored, pending, stack, asking, answer, requests, ids, log, calls>>

Unwind(n) ==
    /\ n \in snapshot /\ requests[n] = "running"
    /\ requests' = [requests EXCEPT ![n] = "cancelled"]
    /\ stack' = [stack EXCEPT ![n] = <<>>]
    /\ UNCHANGED <<declVars, asked, mode, backend, stored, pending, asking, answer, snapshot, ids, log, calls>>

\* gather() has waited for them; then the futures that have no reply are cancelled, and
\* their callers raise.
WaitsForNobody == TRUE
Gathered == \A n \in snapshot : requests[n] # "running"
Exited ==
    /\ mode = "leaving" /\ Gathered
    /\ mode' = "left"
    /\ pending' = [q \in {q \in DOMAIN pending : pending[q] # None} |-> pending[q]]
    /\ UNCHANGED <<declVars, asked, backend, stored, stack, asking, answer, requests, snapshot, ids, log, calls>>

-----------------------------------------------------------------------------
Proceeds(c) == Handle(c) \/ Do(c) \/ Leave(c)
Next ==
    \/ DeclareNext \/ Start \/ Enter \/ Exit \/ Exited
    \/ \E p \in Callers : CallPublish(p) \/ CallRequest(p) \/ Return(p)
    \/ \E c \in Callers \cup Tasks : Proceeds(c)
    \/ \E n \in Tasks : Unwind(n)

Spec == Init /\ [][Next]_vars

-----------------------------------------------------------------------------
(* Properties *)

\* "request() returns the same Celery result envelope in fake mode as with a real broker"
\* (README.md): it returns only an outcome reported for the id it was called with, after
\* the call, and otherwise raises -- by reply queue and by backend alike.
Outcome(e) == IF e.ok THEN "SUCCESS" ELSE "FAILURE"
Promise == INSTANCE ResultRequest WITH
    Terminal <- {"SUCCESS", "FAILURE"},
    asking   <- {p \in Callers : asking[p].op = "request"},
    finished <- [p \in Callers |-> {Outcome(e) : e \in {e \in Range(log) : e.id = asking[p].id}}],
    reply    <- [p \in Callers |-> IF answer[p] \in {"SUCCESS", "FAILURE"} THEN answer[p] ELSE "raised"]
ImplementsRequest == Promise!Spec

\* A requested handler, the first that its task ends, has answered when the task has run
\* to its end: in the backend, or to the caller that still waits -- a failure before the
\* chain's own failures and errbacks, a success once what follows it has worked.  Only a
\* policy that would retry, no_reply and ignore_result keep it silent.
Silent(e) == ~e.ok /\ ack_policy(subscribers[e.sub]) = "NACK_ON_ERROR"
Ignored(id) == Ignores(build_message(CommandOf(asked[id], "REQUEST", id), id, Now))
Answered(e) ==
    IF backend = "memory" THEN e.id \in DOMAIN stored
    ELSE \A p \in Callers :
            Waits(p) /\ asking[p].id = e.id /\ ~subscribers[e.sub].no_reply => pending[ReplyQueue(p)] # None
EndedMeansAnswered ==
    \A k \in DOMAIN log :
        LET e == log[k] IN
        /\ e.by \in Tasks /\ requests[e.by] \in {"ok", "raised"}
        /\ \A j \in 1..k - 1 : log[j].by # e.by
        /\ e.id \in DOMAIN asked /\ ~Ignored(e.id) /\ ~Silent(e)
        /\ backend = "memory" \/ requests[e.by] = "ok" \/ ~e.ok
        => Answered(e)

\* "Build the message a Celery consumer would have received" (testing.py): whatever is
\* published, the parser, the canvas, the scheduler and the reply see of the fake's
\* message what they would see of the one kombu delivers; telemetry and metrics describe
\* its two ends alike, unless a header given with it names a task of its own; and the
\* AsyncAPI document names the places that endpoints send to and are sent to.
Seen(msg) ==
    [envelope |-> parse_envelope(msg), embed |-> read_embed(msg), reply_to |-> msg.reply_to,
     schedule |-> extract_schedule(parse_envelope(msg).headers), id |-> msg.correlation_id]
NextEffects == {Head(Top(c).agenda) : c \in {c \in DOMAIN stack : stack[c] # <<>> /\ Top(c).agenda # <<>>}}
Commands ==
    {effect.cmd : effect \in {e \in NextEffects : Has(e, "cmd")}}
    \cup {CommandOf(order, type, ids + 1) :
             order \in {o \in Callable : mode = "testing" /\ calls < MaxCalls}, type \in {"PUBLISH", "REQUEST"}}
Documented ==
    /\ \A p \in Range(publishers) : Destination(DecoratedCommand(p, None, 0)) = PublisherChannel(p)
    /\ \A s \in Range(subscribers) :
          Destination(Command(None, "PUBLISH", SubscriberQueue(s), NoHeaders)) = SubscriberChannel(s)
FakeDeliversTheSame ==
    /\ \A cmd \in Commands :
        LET id   == Or(cmd.correlation_id, ids + 1)
            fake == build_message(cmd, id, Now)
        IN  /\ Seen(fake) = Seen(Sent(cmd, id, Now))
            /\ get_consume_destination_name(fake) = get_publish_destination_name(cmd)
            /\ cmd.correlation_id # None /\ IsTask(cmd.body) /\ "task" \notin DOMAIN cmd.headers =>
                  get_consume_attrs_from_message(fake) = get_publish_attrs_from_cmd(cmd)
            /\ cmd.routing_key = None => ConsumedFrom(fake) = PublishedTo(cmd)
    /\ Documented

\* "Assert inside the block: the mocks are reset on the way out", and "unfinished request
\* handlers are cancelled when the test broker exits" (README.md): once the test leaves,
\* no handler ends and no result is stored any more, and none runs when it has left.
NothingRunsAfterExit ==
    [][/\ mode \in {"leaving", "left"} => log' = log /\ stored' = stored
       /\ mode' = "left" => \A n \in Tasks : requests'[n] # "running"]_vars

\* "Subscribers sharing a queue use the widest requested window; zero takes precedence
\* over finite values"; without a prefetch count it is max_workers (README.md): whatever
\* the order of declarations and starts, no subscriber has fewer deliveries than it asked
\* for, or than workers.
WorkersAreFed ==
    \A i \in 1..Len(subscribers) :
        mode = "started" /\ i <= ids =>
            LET s == subscribers[i]
                window == windows[SubscriberQueue(s)]
            IN window = 0 \/ (s.prefetch_count # 0 /\ window >= s.prefetch_count)

\* "The result is recorded" (README.md): what is kept under the id of a task that ran is
\* the outcome of that task.
ResultIsItsTasks ==
    \A e \in Range(log) :
        e.task # None /\ e.id \in DOMAIN stored
        => stored[e.id] = IF e.ok THEN build_success(e.id, e.result) ELSE build_failure(e.id)
=============================================================================
