---------------------------- MODULE Declarations ----------------------------
(***************************************************************************)
(* How an application declares its endpoints: brokers and routers          *)
(* (broker/broker.py, broker/registrator.py, broker/router.py,             *)
(* configs/broker.py, fastapi/fastapi.py), what a subscriber or publisher  *)
(* resolves at its declaration and what later (the factories and configs   *)
(* of subscriber/ and publisher/), the commands of a publisher endpoint    *)
(* (publisher/usecase.py), and the connections and windows that a start    *)
(* asks for (security.py, subscriber/usecase.py, subscriber/consumer.py).  *)
(*                                                                         *)
(* A queue is a sequence, the prefixes before its name and then the name;  *)
(* EMPTY, "not given", is None.                                            *)
(***************************************************************************)
EXTENDS Envelope, FiniteSetsExt

CONSTANT Applications    \* what the run declares: options of the broker, and declarations

\* Counts are numbers or not given; an endpoint is declared on a registrator that exists.
Sequence(s) == s \in Seq(Range(s))
Counts(args) ==
    /\ {"max_workers", "prefetch_count"} \subseteq DOMAIN args
    /\ args.max_workers \in Nat \cup {None} /\ args.prefetch_count \in Nat \cup {None}
Decorators(endpoints) == Sequence(endpoints) /\ \A p \in Range(endpoints) : Chosen(p.headers)
Registrators(declarations) ==
    {"broker"} \cup {d.name : d \in {d \in Range(declarations) : d.op = "router"}}
Declarable(d, registrators) ==
    CASE d.op = "router" ->
            /\ Sequence(d.routes)
            /\ \A route \in Range(d.routes) :
                  Counts(route.subscriber) /\ Decorators(route.publishers)
      [] d.op = "subscriber" -> Counts(d) /\ Decorators(d.publishers) /\ d.on \in registrators \cup {"fastapi"}
      [] d.op = "publisher" -> Chosen(d.headers) /\ d.on \in registrators \cup {"fastapi"}
      [] d.op = "include" -> {d.on, d.router} \subseteq registrators
ASSUME ApplicationAssumption ==
    \A a \in Applications :
        /\ Counts(a) /\ a.max_workers # None
        /\ Sequence(a.declarations)
        /\ \A i \in DOMAIN a.declarations :
              Declarable(a.declarations[i], Registrators(SubSeq(a.declarations, 1, i - 1)))

VARIABLES
    app,          \* the application
    declared,     \* how many of its declarations have been executed
    configs,      \* of a registrator: its configs, outermost first (ConfigComposition)
    subscribers,  \* in the order of their declaration
    publishers,
    windows       \* of a queue: the prefetch window of its consumer, once started

declVars == <<app, declared, configs, subscribers, publishers, windows>>

(* Options *)

\* make_result_backend: rpc:// and no url leave results on the broker.
make_result_backend(scheme) ==
    CASE scheme \in {"none", "rpc"} -> "none"
      [] scheme \in {"redis", "rediss", "unix"} -> "redis"
Supports(scheme) == scheme \in {"none", "rpc", "redis", "rediss", "unix"}

\* parse_security: what kombu has a place for; anything else is refused, so that no
\* credentials are dropped.
UNSUPPORTED_MECHANISMS == {"scram256", "scram512", "gssapi", "oauth"}
Accepted(security) ==
    security # None => /\ security.mechanism \notin UNSUPPORTED_MECHANISMS
                       /\ ~security.ssl_context

\* CeleryBrokerConfig and CeleryRouterConfig; a router's has the class defaults.
BrokerConfig(options) ==
    [prefix |-> <<>>, ack_policy |-> options.ack_policy,
     max_workers |-> options.max_workers, prefetch_count |-> options.prefetch_count]
RouterConfig(prefix, ack_policy) ==
    [prefix |-> prefix, ack_policy |-> ack_policy, max_workers |-> 1, prefetch_count |-> None]

\* ConfigComposition: the outermost config answers, prefixes add up, and the innermost
\* acknowledgement policy that is set wins.
broker_config(chain) == Head(chain)
prefix(chain) == FlattenSeq([i \in DOMAIN chain |-> chain[i].prefix])
ack_policy_of(chain) ==
    LET given == {i \in DOMAIN chain : chain[i].ack_policy # None}
    IN IF given = {} THEN None ELSE chain[Max(given)].ack_policy

-----------------------------------------------------------------------------
(* Endpoints *)

\* create_subscriber: workers and prefetch count are settled here, from the config as it
\* is now; zero workers are no workers, a prefetch of zero is no limit.
PrefetchDefault(args, config, workers) ==
    Or(args.prefetch_count, Or(config.prefetch_count, workers))
Workers(args, config) ==
    IF args.max_workers \in {None, 0} THEN config.max_workers ELSE args.max_workers
create_subscriber(args, outer, config) ==
    LET workers == Workers(args, config)
    IN [outer |-> outer, queue |-> args.queue, task |-> args.task, workers |-> workers,
        prefetch_count |-> PrefetchDefault(args, config, workers),
        ack_policy |-> args.ack_policy, no_reply |-> args.no_reply,
        calls |-> args.calls, publishers |-> args.publishers]

\* Queue names and policies are read through the composition, whenever they are asked for.
SubscriberQueue(s) == prefix(configs[s.outer]) \o s.queue
ack_policy(s) == Or(s.ack_policy, Or(ack_policy_of(configs[s.outer]), "REJECT_ON_ERROR"))
PublisherQueue(p) == prefix(configs[p.outer]) \o p.queue

\* A subscriber with a task= accepts only messages of that task (task_filter).
Suits(s, task) == s.calls # None /\ (s.task # None => s.task = task)

create_publisher(args, outer) ==
    [outer |-> outer, queue |-> args.queue, exchange |-> args.exchange,
     routing_key |-> args.routing_key, headers |-> args.headers, reply_to |-> args.reply_to]

\* publish() of an endpoint: arguments first, then its own options.
EndpointPublish(p, order, id) ==
    Command(order.body, "PUBLISH", Or(order.queue, PublisherQueue(p)),
            [exchange |-> Or(order.exchange, p.exchange),
             routing_key |-> Or(order.routing_key, p.routing_key),
             headers |-> Override(p.headers, order.headers),
             correlation_id |-> id, reply_to |-> Or(order.reply_to, p.reply_to)])

\* request() leaves reply_to to the producer.
EndpointRequest(p, order, id) ==
    [EndpointPublish(p, order, id) EXCEPT !.type = "REQUEST", !.reply_to = None]

\* The same of a broker.
BrokerPublish(order, id) ==
    Command(order.body, "PUBLISH", order.queue,
            [exchange |-> order.exchange, routing_key |-> order.routing_key,
             headers |-> order.headers, correlation_id |-> id, reply_to |-> order.reply_to])
BrokerRequest(order, id) ==
    [BrokerPublish(order, id) EXCEPT !.type = "REQUEST", !.reply_to = None]

\* _publish of an endpoint that decorates a handler: what the handler returned, with the
\* correlation id of its message.
DecoratedCommand(p, body, id) ==
    Command(body, "PUBLISH", PublisherQueue(p),
            [exchange |-> p.exchange, routing_key |-> p.routing_key, headers |-> p.headers,
             correlation_id |-> id, reply_to |-> p.reply_to])

-----------------------------------------------------------------------------
(* Telemetry and the AsyncAPI document name the destinations *)

\* "default" is the label of the exchange "".
Label(exchange, routing_key) ==
    <<IF exchange = "" THEN <<"default">> ELSE exchange, routing_key>>
get_publish_destination_name(cmd) ==
    Label(Or(cmd.exchange, cmd.queue), Or(cmd.routing_key, cmd.queue))
get_consume_destination_name(delivery) == Label(delivery.exchange, delivery.routing_key)

\* What else the two ends of a message are described by: its conversation and its task.
get_publish_attrs_from_cmd(cmd) ==
    [conversation |-> cmd.correlation_id, task |-> IF IsTask(cmd.body) THEN cmd.body.task ELSE None]
get_consume_attrs_from_message(msg) ==
    [conversation |-> msg.correlation_id, task |-> Get(parse_envelope(msg).headers, "task")]

\* The metrics call both ends by a queue, which a consumer knows as the routing key.
PublishedTo(cmd) == cmd.queue
ConsumedFrom(delivery) == delivery.routing_key

\* build_topology, and the publisher's channel in the document.
build_topology(queue, exchange, routing_key) ==
    [exchange |-> Or(exchange, queue), routing_key |-> Or(routing_key, queue)]
PublisherChannel(p) == build_topology(PublisherQueue(p), p.exchange, p.routing_key)
SubscriberChannel(s) == build_topology(SubscriberQueue(s), None, None)

-----------------------------------------------------------------------------
(* Declarations *)

\* CeleryRouter of fastapi: its broker gets these options, and never a result backend.
FastAPIOptions(options) == [options EXCEPT !.result_backend = "none"]
Options == IF app.fastapi THEN FastAPIOptions(app) ELSE app

DeclInit ==
    /\ app \in Applications
    /\ Supports(Options.result_backend)
    /\ declared = 0
    /\ configs = [r \in {"broker"} |-> <<BrokerConfig(Options)>>]
    /\ subscribers = <<>> /\ publishers = <<>>
    /\ windows = NoHeaders

\* CeleryRoute: the publishers of its handler's results, after those of the routes before
\* it, then the subscriber, as the decorators of the router would have declared them.
CeleryPublisherArgs(route, name) ==
    [i \in DOMAIN route.publishers |-> create_publisher(route.publishers[i], name)]
RoutePublishers(d) == FlattenSeq([i \in DOMAIN d.routes |-> CeleryPublisherArgs(d.routes[i], d.name)])
CeleryRoute(route, name, config) ==
    [create_subscriber(route.subscriber, name, config)
        EXCEPT !.publishers = CeleryPublisherArgs(route, name)]

\* A router, with the routes it is given: what they settle at once comes from its own
\* config.
Router(d) ==
    LET config == RouterConfig(d.prefix, d.ack_policy)
    IN  /\ configs' = Override(configs, [r \in {d.name} |-> <<config>>])
        /\ publishers' = publishers \o RoutePublishers(d)
        /\ subscribers' = subscribers \o [i \in DOMAIN d.routes |-> CeleryRoute(d.routes[i], d.name, config)]

\* subscriber() and publisher() of a registrator.
Subscriber(d, on) ==
    /\ subscribers' = Append(subscribers, create_subscriber(d, on, broker_config(configs[on])))
    /\ UNCHANGED <<configs, publishers>>

Publisher(d, on) ==
    /\ publishers' = Append(publishers, create_publisher(d, on))
    /\ UNCHANGED <<configs, subscribers>>

\* Those of a FastAPI router are its broker's; its prefix is one of HTTP routes.
FastAPISubscriber(d) == Subscriber(d, "broker")
FastAPIPublisher(d) == Publisher(d, "broker")

\* include_router: the configs of the outer registrator, then the options of the
\* inclusion, go before those of the router.  (What the outer one is included in later
\* would be seen through it, too; no application here nests routers.)
include_router(d) ==
    /\ configs' = [configs EXCEPT ![d.router] =
                      configs[d.on] \o <<RouterConfig(d.prefix, None)>> \o @]
    /\ UNCHANGED <<subscribers, publishers>>

Declare ==
    /\ declared < Len(app.declarations) /\ declared' = declared + 1
    /\ LET d == app.declarations[declared'] IN
          \/ d.op = "router" /\ Router(d)
          \/ d.op = "subscriber" /\ d.on # "fastapi" /\ Subscriber(d, d.on)
          \/ d.op = "subscriber" /\ d.on = "fastapi" /\ FastAPISubscriber(d)
          \/ d.op = "publisher" /\ d.on # "fastapi" /\ Publisher(d, d.on)
          \/ d.op = "publisher" /\ d.on = "fastapi" /\ FastAPIPublisher(d)
          \/ d.op = "include" /\ include_router(d)
    /\ UNCHANGED <<app, windows>>

-----------------------------------------------------------------------------
(* A real start *)

\* acquire: the first subscriber of a queue sets the window, the others widen it; zero is
\* unlimited and stays.
LastOne(window, wanted) == wanted
Widened(window, wanted) == IF window = 0 \/ wanted = 0 THEN 0 ELSE Max({window, wanted})
Acquire(s) ==
    windows' = Override(windows,
        [q \in {SubscriberQueue(s)} |-> IF q \in DOMAIN windows
                                        THEN Widened(windows[q], s.prefetch_count)
                                        ELSE s.prefetch_count])

\* subscriber.start() of the next subscriber, over a connection of its own.
StartNext(started) ==
    /\ started < Len(subscribers)
    /\ Accepted(Options.security)
    /\ Acquire(subscribers[started + 1])
    /\ UNCHANGED <<app, declared, configs, subscribers, publishers>>
=============================================================================
