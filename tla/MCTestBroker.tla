---------------------------- MODULE MCTestBroker ----------------------------
(* Applications and orders for TestBroker. *)
EXTENDS TestBrokerOrder

CONSTANT Frozen1    \* the id of a frozen step

Q == <<"q">>
Out == <<"out">>
W == <<"w">>
RW == <<"r.", "w">>

Sub(on, queue, task, more) ==
    Override([op |-> "subscriber", on |-> on, queue |-> queue, task |-> task,
              max_workers |-> None, prefetch_count |-> None, ack_policy |-> None,
              no_reply |-> FALSE, calls |-> "handler", publishers |-> <<>>], more)
Pub(on, queue) ==
    [op |-> "publisher", on |-> on, queue |-> queue, exchange |-> None, routing_key |-> None,
     headers |-> NoHeaders, reply_to |-> None]
Rou(policy, routes) ==
    [op |-> "router", name |-> "r", prefix |-> <<"r.">>, ack_policy |-> policy, routes |-> routes]
Inc == [op |-> "include", on |-> "broker", router |-> "r", prefix |-> <<>>]
Broker(results, declarations) ==
    [fastapi |-> FALSE, result_backend |-> results, security |-> None, ack_policy |-> None,
     max_workers |-> 2, prefetch_count |-> None, declarations |-> declarations]

\* Two handlers share a queue, a router brings a third and a publisher.
Rpc == Broker("rpc", <<Sub("broker", Q, None, NoHeaders), Sub("broker", Q, "t", NoHeaders),
                       Rou("NACK_ON_ERROR", <<>>), Sub("r", W, "u", [max_workers |-> 3]),
                       Pub("r", W), Inc>>)
\* Everything on the router, which keeps results in a backend; a decorated handler.
Stored == Broker("redis", <<Rou(None, <<[subscriber |-> Sub("r", W, "u", NoHeaders),
                                           publishers |-> <<Pub("r", Out)>>]>>), Inc,
                            Sub("broker", Q, None, [prefetch_count |-> 3]),
                            Sub("broker", Q, "t", [no_reply |-> TRUE])>>)
\* Windows of one queue, declared on a FastAPI router: explicit, by workers, unlimited.
Windows == [Broker("none", <<Sub("fastapi", W, "t", [max_workers |-> 4]),
                             Sub("fastapi", W, "u", NoHeaders),
                             Sub("fastapi", W, None, [prefetch_count |-> 1]),
                             Sub("broker", RW, "t", [prefetch_count |-> 0]),
                             Sub("broker", RW, None, [max_workers |-> 3]),
                             Pub("fastapi", Out)>>) EXCEPT !.fastapi = TRUE]
\* kombu has no place for these credentials: nothing starts.
Refused == [Windows EXCEPT !.security = [mechanism |-> "scram512", ssl_context |-> FALSE]]
Apps == {Rpc, Stored, Windows, Refused}

Order(endpoint, queue, body) ==
    [endpoint |-> endpoint, body |-> body, queue |-> queue, exchange |-> None,
     routing_key |-> None, headers |-> NoHeaders, reply_to |-> None]
Opt(key, value) == [k \in {key} |-> value]

\* A callback on the router's queue with a callback of its own, a chain with a frozen
\* step, an errback.
Canvas ==
    Order(0, Q,
        [CeleryTask("t") EXCEPT
            !.args = <<1>>,
            !.link = <<signature("u", <<2>>, Override(Opt("queue", RW),
                          Opt("link", <<signature("v", <<>>, Opt("queue", Q), TRUE)>>)), FALSE)>>,
            !.chain = <<signature("t", <<>>, Opt("task_id", Frozen1), TRUE),
                        [CeleryTask("v") EXCEPT !.eta = [at |-> 7, aware |-> FALSE]]>>,
            !.link_error = <<signature("v", <<>>, NoHeaders, FALSE)>>])
Scheduled ==
    Order(1, None, [CeleryTask("u") EXCEPT !.countdown = 5, !.expires = [seconds |-> 9],
                    !.link = <<signature("v", <<>>, Opt("queue", <<"nobody">>), FALSE)>>])
Unsupported ==
    [Order(0, Q, [CeleryTask("t") EXCEPT
                     !.link = <<signature("v", <<>>, Opt("shadow", "x"), FALSE)>>])
        EXCEPT !.headers = Opt("ignore_result", TRUE)]
\* A task nobody handles, for an exchange and a routing key of its own.
Unrouted == [Order(0, Out, CeleryTask("t")) EXCEPT !.exchange = <<"x">>, !.routing_key = <<"k">>]
AllOrders == {Canvas, Scheduled, Unsupported, Unrouted}
AllSteps ==
    LET Nested(sig) == UNION {Range(as_signatures(Option(sig, steps))) :
                                  steps \in {"link", "link_error", "chain"}}
        Ordered == UNION {Nested(as_signature(order.body)) : order \in AllOrders}
    IN Ordered \cup UNION {Nested(sig) : sig \in Ordered}
CallerSymmetry == Permutations(Callers)
=============================================================================
