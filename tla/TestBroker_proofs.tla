-------------------------- MODULE TestBroker_proofs --------------------------
(***************************************************************************)
(* Theorems of TestBroker and of what it is built from: Envelope and       *)
(* Declarations.                                                           *)
(***************************************************************************)
EXTENDS TestBroker, SequenceFacts, FiniteSetTheorems

LEMMA MaxOfTwo == ASSUME NEW a \in Nat, NEW b \in Nat
    PROVE  Max({a, b}) \in {a, b} /\ Max({a, b}) >= a /\ Max({a, b}) >= b
<1>1. \E x \in {a, b} : \A y \in {a, b} : x >= y
  OBVIOUS
<1> QED BY <1>1 DEF Max

-----------------------------------------------------------------------------
(* Declarations: the windows of a real start *)

Decls == app.declarations

\* The configs of a registrator, as far as an endpoint settles something by them.
ConfigChain(chain) ==
    /\ Sequence(chain) /\ chain # <<>>
    /\ Head(chain).max_workers \in Nat /\ Head(chain).prefetch_count \in Nat \cup {None}

\* A subscriber that has started got the window it asked for.
Fed(s) ==
    /\ SubscriberQueue(s) \in DOMAIN windows
    /\ LET window == windows[SubscriberQueue(s)]
       IN window = 0 \/ (s.prefetch_count # 0 /\ window >= s.prefetch_count)

EndpointsOK ==
    /\ Sequence(subscribers) /\ \A s \in Range(subscribers) : Decorators(s.publishers)
    /\ Decorators(publishers)

\* No test has begun.
NotBegun ==
    /\ stored = NoHeaders /\ pending = NoHeaders
    /\ stack = [c \in Callers \cup Tasks |-> <<>>]
    /\ asking = [p \in Callers |-> [op |-> "idle", id |-> 0]]
    /\ asked = NoHeaders
    /\ answer = [p \in Callers |-> "none"]
    /\ requests = [n \in Tasks |-> "none"]
    /\ snapshot = {} /\ log = <<>> /\ calls = 0

\* Every registrator that a declaration may name has its configs, every subscriber of the
\* application its count, and every one that has started is fed.
DeclInv ==
    /\ app \in Applications /\ declared \in 0..Len(Decls)
    /\ mode \in {"declaring", "started", "testing", "leaving", "left"} /\ ids \in Nat
    /\ backend \in {"none", "memory"}
    /\ EndpointsOK
    /\ \A r \in Registrators(SubSeq(Decls, 1, declared)) : r \in DOMAIN configs /\ ConfigChain(configs[r])
    /\ mode \in {"declaring", "started"} => \A s \in Range(subscribers) : s.prefetch_count \in Nat
    /\ mode \in {"declaring", "started"} => NotBegun
    /\ mode = "declaring" => ids = 0 /\ windows = NoHeaders
    /\ \A q \in DOMAIN windows : windows[q] \in Nat
    /\ mode = "started" => \A i \in 1..Len(subscribers) : i <= ids => Fed(subscribers[i])

\* The counts that a subscriber settles at its declaration are numbers.
LEMMA SubscriberCounts ==
    ASSUME NEW args, NEW outer, NEW config, Counts(args), config.max_workers \in Nat,
           config.prefetch_count \in Nat \cup {None}
    PROVE  /\ create_subscriber(args, outer, config).prefetch_count \in Nat
           /\ create_subscriber(args, outer, config).publishers = args.publishers
<1>1. Workers(args, config) \in Nat
  BY DEF Workers, Counts
<1>2. PrefetchDefault(args, config, Workers(args, config)) \in Nat
  BY <1>1 DEF PrefetchDefault, Or, Counts
<1>3. create_subscriber(args, outer, config).prefetch_count = PrefetchDefault(args, config, Workers(args, config))
  BY DEF create_subscriber
<1>4. create_subscriber(args, outer, config).publishers = args.publishers
  BY DEF create_subscriber
<1> QED BY <1>2, <1>3, <1>4

\* What is declared, a sequence of endpoints with its publishers, stays one.
LEMMA PublisherHeaders ==
    ASSUME NEW args, NEW outer, Chosen(args.headers)
    PROVE  Chosen(create_publisher(args, outer).headers)
BY DEF create_publisher

LEMMA RouteDecorators ==
    ASSUME NEW route, NEW name, Decorators(route.publishers)
    PROVE  Decorators(CeleryPublisherArgs(route, name))
<1> DEFINE s == route.publishers
           t == CeleryPublisherArgs(route, name)
<1>1. s \in Seq(Range(s)) /\ \A p \in Range(s) : Chosen(p.headers)
  BY DEF Decorators, Sequence
<1> DEFINE S == {create_publisher(p, name) : p \in Range(s)}
<1>2. t \in Seq(S)
  <2>1. DOMAIN s = 1..Len(s) /\ Len(s) \in Nat
    BY <1>1
  <2>2. t = [i \in 1..Len(s) |-> create_publisher(s[i], name)]
    BY <2>1 DEF CeleryPublisherArgs
  <2>3. \A i \in 1..Len(s) : create_publisher(s[i], name) \in S
    BY <1>1, HeldIn
  <2> HIDE DEF S, t
  <2> QED BY <2>1, <2>2, <2>3
<1>3. t \in Seq(Range(t)) /\ Range(t) \subseteq S
  <2> HIDE DEF S, t
  <2> QED BY <1>2, RangeOf
<1>4. \A p \in S : Chosen(p.headers)
  BY <1>1, PublisherHeaders
<1> HIDE DEF S, t
<1> QED BY <1>3, <1>4 DEF Decorators, Sequence, t

\* The declaration whose turn it is, and the registrators before and after it.
Turn == Decls[declared + 1]
Known == Registrators(SubSeq(Decls, 1, declared))

LEMMA TurnIsDeclarable ==
    ASSUME app \in Applications, declared \in 0..Len(Decls), declared < Len(Decls)
    PROVE  /\ declared + 1 \in 0..Len(Decls) /\ Declarable(Turn, Known) /\ "broker" \in Known
           /\ Registrators(SubSeq(Decls, 1, declared + 1)) =
                Known \cup {d.name : d \in {d \in {Turn} : d.op = "router"}}
<1>1. Sequence(Decls) /\ \A i \in DOMAIN Decls :
          Declarable(Decls[i], Registrators(SubSeq(Decls, 1, i - 1)))
  BY ApplicationAssumption DEF Decls
<1>2. Decls \in Seq(Range(Decls)) /\ Len(Decls) \in Nat /\ DOMAIN Decls = 1..Len(Decls)
  BY <1>1 DEF Sequence
<1>3. declared \in Nat /\ declared + 1 \in 0..Len(Decls) /\ declared + 1 \in DOMAIN Decls
      /\ (declared + 1) - 1 = declared
  BY <1>2
<1>4. Declarable(Turn, Known)
  <2>1. Declarable(Decls[declared + 1], Registrators(SubSeq(Decls, 1, (declared + 1) - 1)))
    BY <1>1, <1>3
  <2> QED BY <1>3, <2>1 DEF Turn, Known
<1>5. Range(SubSeq(Decls, 1, declared + 1)) = Range(SubSeq(Decls, 1, declared)) \cup {Turn}
  <2> DEFINE t == SubSeq(Decls, 1, declared)
             u == SubSeq(Decls, 1, declared + 1)
  <2>1. \A i \in 1..declared : Decls[i] \in Range(Decls)
    BY <1>2, <1>3, HeldIn
  <2>2. t \in Seq(Range(Decls)) /\ Len(t) = declared /\ \A i \in 1..declared : t[i] = Decls[i]
    BY <1>2, <1>3
  <2>3. u \in Seq(Range(Decls)) /\ Len(u) = declared + 1 /\ \A i \in 1..declared + 1 : u[i] = Decls[i]
    BY <1>2, <1>3
  <2> HIDE DEF t, u
  <2>4. /\ t \in Seq(Range(t)) /\ u \in Seq(Range(u))
        /\ \A x \in Range(t) : \E i \in 1..Len(t) : x = t[i]
        /\ \A x \in Range(u) : \E i \in 1..Len(u) : x = u[i]
    BY <2>2, <2>3, RangeOf
  <2>5. ASSUME NEW x \in Range(t) PROVE x \in Range(u)
    <3>1. PICK i \in 1..Len(t) : x = t[i]
      BY <2>4
    <3>2. i \in 1..Len(u) /\ x = u[i]
      BY <1>3, <2>2, <2>3, <3>1
    <3> QED BY <2>4, <3>2, HeldIn
  <2>6. Turn \in Range(u)
    <3>1. declared + 1 \in 1..Len(u) /\ u[declared + 1] = Turn
      BY <1>3, <2>3 DEF Turn
    <3> QED BY <2>4, <3>1, HeldIn
  <2>7. ASSUME NEW x \in Range(u), x # Turn PROVE x \in Range(t)
    <3>1. PICK i \in 1..Len(u) : x = u[i]
      BY <2>4
    <3>2. i \in 1..Len(t) /\ x = t[i]
      BY <1>3, <2>2, <2>3, <2>7, <3>1 DEF Turn
    <3> QED BY <2>4, <3>2, HeldIn
  <2> QED BY <2>5, <2>6, <2>7 DEF t, u
<1> QED BY <1>3, <1>4, <1>5 DEF Registrators, Known

\* One declaration: what it adds to the endpoints, and to the configs.
LEMMA AddSubscriber ==
    ASSUME Sequence(subscribers), NEW s, subscribers' = Append(subscribers, s)
    PROVE  Sequence(subscribers') /\ Range(subscribers') = Range(subscribers) \cup {s}
BY HeldByMore DEF Sequence

LEMMA SubscriberTurn ==
    ASSUME DeclInv, NEW d, NEW on \in Known, Subscriber(d, on), Counts(d), Decorators(d.publishers)
    PROVE  /\ EndpointsOK' /\ UNCHANGED <<configs, publishers>>
           /\ (\A s \in Range(subscribers) : s.prefetch_count \in Nat)
              => \A s \in Range(subscribers') : s.prefetch_count \in Nat
<1> DEFINE s == create_subscriber(d, on, broker_config(configs[on]))
<1>1. subscribers' = Append(subscribers, s) /\ UNCHANGED <<configs, publishers>>
  BY DEF Subscriber
<1>2. ConfigChain(configs[on])
  BY DEF DeclInv, Known
<1>3. s.prefetch_count \in Nat /\ s.publishers = d.publishers
  <2>1. broker_config(configs[on]).max_workers \in Nat /\ broker_config(configs[on]).prefetch_count \in Nat \cup {None}
    BY <1>2 DEF ConfigChain, broker_config
  <2> QED BY <2>1, SubscriberCounts
<1> HIDE DEF s
<1>4. Sequence(subscribers') /\ Range(subscribers') = Range(subscribers) \cup {s}
  BY <1>1, AddSubscriber DEF DeclInv, EndpointsOK
<1>5. EndpointsOK'
  BY <1>1, <1>3, <1>4 DEF DeclInv, EndpointsOK
<1> QED BY <1>1, <1>3, <1>4, <1>5

LEMMA PublisherTurn ==
    ASSUME DeclInv, NEW d, NEW on, Publisher(d, on), Chosen(d.headers)
    PROVE  EndpointsOK' /\ UNCHANGED <<configs, subscribers>>
<1> DEFINE p == create_publisher(d, on)
<1>1. publishers' = Append(publishers, p) /\ UNCHANGED <<configs, subscribers>>
  BY DEF Publisher
<1>2. Chosen(p.headers)
  BY PublisherHeaders
<1> HIDE DEF p
<1>3. Sequence(publishers') /\ Range(publishers') = Range(publishers) \cup {p}
  BY <1>1, HeldByMore DEF DeclInv, EndpointsOK, Decorators, Sequence
<1> QED BY <1>1, <1>2, <1>3 DEF DeclInv, EndpointsOK, Decorators

LEMMA RouterTurn ==
    ASSUME DeclInv, NEW d, Router(d), Sequence(d.routes),
           \A route \in Range(d.routes) : Counts(route.subscriber) /\ Decorators(route.publishers)
    PROVE  /\ EndpointsOK'
           /\ (\A s \in Range(subscribers) : s.prefetch_count \in Nat)
              => \A s \in Range(subscribers') : s.prefetch_count \in Nat
           /\ configs' = Override(configs, [r \in {d.name} |-> <<RouterConfig(d.prefix, d.ack_policy)>>])
           /\ ConfigChain(<<RouterConfig(d.prefix, d.ack_policy)>>)
<1> DEFINE config == RouterConfig(d.prefix, d.ack_policy)
           n == Len(d.routes)
           more == [i \in DOMAIN d.routes |-> CeleryRoute(d.routes[i], d.name, config)]
           S == {CeleryRoute(route, d.name, config) : route \in Range(d.routes)}
           parts == [i \in DOMAIN d.routes |-> CeleryPublisherArgs(d.routes[i], d.name)]
           P == {CeleryPublisherArgs(route, d.name) : route \in Range(d.routes)}
<1>1. /\ configs' = Override(configs, [r \in {d.name} |-> <<config>>])
      /\ publishers' = publishers \o RoutePublishers(d)
      /\ subscribers' = subscribers \o more
  BY DEF Router
<1>2. config.max_workers \in Nat /\ config.prefetch_count \in Nat \cup {None}
  BY DEF RouterConfig
<1>3. DOMAIN d.routes = 1..n /\ n \in Nat /\ \A i \in 1..n : d.routes[i] \in Range(d.routes)
  BY HeldIn DEF Sequence
<1>4. ASSUME NEW s \in S PROVE s.prefetch_count \in Nat /\ Decorators(s.publishers)
  <2>1. PICK route \in Range(d.routes) : s = CeleryRoute(route, d.name, config)
    OBVIOUS
  <2> DEFINE t == create_subscriber(route.subscriber, d.name, config)
  <2>2. s = [t EXCEPT !.publishers = CeleryPublisherArgs(route, d.name)]
    BY <2>1 DEF CeleryRoute
  <2>3. DOMAIN t = {"outer", "queue", "task", "workers", "prefetch_count", "ack_policy", "no_reply",
                    "calls", "publishers"}
    BY DEF create_subscriber
  <2>4. t.prefetch_count \in Nat
    <3> HIDE DEF t, config
    <3> QED BY <1>2, SubscriberCounts DEF t
  <2> HIDE DEF t, config
  <2>5. s.prefetch_count = t.prefetch_count /\ s.publishers = CeleryPublisherArgs(route, d.name)
    BY <2>2, <2>3
  <2> QED BY <2>4, <2>5, RouteDecorators
<1>5. more \in Seq(Range(more)) /\ Range(more) \subseteq S
  <2>1. more \in Seq(S)
    <3>1. \A i \in 1..n : CeleryRoute(d.routes[i], d.name, config) \in S
      BY <1>3
    <3>2. more = [i \in 1..n |-> CeleryRoute(d.routes[i], d.name, config)]
      BY <1>3
    <3> HIDE DEF S, config, more, n
    <3> QED BY <1>3, <3>1, <3>2
  <2> HIDE DEF more, S
  <2> QED BY <2>1, RangeOf
<1>6. RoutePublishers(d) \in Seq(Range(RoutePublishers(d)))
      /\ \A p \in Range(RoutePublishers(d)) : Chosen(p.headers)
  <2>1. parts \in Seq(P)
    <3>1. \A i \in 1..n : CeleryPublisherArgs(d.routes[i], d.name) \in P
      BY <1>3
    <3>2. parts = [i \in 1..n |-> CeleryPublisherArgs(d.routes[i], d.name)]
      BY <1>3
    <3> HIDE DEF P, parts, n
    <3> QED BY <1>3, <3>1, <3>2
  <2>2. parts \in Seq(Range(parts)) /\ Range(parts) \subseteq P
    <3> HIDE DEF parts, P
    <3> QED BY <2>1, RangeOf
  <2>3. \A s \in P : Decorators(s)
    BY RouteDecorators
  <2>4. RoutePublishers(d) = FlattenSeq(parts)
    BY DEF RoutePublishers
  <2> HIDE DEF parts, P
  <2>5. \A s \in Range(parts) : s \in Seq(Range(s))
    BY <2>2, <2>3 DEF Decorators, Sequence
  <2>6. /\ FlattenSeq(parts) \in Seq(Range(FlattenSeq(parts)))
        /\ \A x \in Range(FlattenSeq(parts)) : \E s \in Range(parts) : x \in Range(s)
    BY <2>2, <2>5, HeldByParts
  <2> QED BY <2>2, <2>3, <2>4, <2>6 DEF Decorators
<1> HIDE DEF more, S
<1>7. /\ subscribers' \in Seq(Range(subscribers')) /\ Range(subscribers') = Range(subscribers) \cup Range(more)
      /\ publishers' \in Seq(Range(publishers'))
      /\ Range(publishers') = Range(publishers) \cup Range(RoutePublishers(d))
  BY <1>1, <1>5, <1>6, HeldByBoth DEF DeclInv, EndpointsOK, Decorators, Sequence
<1>8. EndpointsOK'
  BY <1>4, <1>5, <1>6, <1>7 DEF DeclInv, EndpointsOK, Decorators, Sequence
<1>9. ConfigChain(<<config>>)
  <2>1. <<config>> \in Seq(Range(<<config>>)) /\ <<config>> # <<>> /\ Head(<<config>>) = config
    <3> HIDE DEF config
    <3> QED BY HeldByOne
  <2> HIDE DEF config
  <2> QED BY <1>2, <2>1 DEF ConfigChain, Sequence
<1> QED BY <1>1, <1>4, <1>5, <1>7, <1>8, <1>9

LEMMA IncludeTurn ==
    ASSUME DeclInv, NEW d, include_router(d), {d.on, d.router} \subseteq Known
    PROVE  /\ UNCHANGED <<subscribers, publishers>> /\ DOMAIN configs' = DOMAIN configs
           /\ \A r \in Known : ConfigChain(configs'[r])
<1> DEFINE mid == <<RouterConfig(d.prefix, None)>>
           chain == configs[d.on] \o mid \o configs[d.router]
<1>1. configs' = [configs EXCEPT ![d.router] = chain] /\ UNCHANGED <<subscribers, publishers>>
  BY DEF include_router
<1>2. /\ ConfigChain(configs[d.on]) /\ ConfigChain(configs[d.router]) /\ d.router \in DOMAIN configs
      /\ \A r \in Known : ConfigChain(configs[r])
  BY DEF DeclInv, Known
<1>3. ConfigChain(chain)
  <2> DEFINE a == configs[d.on]
             b == configs[d.router]
  <2>1. a \in Seq(Range(a)) /\ b \in Seq(Range(b)) /\ a # <<>>
    BY <1>2 DEF ConfigChain, Sequence
  <2>2. mid \in Seq(Range(mid))
    BY HeldByOne
  <2> HIDE DEF mid, a, b
  <2>3. a \o mid \in Seq(Range(a \o mid))
    BY <2>1, <2>2, HeldByBoth
  <2>4. (a \o mid) \o b \in Seq(Range((a \o mid) \o b))
    BY <2>1, <2>3, HeldByBoth
  <2>5. a \in Seq(Range(a) \cup Range(mid) \cup Range(b)) /\ mid \in Seq(Range(a) \cup Range(mid) \cup Range(b))
        /\ b \in Seq(Range(a) \cup Range(mid) \cup Range(b))
    BY <2>1, <2>2, SeqOfMore
  <2>6. (a \o mid) \o b # <<>> /\ Head((a \o mid) \o b) = Head(a)
    BY <2>1, <2>5
  <2>7. ConfigChain(a) /\ chain = (a \o mid) \o b
    BY <1>2 DEF a, b
  <2> QED BY <2>4, <2>6, <2>7 DEF ConfigChain, Sequence
<1> HIDE DEF chain
<1> QED BY <1>1, <1>2, <1>3

\* After its turn, a declaration has added what it declares.
LEMMA DeclareStep ==
    ASSUME DeclInv, mode \in {"declaring", "started"}, Declare
    PROVE  /\ declared' \in 0..Len(Decls) /\ app' = app /\ windows' = windows /\ EndpointsOK'
           /\ \A r \in Registrators(SubSeq(Decls, 1, declared')) : r \in DOMAIN configs' /\ ConfigChain(configs'[r])
           /\ \A s \in Range(subscribers') : s.prefetch_count \in Nat
<1> DEFINE d == Turn
           After == Registrators(SubSeq(Decls, 1, declared'))
<1>1. /\ declared < Len(Decls) /\ declared' = declared + 1 /\ app' = app /\ windows' = windows
      /\ \/ d.op = "router" /\ Router(d)
         \/ d.op = "subscriber" /\ d.on # "fastapi" /\ Subscriber(d, d.on)
         \/ d.op = "subscriber" /\ d.on = "fastapi" /\ FastAPISubscriber(d)
         \/ d.op = "publisher" /\ d.on # "fastapi" /\ Publisher(d, d.on)
         \/ d.op = "publisher" /\ d.on = "fastapi" /\ FastAPIPublisher(d)
         \/ d.op = "include" /\ include_router(d)
  BY DEF Declare, Turn, Decls
<1>2. /\ declared' \in 0..Len(Decls) /\ Declarable(d, Known) /\ "broker" \in Known
      /\ After = Known \cup {x.name : x \in {x \in {d} : x.op = "router"}}
  BY <1>1, TurnIsDeclarable DEF DeclInv
<1>3. d.op # "router" => After = Known
  BY <1>2
<1>4. /\ \A r \in Known : r \in DOMAIN configs /\ ConfigChain(configs[r])
      /\ \A s \in Range(subscribers) : s.prefetch_count \in Nat
      /\ EndpointsOK
  BY DEF DeclInv, Known
<1> HIDE DEF After
<1> SUFFICES /\ EndpointsOK'
             /\ \A r \in After : r \in DOMAIN configs' /\ ConfigChain(configs'[r])
             /\ \A s \in Range(subscribers') : s.prefetch_count \in Nat
  BY <1>1, <1>2 DEF After
<1>5. CASE d.op = "router" /\ Router(d)
  <2> DEFINE chain == <<RouterConfig(d.prefix, d.ack_policy)>>
  <2>1. Sequence(d.routes) /\ \A route \in Range(d.routes) :
            Counts(route.subscriber) /\ Decorators(route.publishers)
    BY <1>2, <1>5 DEF Declarable
  <2>2. /\ EndpointsOK' /\ \A s \in Range(subscribers') : s.prefetch_count \in Nat
        /\ configs' = Override(configs, [r \in {d.name} |-> chain])
        /\ ConfigChain(chain)
    BY <1>4, <1>5, <2>1, RouterTurn
  <2>3. After = Known \cup {d.name}
    BY <1>2, <1>5
  <2> HIDE DEF chain
  <2>4. /\ DOMAIN configs' = DOMAIN configs \cup {d.name} /\ configs'[d.name] = chain
        /\ \A r \in DOMAIN configs \ {d.name} : configs'[r] = configs[r]
    BY <2>2 DEF Override
  <2> QED BY <1>4, <2>2, <2>3, <2>4
<1>6. CASE d.op = "subscriber" /\ \E on \in Known : Subscriber(d, on)
  <2>1. Counts(d) /\ Decorators(d.publishers)
    BY <1>2, <1>6 DEF Declarable
  <2>2. PICK on \in Known : Subscriber(d, on)
    BY <1>6
  <2>3. EndpointsOK' /\ UNCHANGED <<configs, publishers>> /\ \A s \in Range(subscribers') : s.prefetch_count \in Nat
    BY <1>4, <2>1, <2>2, SubscriberTurn
  <2> QED BY <1>3, <1>4, <1>6, <2>3
<1>7. CASE d.op = "publisher" /\ \E on : Publisher(d, on)
  <2>1. Chosen(d.headers)
    BY <1>2, <1>7 DEF Declarable
  <2>2. EndpointsOK' /\ UNCHANGED <<configs, subscribers>>
    BY <1>7, <2>1, PublisherTurn
  <2> QED BY <1>3, <1>4, <1>7, <2>2
<1>8. CASE d.op = "include" /\ include_router(d)
  <2>1. {d.on, d.router} \subseteq Known
    BY <1>2, <1>8 DEF Declarable
  <2>2. /\ UNCHANGED <<subscribers, publishers>> /\ DOMAIN configs' = DOMAIN configs
        /\ \A r \in Known : ConfigChain(configs'[r])
    BY <1>8, <2>1, IncludeTurn
  <2>3. EndpointsOK'
    BY <1>4, <2>2 DEF EndpointsOK
  <2> QED BY <1>3, <1>4, <1>8, <2>2, <2>3
<1>9. d.op = "subscriber" /\ d.on # "fastapi" => d.on \in Known
  BY <1>2 DEF Declarable
<1> QED BY <1>1, <1>2, <1>5, <1>6, <1>7, <1>8, <1>9 DEF FastAPISubscriber, FastAPIPublisher

\* A start widens the window of its queue for the next subscriber, and for nobody else.
LEMMA StartStep ==
    ASSUME DeclInv, Start
    PROVE  /\ UNCHANGED <<app, declared, configs, subscribers, publishers>>
           /\ mode' = "started" /\ ids' = ids + 1 /\ backend' = backend
           /\ \A q \in DOMAIN windows' : windows'[q] \in Nat
           /\ (\A i \in 1..Len(subscribers) : i <= ids => Fed(subscribers[i]))'
<1> DEFINE s == subscribers[ids + 1]
           q == SubscriberQueue(s)
           wanted == s.prefetch_count
           window == IF q \in DOMAIN windows THEN Widened(windows[q], wanted) ELSE wanted
<1>1. /\ mode \in {"declaring", "started"} /\ ids < Len(subscribers)
      /\ UNCHANGED <<app, declared, configs, subscribers, publishers>>
      /\ mode' = "started" /\ ids' = ids + 1 /\ backend' = backend
      /\ windows' = Override(windows, [r \in {q} |-> window])
  BY DEF Start, Declared, StartNext, Acquire
<1>2. subscribers \in Seq(Range(subscribers)) /\ ids \in Nat /\ ids + 1 \in 1..Len(subscribers)
  BY <1>1 DEF DeclInv, EndpointsOK, Sequence
<1>3. s \in Range(subscribers) /\ wanted \in Nat
  BY <1>1, <1>2, HeldIn DEF DeclInv
<1>4. /\ window \in Nat
      /\ window = 0 \/ (wanted # 0 /\ window >= wanted)
      /\ q \in DOMAIN windows => window = 0 \/ (windows[q] # 0 /\ window >= windows[q])
  <2>1. q \in DOMAIN windows => windows[q] \in Nat
    BY DEF DeclInv
  <2>2. CASE q \notin DOMAIN windows
    BY <1>3, <2>2
  <2>3. CASE q \in DOMAIN windows /\ (windows[q] = 0 \/ wanted = 0)
    BY <2>3 DEF Widened
  <2>4. CASE q \in DOMAIN windows /\ ~(windows[q] = 0 \/ wanted = 0)
    <3>1. window = Max({windows[q], wanted})
      BY <2>4 DEF Widened
    <3>2. Max({windows[q], wanted}) \in {windows[q], wanted} /\ Max({windows[q], wanted}) >= windows[q]
          /\ Max({windows[q], wanted}) >= wanted
      BY <1>3, <2>1, <2>4, MaxOfTwo
    <3> QED BY <1>3, <2>1, <2>4, <3>1, <3>2
  <2> QED BY <2>2, <2>3, <2>4
<1> HIDE DEF window
<1>5. /\ DOMAIN windows' = DOMAIN windows \cup {q} /\ windows'[q] = window
      /\ \A r \in DOMAIN windows \ {q} : windows'[r] = windows[r]
  BY <1>1 DEF Override
<1>6. \A r \in DOMAIN windows' : windows'[r] \in Nat
  BY <1>4, <1>5 DEF DeclInv
<1>7. ASSUME NEW i \in 1..Len(subscribers), i <= ids + 1 PROVE (Fed(subscribers[i]))'
  <2> DEFINE t == subscribers[i]
  <2>1. SubscriberQueue(t)' = SubscriberQueue(t) /\ t' = t
    BY <1>1 DEF SubscriberQueue
  <2>2. CASE i = ids + 1
    BY <1>1, <1>4, <1>5, <2>1, <2>2 DEF Fed
  <2>3. CASE i # ids + 1
    <3>1. i <= ids /\ ids # 0
      BY <1>2, <1>7, <2>3
    <3>2. mode = "started" /\ Fed(t)
      BY <1>1, <3>1 DEF DeclInv
    <3>3. t \in Range(subscribers) /\ t.prefetch_count \in Nat
      BY <1>1, <1>2, HeldIn DEF DeclInv
    <3>4. SubscriberQueue(t) \in DOMAIN windows /\ windows[SubscriberQueue(t)] \in Nat
      BY <3>2 DEF Fed, DeclInv
    <3>5. CASE SubscriberQueue(t) = q
      BY <1>4, <1>5, <2>1, <3>2, <3>3, <3>4, <3>5 DEF Fed
    <3>6. CASE SubscriberQueue(t) # q
      BY <1>5, <2>1, <3>2, <3>4, <3>6 DEF Fed
    <3> QED BY <3>5, <3>6
  <2> QED BY <2>2, <2>3
<1>8. (\A i \in 1..Len(subscribers) : i <= ids => Fed(subscribers[i]))'
  BY <1>1, <1>7
<1> QED BY <1>1, <1>6, <1>8

\* The test broker's own subscribers: sequences stay sequences.
LEMMA EnterStep ==
    ASSUME DeclInv, Enter
    PROVE  /\ UNCHANGED <<app, declared, configs, publishers, windows, ids>> /\ mode' = "testing"
           /\ EndpointsOK' /\ backend' \in {"none", "memory"}
<1> DEFINE n == Cardinality(Unhandled)
           nth(k) == CHOOSE i \in Unhandled : Cardinality({j \in Unhandled : j <= i}) = k
           fake(k) == FakeSubscriber(PublisherQueue(publishers[nth(k)]))
           fakes == [k \in 1..n |-> fake(k)]
<1>1. UNCHANGED <<app, declared, configs, publishers, windows, ids>> /\ mode' = "testing"
      /\ subscribers' = subscribers \o fakes /\ backend' \in {"none", "memory"}
  BY DEF Enter, WithFakes, change_result_backend
<1>2. n \in Nat
  <2>1. DOMAIN publishers = 1..Len(publishers) /\ Len(publishers) \in Nat
    BY DEF DeclInv, EndpointsOK, Decorators, Sequence
  <2>2. IsFiniteSet(1..Len(publishers))
    BY <2>1, FS_Interval
  <2>3. Unhandled \subseteq 1..Len(publishers)
    BY <2>1 DEF Unhandled
  <2> QED BY <2>2, <2>3, FS_Subset, FS_CardinalityType
<1>3. \A queue : FakeSubscriber(queue).publishers = <<>>
  BY DEF FakeSubscriber, create_subscriber
<1> DEFINE S == {x \in Range(fakes) : TRUE}
<1>4. fakes \in Seq(Range(fakes)) /\ \A s \in Range(fakes) : s.publishers = <<>>
  <2>1. DOMAIN fakes = 1..n /\ \A k \in 1..n : fakes[k].publishers = <<>>
    BY <1>3
  <2>2. \A k \in 1..n : fakes[k] \in Range(fakes)
    BY <2>1 DEF Range
  <2>3. fakes = [k \in 1..n |-> fakes[k]]
    OBVIOUS
  <2>4. fakes \in [1..n -> Range(fakes)]
    <3> HIDE DEF fakes, n
    <3> QED BY <2>2, <2>3
  <2>5. fakes \in Seq(Range(fakes))
    <3> HIDE DEF fakes, n
    <3> QED BY <1>2, <2>4, SeqDef
  <2> HIDE DEF fakes
  <2> QED BY <2>1, <2>5 DEF Range
<1> HIDE DEF fakes
<1>5. subscribers' \in Seq(Range(subscribers')) /\ Range(subscribers') = Range(subscribers) \cup Range(fakes)
  BY <1>1, <1>4, HeldByBoth DEF DeclInv, EndpointsOK, Sequence
<1>6. Decorators(<<>>)
  BY HeldByNone DEF Decorators, Sequence
<1>7. EndpointsOK'
  BY <1>1, <1>4, <1>5, <1>6 DEF DeclInv, EndpointsOK, Sequence
<1> QED BY <1>1, <1>7

\* Within the test nothing is declared or started any more.
InTest == mode \in {"testing", "leaving", "left"}
TestStep ==
    \/ Exit \/ Exited
    \/ \E p \in Callers : CallPublish(p) \/ CallRequest(p) \/ Return(p)
    \/ \E c \in Callers \cup Tasks : Proceeds(c)
    \/ \E n \in Tasks : Unwind(n)

LEMMA InTestStays ==
    ASSUME DeclInv, TestStep
    PROVE  InTest /\ InTest' /\ UNCHANGED declVars /\ ids' \in {ids, ids + 1} /\ backend' = backend
<1>1. CASE InTest
  <2> USE <1>1 DEF InTest
  <2>1. CASE Exit
    BY <2>1 DEF Exit
  <2>2. CASE Exited
    BY <2>2 DEF Exited
  <2>3. ASSUME NEW p \in Callers, CallPublish(p) \/ CallRequest(p) \/ Return(p)
        PROVE  InTest' /\ UNCHANGED declVars /\ ids' \in {ids, ids + 1} /\ backend' = backend
    BY <2>3 DEF CallPublish, CallRequest, Return, Calling
  <2>4. ASSUME NEW c \in Callers \cup Tasks, Proceeds(c)
        PROVE  InTest' /\ UNCHANGED declVars /\ ids' \in {ids, ids + 1} /\ backend' = backend
    <3>1. CASE Handle(c)
      BY <3>1 DEF Handle
    <3>2. CASE Do(c)
      <4>1. UNCHANGED <<declVars, mode, backend>>
        BY <3>2 DEF Do
      <4>2. ids' \in {ids, ids + 1}
        BY <3>2 DEF Do, Delivers
      <4> QED BY <4>1, <4>2
    <3>3. CASE Leave(c)
      BY <3>3 DEF Leave
    <3> QED BY <2>4, <3>1, <3>2, <3>3 DEF Proceeds
  <2>5. ASSUME NEW n \in Tasks, Unwind(n)
        PROVE  InTest' /\ UNCHANGED declVars /\ ids' \in {ids, ids + 1} /\ backend' = backend
    BY <2>5 DEF Unwind
  <2> QED BY <2>1, <2>2, <2>3, <2>4, <2>5 DEF TestStep
<1>2. CASE ~InTest
  <2>1. NotBegun /\ mode \notin {"testing", "leaving", "left"}
    BY <1>2 DEF DeclInv, InTest
  <2>2. \A c \in Callers \cup Tasks : stack[c] = <<>>
    BY <2>1 DEF NotBegun
  <2>3. \A p \in Callers : asking[p].op = "idle"
    BY <2>1 DEF NotBegun
  <2>4. ~Exit /\ ~Exited /\ \A p \in Callers : ~CallPublish(p) /\ ~CallRequest(p) /\ ~Return(p)
    BY <2>1, <2>3 DEF Exit, Exited, CallPublish, CallRequest, Return, Calling, Waits
  <2>5. \A c \in Callers \cup Tasks : ~Proceeds(c)
    BY <2>2 DEF Proceeds, Handle, Do, Leave, Processing
  <2>6. \A n \in Tasks : ~Unwind(n)
    BY <2>1 DEF Unwind, NotBegun
  <2> QED BY <2>4, <2>5, <2>6 DEF TestStep
<1> QED BY <1>1, <1>2

LEMMA DeclInit_ == Init => DeclInv
<1> SUFFICES ASSUME Init PROVE DeclInv
  OBVIOUS
<1>1. /\ app \in Applications /\ declared = 0 /\ subscribers = <<>> /\ publishers = <<>>
      /\ configs = [r \in {"broker"} |-> <<BrokerConfig(Options)>>] /\ windows = NoHeaders
      /\ mode = "declaring" /\ backend = "none" /\ ids = 0 /\ NotBegun
  BY DEF Init, DeclInit, NotBegun
<1>2. app.max_workers \in Nat /\ app.prefetch_count \in Nat \cup {None} /\ Sequence(Decls)
  BY <1>1, ApplicationAssumption DEF Decls, Counts
<1>3. SubSeq(Decls, 1, 0) = <<>> /\ Len(Decls) \in Nat
  BY <1>2 DEF Sequence
<1>4. Registrators(<<>>) = {"broker"}
  BY HeldByNone DEF Registrators
<1>5. ConfigChain(<<BrokerConfig(Options)>>)
  <2> DEFINE config == BrokerConfig(Options)
  <2>1. Options \in {app, FastAPIOptions(app)}
    BY DEF Options
  <2>2. config.max_workers \in Nat /\ config.prefetch_count \in Nat \cup {None}
    <3>1. FastAPIOptions(app).max_workers = app.max_workers /\ FastAPIOptions(app).prefetch_count = app.prefetch_count
      BY DEF FastAPIOptions
    <3> QED BY <1>2, <2>1, <3>1 DEF BrokerConfig
  <2> HIDE DEF config
  <2>3. <<config>> \in Seq(Range(<<config>>)) /\ <<config>> # <<>> /\ Head(<<config>>) = config
    BY HeldByOne
  <2>4. ConfigChain(<<config>>)
    BY <2>2, <2>3 DEF ConfigChain, Sequence
  <2> QED BY <2>4 DEF config
<1>6. EndpointsOK
  BY <1>1, HeldByNone DEF EndpointsOK, Decorators, Sequence
<1>7. DOMAIN windows = {}
  BY <1>1 DEF NoHeaders
<1>8. \A r \in Registrators(SubSeq(Decls, 1, declared)) : r \in DOMAIN configs /\ ConfigChain(configs[r])
  BY <1>1, <1>3, <1>4, <1>5
<1> QED BY <1>1, <1>3, <1>6, <1>7, <1>8, HeldByNone DEF DeclInv

LEMMA DeclNext == DeclInv /\ [Next]_vars => DeclInv'
<1> SUFFICES ASSUME DeclInv, [Next]_vars PROVE DeclInv'
  OBVIOUS
<1>1. CASE DeclareNext
  <2>1. Declare /\ mode = "declaring" /\ UNCHANGED testVars
    BY <1>1 DEF DeclareNext
  <2>2. /\ declared' \in 0..Len(Decls) /\ app' = app /\ windows' = windows /\ EndpointsOK'
        /\ \A r \in Registrators(SubSeq(Decls, 1, declared')) : r \in DOMAIN configs' /\ ConfigChain(configs'[r])
        /\ \A s \in Range(subscribers') : s.prefetch_count \in Nat
    BY <2>1, DeclareStep
  <2>3. Decls' = Decls /\ NotBegun' /\ mode' = "declaring" /\ ids' = ids /\ backend' = backend
    BY <2>1, <2>2 DEF Decls, testVars, NotBegun, DeclInv
  <2> QED BY <2>1, <2>2, <2>3 DEF DeclInv
<1>2. CASE Start
  <2>1. /\ UNCHANGED <<app, declared, configs, subscribers, publishers>>
        /\ mode' = "started" /\ ids' = ids + 1 /\ backend' = backend
        /\ \A q \in DOMAIN windows' : windows'[q] \in Nat
        /\ (\A i \in 1..Len(subscribers) : i <= ids => Fed(subscribers[i]))'
    BY <1>2, StartStep
  <2>2. mode \in {"declaring", "started"} /\ NotBegun /\ NotBegun'
    BY <1>2 DEF Start, Declared, NotBegun, DeclInv
  <2>3. EndpointsOK' /\ Decls' = Decls
    BY <2>1 DEF EndpointsOK, Decls, DeclInv
  <2> QED BY <2>1, <2>2, <2>3 DEF DeclInv
<1>3. CASE Enter
  <2>1. /\ UNCHANGED <<app, declared, configs, publishers, windows, ids>> /\ mode' = "testing"
        /\ EndpointsOK' /\ backend' \in {"none", "memory"}
    BY <1>3, EnterStep
  <2>2. Decls' = Decls
    BY <2>1 DEF Decls
  <2> QED BY <2>1, <2>2 DEF DeclInv
<1>4. CASE TestStep
  <2>1. InTest' /\ UNCHANGED declVars /\ ids' \in Nat /\ backend' = backend
    BY <1>4, InTestStays DEF DeclInv
  <2>2. EndpointsOK' /\ Decls' = Decls
    BY <2>1 DEF EndpointsOK, Decls, DeclInv, declVars
  <2> QED BY <2>1, <2>2 DEF DeclInv, declVars, InTest
<1>5. CASE UNCHANGED vars
  <2>1. EndpointsOK' /\ Decls' = Decls /\ NotBegun' = NotBegun /\ \A s : Fed(s)' = Fed(s)
    BY <1>5 DEF EndpointsOK, Decls, DeclInv, vars, declVars, testVars, NotBegun, Fed, SubscriberQueue
  <2> QED BY <1>5, <2>1 DEF DeclInv, vars, declVars, testVars
<1> QED BY <1>1, <1>2, <1>3, <1>4, <1>5 DEF Next, TestStep

THEOREM DeclarationsHold == Spec => []DeclInv
<1>1. Init => DeclInv
  BY DeclInit_
<1>2. DeclInv /\ [Next]_vars => DeclInv'
  BY DeclNext
<1> QED BY <1>1, <1>2, PTL DEF Spec

\* WorkersAreFed: whatever the order in which subscribers of a queue are declared and
\* started, no subscriber that has started gets fewer deliveries than it asked for.
THEOREM StartedAreFed == Spec => []WorkersAreFed
<1>1. DeclInv => WorkersAreFed
  BY DEF DeclInv, WorkersAreFed, Fed
<1> QED BY <1>1, DeclarationsHold, PTL

-----------------------------------------------------------------------------
(* Messages and what they lead to *)

\* A number is an id that was generated.
Past(id, n) == id \in Nat => id \in 1..n

\* The log tells an outcome of the task `id`; what is reported under a generated id is
\* the outcome that it tells.
Logged(id, status, done) == \E e \in done : e.id = id /\ Outcome(e) = status
IsOutcome(r, done) ==
    /\ DOMAIN r = {"task_id", "status", "result"} /\ r.status \in {"SUCCESS", "FAILURE"}
    /\ r.task_id \in Nat => Logged(r.task_id, r.status, done)

\* None is no mapping, and so no task; what is not a task is sent under an id.
NoneIsNoMapping == \A f : [k \in DOMAIN f |-> f[k]] # None
Traced(cmd) == NoneIsNoMapping => IsTask(cmd.body) \/ cmd.correlation_id # None

IsCommand(cmd, done, n) ==
    /\ Past(cmd.correlation_id, n) /\ Chosen(cmd.headers) /\ Written(cmd.body) /\ Traced(cmd)
    /\ {"task_id", "status"} \subseteq DOMAIN cmd.body => IsOutcome(cmd.body, done)
IsEffect(x, done, n) ==
    \/ DOMAIN x = {"result"} /\ IsOutcome(x.result, done)
    \/ DOMAIN x = {"cmd", "valid"} /\ IsCommand(x.cmd, done, n)

\* A message goes by its correlation id, unless somebody chose another for it.
IsMessage(msg, n) ==
    /\ msg.correlation_id # None /\ Past(msg.correlation_id, n)
    /\ Id(msg) # None /\ (Id(msg) \in Nat => Id(msg) = msg.correlation_id)
    /\ \A steps \in {"callbacks", "errbacks", "chain"} : Listed(read_embed(msg)[steps])

\* Steps, once they are signatures, stay as they are.
LEMMA ListedSteps ==
    ASSUME NEW steps \in Seq(CanvasSteps)
    PROVE  Listed(steps) /\ Listed(Steps(steps))
<1>1. \A x : x = None => as_signatures(x) = <<>>
  <2>1. \A x : x = None => Or(x, <<>>) = <<>>
    BY DEF Or
  <2>2. DOMAIN <<>> = {}
    OBVIOUS
  <2>3. \A x : x = None => as_signatures(x) = [i \in {} |-> as_signature(x[i])]
    BY <2>1, <2>2 DEF as_signatures
  <2>4. \A x : [i \in {} |-> as_signature(x[i])] = <<>>
    OBVIOUS
  <2> QED BY <2>3, <2>4
<1>2. <<>> \in Seq(CanvasSteps)
  BY EmptySeq
<1>3. CASE steps = None
  <2>1. Steps(steps) \in {None, steps}
    BY DEF Steps
  <2> QED BY <1>1, <1>2, <1>3, <2>1 DEF Listed
<1>4. CASE steps # None
  <2>1. as_signatures(steps) = [i \in 1..Len(steps) |-> as_signature(steps[i])]
    BY <1>4 DEF as_signatures, Or
  <2>2. \A i \in 1..Len(steps) : as_signature(steps[i]) = steps[i]
    <3>1. ASSUME NEW sig \in CanvasSteps PROVE as_signature(sig) = sig
      <4>1. ~IsTask(sig)
        BY CanvasAssumption
      <4> QED BY <4>1, Zenon DEF as_signature
    <3> QED BY <3>1
  <2>3. as_signatures(steps) = steps
    <3>1. as_signatures(steps) = [i \in 1..Len(steps) |-> steps[i]]
      BY <2>1, <2>2
    <3> QED BY <3>1
  <2>4. Steps(steps) \in {None, steps}
    BY DEF Steps
  <2> QED BY <1>1, <1>2, <2>3, <2>4 DEF Listed
<1> QED BY <1>3, <1>4

LEMMA ListedNothing == Listed(None)
<1>1. <<>> \in Seq(CanvasSteps)
  BY EmptySeq
<1>2. as_signatures(None) = [i \in DOMAIN <<>> |-> as_signature(None[i])]
  BY DEF as_signatures, Or
<1>3. DOMAIN <<>> = {}
  OBVIOUS
<1>4. [i \in {} |-> as_signature(None[i])] = <<>>
  OBVIOUS
<1> QED BY <1>1, <1>2, <1>3, <1>4 DEF Listed

\* The fields of a command.
LEMMA CommandFields ==
    ASSUME NEW body, NEW type, NEW queue, NEW options,
           DOMAIN options \subseteq {"exchange", "routing_key", "declare", "headers", "correlation_id", "reply_to"}
    PROVE  LET cmd == Command(body, type, queue, options) IN
           /\ DOMAIN cmd = {"body", "type", "queue", "exchange", "routing_key", "declare", "headers",
                            "correlation_id", "reply_to"}
           /\ cmd.body = body /\ cmd.type = type /\ cmd.queue = queue
           /\ cmd.headers = IF "headers" \in DOMAIN options THEN options.headers ELSE NoHeaders
           /\ cmd.correlation_id = IF "correlation_id" \in DOMAIN options THEN options.correlation_id ELSE None
           /\ cmd.reply_to = IF "reply_to" \in DOMAIN options THEN options.reply_to ELSE None
<1> DEFINE base == [body |-> body, type |-> type, queue |-> queue, exchange |-> None,
                    routing_key |-> None, declare |-> TRUE, headers |-> NoHeaders,
                    correlation_id |-> None, reply_to |-> None]
           cmd == Command(body, type, queue, options)
<1>1. cmd = [k \in DOMAIN base \cup DOMAIN options |-> IF k \in DOMAIN options THEN options[k] ELSE base[k]]
  BY DEF Command, Override
<1>2. DOMAIN base = {"body", "type", "queue", "exchange", "routing_key", "declare", "headers",
                     "correlation_id", "reply_to"}
      /\ base.body = body /\ base.type = type /\ base.queue = queue /\ base.headers = NoHeaders
      /\ base.correlation_id = None /\ base.reply_to = None
  OBVIOUS
<1> HIDE DEF base, cmd
<1>3. DOMAIN cmd = DOMAIN base
  BY <1>1, <1>2
<1>4. \A k \in DOMAIN base : cmd[k] = IF k \in DOMAIN options THEN options[k] ELSE base[k]
  BY <1>1
<1>5. "body" \notin DOMAIN options /\ "type" \notin DOMAIN options /\ "queue" \notin DOMAIN options
  OBVIOUS
<1> QED BY <1>2, <1>3, <1>4, <1>5 DEF cmd

\* What the fake builds of a command is a message.
LEMMA MessageOf ==
    ASSUME NEW cmd, NEW id, NEW n, id # None, Past(id, n), Chosen(cmd.headers), Written(cmd.body)
    PROVE  IsMessage(build_message(cmd, id, Now), n)
<1> DEFINE msg == build_message(cmd, id, Now)
           envelope == build_task_envelope(cmd.body, id, Now)
           parsed == parse_envelope(msg).headers
<1>1. /\ msg.correlation_id = id
      /\ msg.body = IF IsTask(cmd.body) THEN envelope.body ELSE cmd.body
      /\ msg.headers = IF IsTask(cmd.body) THEN Override(envelope.headers, cmd.headers) ELSE cmd.headers
  BY DEF build_message, Headers
<1>2. DOMAIN envelope.body = {"args", "embed"} /\ "id" \in DOMAIN envelope.headers /\ envelope.headers.id = id
  BY DEF build_task_envelope
<1>3. /\ envelope.body.embed.callbacks = Steps(cmd.body.link)
      /\ envelope.body.embed.errbacks = Steps(cmd.body.link_error)
      /\ envelope.body.embed.chain = Steps(cmd.body.chain)
  BY DEF build_task_envelope
<1> HIDE DEF msg, envelope
<1>4. Chosen(msg.headers) \/ ("id" \in DOMAIN msg.headers /\ msg.headers.id = id)
  <2>1. CASE IsTask(cmd.body)
    <3>1. "id" \in DOMAIN cmd.headers => msg.headers.id = cmd.headers.id
      BY <1>1, <2>1 DEF Override
    <3>2. "id" \notin DOMAIN cmd.headers => msg.headers.id = id
      BY <1>1, <1>2, <2>1 DEF Override
    <3>3. "id" \in DOMAIN msg.headers
      BY <1>1, <1>2, <2>1 DEF Override
    <3> QED BY <3>1, <3>2, <3>3 DEF Chosen
  <2>2. CASE ~IsTask(cmd.body)
    BY <1>1, <2>2
  <2> QED BY <2>1, <2>2
<1>5. Chosen(msg.body)
  BY <1>1, <1>2 DEF Written, Chosen
<1>6. \/ parsed = msg.headers
      \/ parsed.id = Get(msg.body, "id") /\ "id" \in DOMAIN parsed
  BY DEF parse_envelope, v1_headers
<1>7. Get(parsed, "id") \in Nat => Get(parsed, "id") = id
  <2>1. CASE parsed = msg.headers
    BY <1>4, <2>1, NoneAssumption DEF Get, Has, Chosen
  <2>2. CASE parsed.id = Get(msg.body, "id") /\ "id" \in DOMAIN parsed
    BY <1>5, <2>2, NoneAssumption DEF Get, Has, Chosen
  <2> QED BY <1>6, <2>1, <2>2
<1>8. Id(msg) # None /\ (Id(msg) \in Nat => Id(msg) = id)
  BY <1>1, <1>7 DEF Id, Or
<1>9. ASSUME NEW steps \in {"callbacks", "errbacks", "chain"} PROVE Listed(read_embed(msg)[steps])
  <2>1. CASE Has(msg.headers, "task") /\ IsTriple(msg.body) /\ IsTask(cmd.body)
    <3>1. read_embed(msg) = envelope.body.embed
      BY <1>1, <2>1 DEF read_embed
    <3>2. /\ Listed(cmd.body.link) /\ Listed(cmd.body.link_error) /\ Listed(cmd.body.chain)
      BY <2>1 DEF Written
    <3> QED BY <1>3, <3>1, <3>2, ListedNothing DEF Steps
  <2>2. CASE Has(msg.headers, "task") /\ IsTriple(msg.body) /\ ~IsTask(cmd.body)
    BY <1>1, <2>2 DEF read_embed, Written
  <2>3. CASE ~(Has(msg.headers, "task") /\ IsTriple(msg.body))
    <3>1. read_embed(msg)[steps] = None
      BY <2>3 DEF read_embed, NoEmbed
    <3> QED BY <3>1, ListedNothing
  <2> QED BY <2>1, <2>2, <2>3
<1> QED BY <1>1, <1>8, <1>9 DEF IsMessage, msg

-----------------------------------------------------------------------------
(* Effects *)

\* A publication of the dispatcher: of a step of a workflow, which goes by no generated
\* id, with steps of its own or the rest of a chain.
LEMMA PublicationEffect ==
    ASSUME NEW headers, NEW step \in CanvasSteps, NEW args, NEW chain, NEW queue, NEW done, NEW n,
           chain = None \/ chain \in Seq(CanvasSteps)
    PROVE  IsEffect(Publication(headers, step, args, chain, queue), done, n)
<1> DEFINE cmd == Continuation(headers, step, args, chain, queue)
           rest == IF chain # None THEN chain ELSE as_signatures(Option(step, "chain"))
<1>1. /\ Option(step, "task_id") \notin Nat /\ Chosen(Or(Option(step, "headers"), NoHeaders))
      /\ as_signatures(Option(step, "link")) \in Seq(CanvasSteps)
      /\ as_signatures(Option(step, "link_error")) \in Seq(CanvasSteps)
      /\ as_signatures(Option(step, "chain")) \in Seq(CanvasSteps)
  BY CanvasAssumption DEF Listed
<1>2. Listed(as_signatures(Option(step, "link"))) /\ Listed(as_signatures(Option(step, "link_error")))
      /\ Listed(rest)
  BY <1>1, ListedSteps
<1>3. /\ cmd.headers = Or(Option(step, "headers"), NoHeaders)
      /\ cmd.correlation_id = Option(step, "task_id")
      /\ DOMAIN cmd.body = DOMAIN CeleryTask(step.task)
      /\ cmd.body.link = as_signatures(Option(step, "link"))
      /\ cmd.body.link_error = as_signatures(Option(step, "link_error"))
      /\ cmd.body.chain = rest
      /\ NoneIsNoMapping => cmd.body # None
  <2> DEFINE body == [CeleryTask(step.task) EXCEPT
                !.args = args,
                !.countdown = Option(step, "countdown"),
                !.eta = FromText(Option(step, "eta")),
                !.expires = FromText(Option(step, "expires")),
                !.retries = Or(Option(step, "retries"), 0),
                !.link = as_signatures(Option(step, "link")),
                !.link_error = as_signatures(Option(step, "link_error")),
                !.chain = rest,
                !.root_id = Or(headers.root_id, headers.id),
                !.parent_id = headers.id,
                !.group = Option(step, "group_id"),
                !.group_index = Option(step, "group_index"),
                !.chord = Option(step, "chord")]
             options == [exchange |-> Option(step, "exchange"),
             routing_key |-> Option(step, "routing_key"),
             declare |-> Or(Option(step, "declare"), TRUE),
             headers |-> Or(Option(step, "headers"), NoHeaders),
             correlation_id |-> Option(step, "task_id"),
             reply_to |-> Option(step, "reply_to")]
  <2>0. body = [k \in DOMAIN body |-> body[k]]
    OBVIOUS
  <2>1. cmd = Command(body, "PUBLISH", queue_of(step, queue), options)
    BY DEF Continuation
  <2>2. /\ DOMAIN body = DOMAIN CeleryTask(step.task)
        /\ body.link = as_signatures(Option(step, "link"))
        /\ body.link_error = as_signatures(Option(step, "link_error"))
        /\ body.chain = rest
    BY DEF CeleryTask
  <2>3. /\ DOMAIN options = {"exchange", "routing_key", "declare", "headers", "correlation_id", "reply_to"}
        /\ options.headers = Or(Option(step, "headers"), NoHeaders)
        /\ options.correlation_id = Option(step, "task_id")
    OBVIOUS
  <2> HIDE DEF body, options, cmd, rest
  <2>4. cmd.body = body /\ cmd.headers = options.headers /\ cmd.correlation_id = options.correlation_id
    BY <2>1, <2>3, CommandFields
  <2>5. NoneIsNoMapping => body # None
    BY <2>0 DEF NoneIsNoMapping
  <2> QED BY <2>2, <2>3, <2>4, <2>5
<1>4. DOMAIN CeleryTask(step.task) = {"task", "args", "countdown", "eta", "expires", "retries", "link",
         "link_error", "chain", "root_id", "parent_id", "group", "group_index", "chord"}
  BY DEF CeleryTask
<1> HIDE DEF rest, cmd
<1>5. "id" \notin DOMAIN cmd.body /\ "task_id" \notin DOMAIN cmd.body /\ ~IsTriple(cmd.body)
  BY <1>3, <1>4 DEF IsTriple, Has
<1>6. IsCommand(cmd, done, n)
  <2>1. Traced(cmd)
    BY <1>3, <1>4 DEF Traced, IsTask, Has
  <2> QED BY <1>1, <1>2, <1>3, <1>5, <2>1 DEF IsCommand, Past, Written, Chosen
<1>7. DOMAIN Publication(headers, step, args, chain, queue) = {"cmd", "valid"}
      /\ Publication(headers, step, args, chain, queue).cmd = cmd
  BY DEF Publication, cmd
<1> QED BY <1>6, <1>7 DEF IsEffect

\* What the publications of a list of steps are.
AllEffects(agenda, done, n) == Sequence(agenda) /\ \A x \in Range(agenda) : IsEffect(x, done, n)

LEMMA NoEffects == ASSUME NEW done, NEW n PROVE AllEffects(<<>>, done, n)
BY HeldByNone DEF AllEffects, Sequence

LEMMA OneEffect == ASSUME NEW x, NEW done, NEW n, IsEffect(x, done, n) PROVE AllEffects(<<x>>, done, n)
BY HeldByOne DEF AllEffects, Sequence

LEMMA BothEffects ==
    ASSUME NEW s, NEW t, NEW done, NEW n, AllEffects(s, done, n), AllEffects(t, done, n)
    PROVE  AllEffects(s \o t, done, n)
BY HeldByBoth DEF AllEffects, Sequence

LEMMA EachEffect ==
    ASSUME NEW s, NEW done, NEW n, NEW k \in Nat, s = [i \in 1..k |-> s[i]],
           \A i \in 1..k : IsEffect(s[i], done, n)
    PROVE  AllEffects(s, done, n)
<1> DEFINE S == {s[i] : i \in 1..k}
<1>1. s \in [1..k -> S]
  OBVIOUS
<1>2. s \in Seq(S)
  <2> HIDE DEF S
  <2> QED BY <1>1, SeqDef
<1>3. s \in Seq(Range(s)) /\ Range(s) \subseteq S
  <2> HIDE DEF S
  <2> QED BY <1>2, RangeOf
<1> QED BY <1>3 DEF AllEffects, Sequence

LEMMA FollowersEffects ==
    ASSUME NEW headers, NEW embed, NEW result, NEW queue, NEW done, NEW n,
           Listed(embed.callbacks), Listed(embed.chain)
    PROVE  AllEffects(Followers(headers, embed, result, queue), done, n)
<1> DEFINE callbacks == as_signatures(embed.callbacks)
           chain == as_signatures(embed.chain)
           Call(step) == Publication(headers, step, call_args(step, result), None, queue)
           Step(step, rest) == Publication(headers, step, call_args(step, result), rest, queue)
           called == [i \in 1..Len(callbacks) |-> Call(callbacks[i])]
           stepped == IF chain = <<>> THEN <<>> ELSE <<Step(Last(chain), Front(chain))>>
<1>1. callbacks \in Seq(CanvasSteps) /\ chain \in Seq(CanvasSteps)
  BY DEF Listed
<1>2. Followers(headers, embed, result, queue) = called \o stepped
  BY DEF Followers
<1>3. AllEffects(called, done, n)
  <2>1. \A i \in 1..Len(callbacks) : IsEffect(Call(callbacks[i]), done, n)
    <3> TAKE i \in 1..Len(callbacks)
    <3>1. callbacks[i] \in CanvasSteps
      BY <1>1
    <3> HIDE DEF callbacks
    <3> QED BY <3>1, PublicationEffect
  <2> DEFINE f(i) == Call(callbacks[i])
  <2>2. called = [i \in 1..Len(callbacks) |-> called[i]] /\ \A i \in 1..Len(callbacks) : called[i] = f(i)
    OBVIOUS
  <2>3. Len(callbacks) \in Nat
    BY <1>1
  <2>4. \A i \in 1..Len(callbacks) : IsEffect(called[i], done, n)
    BY <2>1, <2>2
  <2> HIDE DEF called, callbacks
  <2> QED BY <2>2, <2>3, <2>4, EachEffect
<1>4. AllEffects(stepped, done, n)
  <2>1. CASE chain = <<>>
    BY <2>1, NoEffects
  <2>2. CASE chain # <<>>
    <3>1. Last(chain) \in CanvasSteps /\ Front(chain) \in Seq(CanvasSteps)
      <4> HIDE DEF chain
      <4> QED BY <1>1, <2>2, TopOf
    <3>2. IsEffect(Step(Last(chain), Front(chain)), done, n)
      <4> HIDE DEF chain
      <4> QED BY <3>1, PublicationEffect
    <3> HIDE DEF Step, chain
    <3> QED BY <2>2, <3>2, OneEffect
  <2> QED BY <2>1, <2>2
<1> HIDE DEF called, stepped
<1> QED BY <1>2, <1>3, <1>4, BothEffects

LEMMA ErrbacksEffects ==
    ASSUME NEW headers, NEW embed, NEW queue, NEW done, NEW n, Listed(embed.errbacks)
    PROVE  AllEffects(Errbacks(headers, embed, queue), done, n)
<1> DEFINE errbacks == as_signatures(embed.errbacks)
           Call(step) == Publication(headers, step, call_args(step, headers.id), None, queue)
           called == [i \in 1..Len(errbacks) |-> Call(errbacks[i])]
<1>1. errbacks \in Seq(CanvasSteps)
  BY DEF Listed
<1>2. Errbacks(headers, embed, queue) = called
  BY DEF Errbacks
<1>3. \A i \in 1..Len(errbacks) : IsEffect(Call(errbacks[i]), done, n)
  <2> TAKE i \in 1..Len(errbacks)
  <2>1. errbacks[i] \in CanvasSteps
    BY <1>1
  <2> HIDE DEF errbacks
  <2> QED BY <2>1, PublicationEffect
<1> DEFINE f(i) == Call(errbacks[i])
<1>4. called = [i \in 1..Len(errbacks) |-> called[i]] /\ \A i \in 1..Len(errbacks) : called[i] = f(i)
  OBVIOUS
<1>5. Len(errbacks) \in Nat
  BY <1>1
<1>6. \A i \in 1..Len(errbacks) : IsEffect(called[i], done, n)
  BY <1>3, <1>4
<1>7. AllEffects(called, done, n)
  <2> HIDE DEF called, errbacks
  <2> QED BY <1>4, <1>5, <1>6, EachEffect
<1> QED BY <1>2, <1>7

\* An outcome is stored as it is, and sent as it is.
LEMMA StoreEffects ==
    ASSUME NEW msg, NEW result, NEW done, NEW n, IsOutcome(result, done)
    PROVE  AllEffects(Store(msg, result), done, n)
<1> DEFINE effect == [result |-> result]
<1>1. IsEffect(effect, done, n)
  BY DEF IsEffect
<1> HIDE DEF effect
<1>2. AllEffects(<<effect>>, done, n) /\ AllEffects(<<>>, done, n)
  BY <1>1, OneEffect, NoEffects
<1>3. Store(msg, result) \in {<<>>, <<effect>>}
  BY DEF Store, When, effect
<1> QED BY <1>2, <1>3

LEMMA ReplyFields ==
    ASSUME NEW queue, NEW result
    PROVE  /\ Reply(queue, result).body = result /\ Reply(queue, result).queue = queue
           /\ Reply(queue, result).headers = NoHeaders /\ Reply(queue, result).type = "REPLY"
           /\ Reply(queue, result).correlation_id = result.task_id /\ Reply(queue, result).reply_to = None
<1> DEFINE options == [exchange |-> "", declare |-> FALSE, correlation_id |-> result.task_id]
<1>1. Reply(queue, result) = Command(result, "REPLY", queue, options)
  BY DEF Reply
<1>2. DOMAIN options = {"exchange", "declare", "correlation_id"} /\ options.correlation_id = result.task_id
  OBVIOUS
<1> HIDE DEF options
<1> QED BY <1>1, <1>2, CommandFields

LEMMA ReplyIsCommand ==
    ASSUME NEW queue, NEW result, NEW done, NEW n, IsOutcome(result, done), Past(result.task_id, n),
           result.task_id # None
    PROVE  IsCommand(Reply(queue, result), done, n)
<1>1. "id" \notin DOMAIN result /\ ~IsTask(result) /\ ~IsTriple(result)
  BY DEF IsOutcome, IsTask, IsTriple, Has
<1> QED BY <1>1, ReplyFields DEF IsCommand, Written, Chosen, NoHeaders, Traced

LEMMA RepliedEffects ==
    ASSUME NEW msg, NEW s, NEW queue, NEW result, NEW done, NEW n, IsOutcome(result, done),
           Past(result.task_id, n), result.task_id # None
    PROVE  AllEffects(Replied(msg, s, queue, result), done, n)
<1> DEFINE effect == Publish(Reply(queue, result))
<1>1. IsEffect(effect, done, n)
  <2>1. DOMAIN effect = {"cmd", "valid"} /\ effect.cmd = Reply(queue, result)
    BY DEF Publish
  <2> QED BY <2>1, ReplyIsCommand DEF IsEffect
<1> HIDE DEF effect
<1>2. AllEffects(<<effect>>, done, n) /\ AllEffects(<<>>, done, n)
  BY <1>1, OneEffect, NoEffects
<1>3. Replied(msg, s, queue, result) \in {<<>>, <<effect>>}
  BY DEF Replied, When, effect
<1> QED BY <1>2, <1>3

LEMMA DecoratedEffect ==
    ASSUME NEW p, NEW result, NEW id, NEW done, NEW n, Chosen(p.headers), Past(id, n), id # None
    PROVE  IsEffect(Publish(DecoratedCommand(p, [value |-> result], id)), done, n)
<1> DEFINE options == [exchange |-> p.exchange, routing_key |-> p.routing_key, headers |-> p.headers,
                       correlation_id |-> id, reply_to |-> p.reply_to]
           body == [value |-> result]
           cmd == DecoratedCommand(p, body, id)
<1>1. cmd = Command(body, "PUBLISH", PublisherQueue(p), options)
  BY DEF DecoratedCommand
<1>2. /\ DOMAIN options = {"exchange", "routing_key", "headers", "correlation_id", "reply_to"}
      /\ options.correlation_id = id /\ options.headers = p.headers /\ DOMAIN body = {"value"}
  OBVIOUS
<1> HIDE DEF options, body, cmd
<1>3. cmd.body = body /\ cmd.headers = p.headers /\ cmd.correlation_id = id
  BY <1>1, <1>2, CommandFields
<1>4. ~IsTask(body) /\ ~IsTriple(body) /\ Chosen(body)
  BY <1>2 DEF IsTask, IsTriple, Has, Chosen
<1>5. IsCommand(cmd, done, n)
  BY <1>2, <1>3, <1>4 DEF IsCommand, Written, Traced
<1>6. DOMAIN Publish(cmd) = {"cmd", "valid"} /\ Publish(cmd).cmd = cmd
  BY DEF Publish
<1>7. IsEffect(Publish(cmd), done, n)
  BY <1>5, <1>6 DEF IsEffect
<1> QED BY <1>7 DEF cmd, body

\* A success and a failure as they are built.
LEMMA Built ==
    ASSUME NEW id, NEW result
    PROVE  /\ DOMAIN build_success(id, result) = {"task_id", "status", "result"}
           /\ DOMAIN build_failure(id) = {"task_id", "status", "result"}
           /\ build_success(id, result).task_id = id /\ build_failure(id).task_id = id
           /\ build_success(id, result).status = "SUCCESS" /\ build_failure(id).status = "FAILURE"
BY DEF build_success, build_failure

\* What a handler that returned leads to, once the log tells that it has.
LEMMA SuccessEffects ==
    ASSUME NEW msg, NEW s, NEW done, NEW n, IsMessage(msg, n), Decorators(s.publishers),
           Id(msg) \in Nat => Logged(Id(msg), "SUCCESS", done)
    PROVE  AllEffects(SuccessAgenda(msg, s), done, n)
<1> DEFINE success == build_success(Id(msg), Result)
           a == Store(msg, success)
           b == Followers(parse_envelope(msg).headers, read_embed(msg), Result, SubscriberQueue(s))
           c == Replied(msg, s, msg.reply_to, success)
           f(i) == Publish(DecoratedCommand(s.publishers[i], [value |-> Result], msg.correlation_id))
           d == [i \in DOMAIN s.publishers |-> f(i)]
<1>1. SuccessAgenda(msg, s) = a \o b \o c \o d
  BY DEF SuccessAgenda
<1>2. IsOutcome(success, done) /\ Past(success.task_id, n) /\ success.task_id # None
  <2>1. Past(Id(msg), n) /\ Id(msg) # None
    BY DEF IsMessage, Past
  <2> QED BY <2>1, Built DEF IsOutcome
<1>3. AllEffects(a, done, n) /\ AllEffects(c, done, n)
  <2> HIDE DEF success
  <2> QED BY <1>2, StoreEffects, RepliedEffects
<1>4. AllEffects(b, done, n)
  BY FollowersEffects DEF IsMessage
<1>5. AllEffects(d, done, n)
  <2> DEFINE k == Len(s.publishers)
  <2>1. DOMAIN s.publishers = 1..k /\ k \in Nat
    BY DEF Decorators, Sequence
  <2>2. \A i \in 1..k : IsEffect(f(i), done, n)
    <3> TAKE i \in 1..k
    <3>1. Chosen(s.publishers[i].headers)
      BY HeldIn DEF Decorators, Sequence
    <3>2. Past(msg.correlation_id, n) /\ msg.correlation_id # None
      BY DEF IsMessage
    <3> QED BY <3>1, <3>2, DecoratedEffect
  <2> HIDE DEF f, k
  <2>3. d = [i \in 1..k |-> d[i]] /\ \A i \in 1..k : d[i] = f(i)
    BY <2>1
  <2> HIDE DEF d
  <2>4. \A i \in 1..k : IsEffect(d[i], done, n)
    BY <2>2, <2>3
  <2> QED BY <2>1, <2>3, <2>4, EachEffect
<1> HIDE DEF a, b, c, d
<1>6. AllEffects(((a \o b) \o c) \o d, done, n)
  BY <1>3, <1>4, <1>5, BothEffects
<1> QED BY <1>1, <1>6

\* What a handler that raised leads to: its failure, that of the frozen steps of its chain,
\* and its errbacks.
Reported(msg, s, id, reply_to) ==
    Store(msg, build_failure(id)) \o Replied(msg, s, reply_to, build_failure(id))
FrozenReports(msg, s) ==
    LET chain == as_signatures(read_embed(msg).chain)
    IN [i \in DOMAIN chain |->
           IF ~Frozen(chain[i]) THEN <<>>
           ELSE Reported(msg, s, Option(chain[i], "task_id"), Option(chain[i], "reply_to"))]

LEMMA FailureIs ==
    ASSUME NEW msg, NEW s
    PROVE  FailureAgenda(msg, s) =
              IF ack_policy(s) = "NACK_ON_ERROR" THEN <<>>
              ELSE Reported(msg, s, Id(msg), msg.reply_to) \o FlattenSeq(FrozenReports(msg, s))
                   \o Errbacks(parse_envelope(msg).headers, read_embed(msg), SubscriberQueue(s))
BY Zenon DEF FailureAgenda, Reported, FrozenReports

LEMMA ReportedEffects ==
    ASSUME NEW msg, NEW s, NEW id, NEW reply_to, NEW done, NEW n,
           id # None, id \in Nat => id \in 1..n /\ Logged(id, "FAILURE", done)
    PROVE  AllEffects(Reported(msg, s, id, reply_to), done, n)
<1> DEFINE failure == build_failure(id)
<1>1. IsOutcome(failure, done) /\ Past(failure.task_id, n) /\ failure.task_id # None
  BY Built DEF IsOutcome, Past
<1>2. Reported(msg, s, id, reply_to) = Store(msg, failure) \o Replied(msg, s, reply_to, failure)
  BY DEF Reported
<1> HIDE DEF failure
<1> QED BY <1>1, <1>2, StoreEffects, RepliedEffects, BothEffects

LEMMA FrozenEffects ==
    ASSUME NEW msg, NEW s, NEW done, NEW n, IsMessage(msg, n)
    PROVE  AllEffects(FlattenSeq(FrozenReports(msg, s)), done, n)
<1> DEFINE chain == as_signatures(read_embed(msg).chain)
           parts == FrozenReports(msg, s)
           b == FlattenSeq(parts)
<1>0. chain \in Seq(CanvasSteps)
  BY DEF IsMessage, Listed
<1> DEFINE f(i) == IF ~Frozen(chain[i]) THEN <<>>
                   ELSE Reported(msg, s, Option(chain[i], "task_id"), Option(chain[i], "reply_to"))
           k == Len(chain)
<1>1. parts = [i \in 1..k |-> f(i)] /\ k \in Nat
  BY <1>0 DEF FrozenReports
<1>2. \A i \in 1..k : AllEffects(f(i), done, n)
  <2> TAKE i \in 1..k
  <2>1. chain[i] \in CanvasSteps
    BY <1>0
  <2>2. Option(chain[i], "task_id") \notin Nat
    BY <2>1, CanvasAssumption
  <2> HIDE DEF chain
  <2>3. CASE Frozen(chain[i])
    <3>1. AllEffects(Reported(msg, s, Option(chain[i], "task_id"), Option(chain[i], "reply_to")), done, n)
      BY <2>2, <2>3, ReportedEffects DEF Frozen
    <3> QED BY <2>3, <3>1
  <2>4. CASE ~Frozen(chain[i])
    BY <2>4, NoEffects
  <2> QED BY <2>3, <2>4
<1> DEFINE S == {f(i) : i \in 1..k}
<1>3. parts \in Seq(S)
  <2>1. \A i \in 1..k : f(i) \in S
    OBVIOUS
  <2> HIDE DEF S, f, k, parts
  <2> QED BY <1>1, <2>1
<1>4. parts \in Seq(Range(parts)) /\ Range(parts) \subseteq S
  <2> HIDE DEF S, parts
  <2> QED BY <1>3, RangeOf
<1>5. \A t \in S : AllEffects(t, done, n)
  <2> HIDE DEF f
  <2> QED BY <1>2
<1> HIDE DEF S, parts
<1>6. \A t \in Range(parts) : t \in Seq(Range(t))
  BY <1>4, <1>5 DEF AllEffects, Sequence
<1>7. b \in Seq(Range(b)) /\ \A x \in Range(b) : \E t \in Range(parts) : x \in Range(t)
  BY <1>4, <1>6, HeldByParts
<1> HIDE DEF b
<1>8. AllEffects(b, done, n)
  BY <1>4, <1>5, <1>7 DEF AllEffects, Sequence
<1> QED BY <1>8 DEF b, parts

LEMMA FailureEffects ==
    ASSUME NEW msg, NEW s, NEW done, NEW n, IsMessage(msg, n),
           Id(msg) \in Nat => Logged(Id(msg), "FAILURE", done)
    PROVE  AllEffects(FailureAgenda(msg, s), done, n)
<1> DEFINE a == Reported(msg, s, Id(msg), msg.reply_to)
           b == FlattenSeq(FrozenReports(msg, s))
           c == Errbacks(parse_envelope(msg).headers, read_embed(msg), SubscriberQueue(s))
<1>2. AllEffects(a, done, n)
  BY ReportedEffects DEF IsMessage, Past
<1>3. AllEffects(b, done, n)
  BY FrozenEffects
<1>4. AllEffects(c, done, n)
  BY ErrbacksEffects DEF IsMessage
<1>5. FailureAgenda(msg, s) \in {<<>>, a \o b \o c}
  BY FailureIs
<1> HIDE DEF a, b, c
<1>6. AllEffects((a \o b) \o c, done, n) /\ AllEffects(<<>>, done, n)
  BY <1>2, <1>3, <1>4, BothEffects, NoEffects
<1> QED BY <1>5, <1>6

-----------------------------------------------------------------------------
(* The test: types, and what is reported *)

IsFrame(f, done, n, m) ==
    /\ DOMAIN f = {"msg", "sub", "at", "agenda", "raising"}
    /\ IsMessage(f.msg, n) /\ f.sub \in 1..m /\ f.at \in {"handler", "scope"}
    /\ AllEffects(f.agenda, done, n) /\ (f.at = "handler" => f.agenda = <<>>)
Frames(s, done, n, m) == Sequence(s) /\ \A f \in Range(s) : IsFrame(f, done, n, m)

StacksOK ==
    /\ DOMAIN stack = Callers \cup Tasks
    /\ \A c \in Callers \cup Tasks : Frames(stack[c], Range(log), ids, Len(subscribers))
CallersOK ==
    /\ asking \in [Callers -> [op : {"idle", "publish", "request"}, id : 0..ids]]
    /\ answer \in [Callers -> {"none", "ok", "raised", "SUCCESS", "FAILURE"}]
    /\ \A p \in Callers : /\ stack[p] # <<>> <=> asking[p].op = "publish"
                          /\ asking[p].op # "idle" => answer[p] = "none"
RequestsOK ==
    /\ requests \in [Tasks -> {"none", "running", "ok", "raised", "cancelled"}]
    /\ \A n \in Tasks : stack[n] # <<>> <=> requests[n] = "running"
    /\ snapshot \subseteq Tasks
LogOK ==
    /\ Sequence(log)
    /\ \A e \in Range(log) : e.id # None /\ e.sub \in 1..Len(subscribers) /\ Past(e.id, ids)
ResultsOK == \A i \in DOMAIN stored : IsOutcome(stored[i], Range(log)) /\ stored[i].task_id = i
RepliesOK ==
    \A q \in DOMAIN pending :
        /\ \E p \in Callers : asking[p].op = "request" /\ q = <<"reply", asking[p].id>>
        /\ pending[q] # None => /\ pending[q] \in {"SUCCESS", "FAILURE"}
                                /\ Last(q) \in Nat /\ Logged(Last(q), pending[q], Range(log))

\* Every message that is processed, every effect that is left to do, and every outcome
\* that is stored or answered is one of the test's own.
TestInv ==
    /\ StacksOK /\ CallersOK /\ RequestsOK /\ LogOK /\ ResultsOK /\ RepliesOK
    /\ calls \in 0..MaxCalls

\* What has been told stays told, and an id that was generated stays so.
LEMMA OutcomeStays ==
    ASSUME NEW r, NEW done, NEW more, done \subseteq more, IsOutcome(r, done)
    PROVE  IsOutcome(r, more)
BY DEF IsOutcome, Logged

LEMMA PastStays ==
    ASSUME NEW id, NEW n \in Nat, NEW k \in Nat, n <= k, Past(id, n)
    PROVE  Past(id, k)
BY DEF Past

LEMMA EffectStays ==
    ASSUME NEW x, NEW done, NEW more, done \subseteq more, NEW n \in Nat, NEW k \in Nat, n <= k,
           IsEffect(x, done, n)
    PROVE  IsEffect(x, more, k)
BY OutcomeStays, PastStays DEF IsEffect, IsCommand

LEMMA FramesStay ==
    ASSUME NEW s, NEW done, NEW more, done \subseteq more, NEW n \in Nat, NEW k \in Nat, n <= k, NEW m,
           Frames(s, done, n, m)
    PROVE  Frames(s, more, k, m)
<1>1. ASSUME NEW f \in Range(s) PROVE IsFrame(f, more, k, m)
  <2>1. IsFrame(f, done, n, m)
    BY DEF Frames
  <2>2. IsMessage(f.msg, k)
    BY <2>1, PastStays DEF IsFrame, IsMessage
  <2>3. AllEffects(f.agenda, more, k)
    BY <2>1, EffectStays DEF IsFrame, AllEffects
  <2> QED BY <2>1, <2>2, <2>3 DEF IsFrame
<1> QED BY <1>1 DEF Frames

LEMMA FramesTop ==
    ASSUME NEW s, NEW done, NEW n, NEW m, Frames(s, done, n, m), s # <<>>, NEW f, IsFrame(f, done, n, m)
    PROVE  /\ IsFrame(Last(s), done, n, m) /\ Frames(Front(s), done, n, m)
           /\ Frames(Append(Front(s), f), done, n, m) /\ Append(Front(s), f) # <<>>
<1>1. s \in Seq(Range(s))
  BY DEF Frames, Sequence
<1> QED BY <1>1, HeldByTop, HeldByNewTop DEF Frames, Sequence

LEMMA FramesMore ==
    ASSUME NEW s, NEW done, NEW n, NEW m, Frames(s, done, n, m), NEW f, IsFrame(f, done, n, m)
    PROVE  Frames(Append(s, f), done, n, m) /\ Append(s, f) # <<>>
BY HeldByMore DEF Frames, Sequence

LEMMA NoFrames == ASSUME NEW done, NEW n, NEW m PROVE Frames(<<>>, done, n, m)
BY HeldByNone DEF Frames, Sequence

\* What is asked for is a command that the fake makes a message of.
LEMMA OrderCommand ==
    ASSUME EndpointsOK, NEW order \in Orders, order.endpoint <= Len(publishers), NEW id,
           NEW type \in {"PUBLISH", "REQUEST"}
    PROVE  /\ Chosen(CommandOf(order, type, id).headers) /\ Written(CommandOf(order, type, id).body)
           /\ {"body", "headers", "reply_to"} \subseteq DOMAIN CommandOf(order, type, id)
           /\ CommandOf(order, type, id).correlation_id = id
<1> DEFINE p == publishers[order.endpoint]
           more == [exchange |-> order.exchange, routing_key |-> order.routing_key,
                    headers |-> order.headers, correlation_id |-> id, reply_to |-> order.reply_to]
           options == [exchange |-> Or(order.exchange, p.exchange),
                       routing_key |-> Or(order.routing_key, p.routing_key),
                       headers |-> Override(p.headers, order.headers),
                       correlation_id |-> id, reply_to |-> Or(order.reply_to, p.reply_to)]
           direct == Command(order.body, "PUBLISH", order.queue, more)
           routed == Command(order.body, "PUBLISH", Or(order.queue, PublisherQueue(p)), options)
<1>1. order.endpoint \in Nat /\ Chosen(order.headers) /\ Written(order.body)
  BY OrderAssumption
<1>2. BrokerPublish(order, id) = direct /\ EndpointPublish(p, order, id) = routed
  BY DEF BrokerPublish, EndpointPublish
<1>3. DOMAIN more = {"exchange", "routing_key", "headers", "correlation_id", "reply_to"}
      /\ DOMAIN options = {"exchange", "routing_key", "headers", "correlation_id", "reply_to"}
      /\ more.headers = order.headers /\ options.headers = Override(p.headers, order.headers)
      /\ more.correlation_id = id /\ options.correlation_id = id
  OBVIOUS
<1> HIDE DEF more, options
<1>4. /\ direct.body = order.body /\ direct.headers = order.headers
      /\ routed.body = order.body /\ routed.headers = Override(p.headers, order.headers)
      /\ DOMAIN direct = {"body", "type", "queue", "exchange", "routing_key", "declare", "headers",
                          "correlation_id", "reply_to"}
      /\ DOMAIN routed = DOMAIN direct
      /\ direct.correlation_id = id /\ routed.correlation_id = id
  BY <1>3, CommandFields
<1> HIDE DEF direct, routed
<1>5. /\ BrokerRequest(order, id) = [direct EXCEPT !.type = "REQUEST", !.reply_to = None]
      /\ EndpointRequest(p, order, id) = [routed EXCEPT !.type = "REQUEST", !.reply_to = None]
  BY <1>2 DEF BrokerRequest, EndpointRequest
<1>6. CASE order.endpoint = 0
  <2>1. CommandOf(order, type, id) \in {direct, BrokerRequest(order, id)}
    BY <1>2, <1>6 DEF CommandOf
  <2> QED BY <1>1, <1>4, <1>5, <2>1
<1>7. CASE order.endpoint # 0
  <2>1. CommandOf(order, type, id) \in {routed, EndpointRequest(p, order, id)}
    BY <1>2, <1>7 DEF CommandOf
  <2>2. p \in Range(publishers)
    BY <1>1, <1>7, HeldIn DEF EndpointsOK, Decorators, Sequence
  <2>3. Chosen(p.headers)
    BY <2>2 DEF EndpointsOK, Decorators
  <2>4. Chosen(Override(p.headers, order.headers))
    BY <1>1, <2>3 DEF Chosen, Override
  <2> QED BY <1>1, <1>4, <1>5, <2>1, <2>4
<1> QED BY <1>6, <1>7

\* A handler that is found is one that was declared.
LEMMA HandlerFound ==
    ASSUME EndpointsOK, NEW queue, NEW msg, find_handler(queue, msg) # None
    PROVE  find_handler(queue, msg) \in 1..Len(subscribers)
<1> DEFINE exact == {i \in Candidates(queue) : subscribers[i].task = Task(msg)}
           rest  == {i \in Candidates(queue) : subscribers[i].task = None}
<1>1. Len(subscribers) \in Nat
  BY DEF EndpointsOK, Sequence
<1>2. exact \subseteq 1..Len(subscribers) /\ rest \subseteq 1..Len(subscribers)
  BY DEF Candidates
<1>3. find_handler(queue, msg) = IF exact # {} THEN Min(exact) ELSE IF rest # {} THEN Min(rest) ELSE None
  BY DEF find_handler
<1> HIDE DEF exact, rest
<1>4. exact \subseteq Nat /\ rest \subseteq Nat
  BY <1>1, <1>2
<1>5. (exact # {} => Min(exact) \in exact) /\ (rest # {} => Min(rest) \in rest)
  BY <1>4, MinIn
<1> QED BY <1>2, <1>3, <1>5

LEMMA NewFrame ==
    ASSUME NEW msg, NEW s, NEW done, NEW n, NEW m, IsMessage(msg, n), s \in 1..m
    PROVE  IsFrame(Frame(msg, s), done, n, m)
BY NoEffects DEF Frame, IsFrame

\* Nothing of what is already there is disturbed by a new id.
LEMMA OthersStay ==
    ASSUME TestInv, ids \in Nat, ids' \in {ids, ids + 1}, subscribers' = subscribers, log' = log
    PROVE  /\ \A c \in Callers \cup Tasks : Frames(stack[c], Range(log)', ids', Len(subscribers)')
           /\ LogOK' /\ (stored' = stored => ResultsOK')
           /\ ids' \in Nat /\ [op : {"idle", "publish", "request"}, id : 0..ids] \subseteq
                              [op : {"idle", "publish", "request"}, id : 0..ids']
<1>1. ids' \in Nat /\ ids <= ids' /\ 0..ids \subseteq 0..ids'
  OBVIOUS
<1>2. \A c \in Callers \cup Tasks : Frames(stack[c], Range(log)', ids', Len(subscribers)')
  BY <1>1, FramesStay DEF TestInv, StacksOK
<1>3. LogOK'
  BY <1>1, PastStays DEF TestInv, LogOK
<1>4. stored' = stored => ResultsOK'
  BY DEF TestInv, ResultsOK
<1> QED BY <1>1, <1>2, <1>3, <1>4

LEMMA PublishStep ==
    ASSUME DeclInv, TestInv, NEW p \in Callers, CallPublish(p)
    PROVE  TestInv'
<1>1. PICK order \in Callable :
        LET cmd == CommandOf(order, "PUBLISH", ids + 1)
            msg == build_message(cmd, ids + 1, Now)
            handler == find_handler(cmd.queue, msg)
        IN  /\ ids' = ids + 1
            /\ IF handler = None
               THEN /\ asking' = [asking EXCEPT ![p] = [op |-> "idle", id |-> ids + 1]]
                    /\ answer' = [answer EXCEPT ![p] = "raised"]
                    /\ UNCHANGED stack
               ELSE /\ asking' = [asking EXCEPT ![p] = [op |-> "publish", id |-> ids + 1]]
                    /\ answer' = [answer EXCEPT ![p] = "none"]
                    /\ stack' = [stack EXCEPT ![p] = <<Frame(msg, handler)>>]
  BY DEF CallPublish
<1>2. /\ asking[p].op = "idle" /\ calls < MaxCalls /\ calls' = calls + 1
      /\ UNCHANGED <<app, declared, configs, subscribers, publishers, windows, mode, backend, stored,
                     snapshot, log, pending, requests>>
  BY DEF CallPublish, Calling, declVars
<1> DEFINE cmd == CommandOf(order, "PUBLISH", ids + 1)
           msg == build_message(cmd, ids + 1, Now)
           handler == find_handler(cmd.queue, msg)
           m == Len(subscribers)
           frame == Frame(msg, handler)
<1>3. ids \in Nat /\ ids' = ids + 1 /\ ids + 1 # None /\ EndpointsOK /\ DOMAIN stack = Callers \cup Tasks
  BY <1>1, NoneAssumption DEF DeclInv, TestInv, StacksOK
<1>4. /\ \A c \in Callers \cup Tasks : Frames(stack[c], Range(log)', ids', Len(subscribers)')
      /\ LogOK' /\ ResultsOK' /\ [op : {"idle", "publish", "request"}, id : 0..ids] \subseteq
                                 [op : {"idle", "publish", "request"}, id : 0..ids']
  BY <1>2, <1>3, OthersStay
<1>5. handler # None => Frames(<<frame>>, Range(log)', ids', Len(subscribers)') /\ <<frame>> # <<>>
  <2>1. order \in Orders /\ order.endpoint <= Len(publishers)
    BY DEF Callable
  <2>2. Chosen(cmd.headers) /\ Written(cmd.body)
    BY <1>3, <2>1, OrderCommand
  <2>3. Past(ids + 1, ids + 1)
    BY <1>3 DEF Past
  <2>4. IsMessage(msg, ids')
    <3> HIDE DEF cmd
    <3> QED BY <1>3, <2>2, <2>3, MessageOf
  <2>5. handler # None => handler \in 1..Len(subscribers)
    <3> HIDE DEF cmd, msg
    <3> QED BY <1>3, HandlerFound
  <2> HIDE DEF cmd, msg, handler
  <2>6. handler # None => IsFrame(frame, Range(log)', ids', Len(subscribers)')
    BY <1>2, <2>4, <2>5, NewFrame
  <2> HIDE DEF frame
  <2> QED BY <2>6, HeldByOne DEF Frames, Sequence
<1>6. \/ /\ asking' = [asking EXCEPT ![p] = [op |-> "idle", id |-> ids + 1]]
         /\ answer' = [answer EXCEPT ![p] = "raised"] /\ stack' = stack
      \/ /\ asking' = [asking EXCEPT ![p] = [op |-> "publish", id |-> ids + 1]]
         /\ answer' = [answer EXCEPT ![p] = "none"]
         /\ stack' = [stack EXCEPT ![p] = <<frame>>] /\ handler # None
  BY <1>1
<1> HIDE DEF cmd, msg, handler, frame
<1>7. StacksOK'
  <2>1. DOMAIN stack' = Callers \cup Tasks
    BY <1>3, <1>6
  <2>2. \A c \in Callers \cup Tasks : stack'[c] = stack[c] \/ (stack'[c] = <<frame>> /\ handler # None)
    BY <1>3, <1>6
  <2> QED BY <1>4, <1>5, <2>1, <2>2 DEF StacksOK
<1>8. CallersOK'
  <2>1. asking' \in [Callers -> [op : {"idle", "publish", "request"}, id : 0..ids']]
    <3>1. ids + 1 \in 0..ids'
      BY <1>3
    <3>2. asking \in [Callers -> [op : {"idle", "publish", "request"}, id : 0..ids']]
      BY <1>4 DEF TestInv, CallersOK
    <3> QED BY <1>6, <3>1, <3>2
  <2>2. answer' \in [Callers -> {"none", "ok", "raised", "SUCCESS", "FAILURE"}]
    BY <1>6 DEF TestInv, CallersOK
  <2>3. ASSUME NEW q \in Callers PROVE stack'[q] # <<>> <=> asking'[q].op = "publish"
    <3>1. asking \in [Callers -> [op : {"idle", "publish", "request"}, id : 0..ids]]
          /\ (stack[q] # <<>> <=> asking[q].op = "publish") /\ (stack[p] # <<>> <=> asking[p].op = "publish")
      BY DEF TestInv, CallersOK
    <3>2. <<frame>> # <<>>
      OBVIOUS
    <3>3. CASE q # p
      <4>1. stack'[q] = stack[q] /\ asking'[q] = asking[q]
        BY <1>3, <1>6, <3>1, <3>3
      <4> QED BY <3>1, <4>1
    <3>4. CASE q = p
      <4>1. \/ asking'[p].op = "idle" /\ stack'[p] = stack[p]
            \/ asking'[p].op = "publish" /\ stack'[p] = <<frame>>
        BY <1>3, <1>6, <3>1
      <4> QED BY <1>2, <3>1, <3>2, <3>4, <4>1
    <3> QED BY <3>3, <3>4
  <2>4. ASSUME NEW q \in Callers PROVE asking'[q].op # "idle" => answer'[q] = "none"
    <3>1. /\ asking \in [Callers -> [op : {"idle", "publish", "request"}, id : 0..ids]]
          /\ answer \in [Callers -> {"none", "ok", "raised", "SUCCESS", "FAILURE"}]
          /\ asking[q].op # "idle" => answer[q] = "none"
      BY DEF TestInv, CallersOK
    <3>2. CASE q = p
      BY <1>6, <3>1, <3>2
    <3>3. CASE q # p
      BY <1>6, <3>1, <3>3
    <3> QED BY <3>2, <3>3
  <2> QED BY <2>1, <2>2, <2>3, <2>4 DEF CallersOK
<1>9. RequestsOK'
  <2>1. \A n \in Tasks : stack'[n] = stack[n]
    BY <1>3, <1>6, CallerAssumption
  <2> QED BY <1>2, <2>1 DEF TestInv, RequestsOK
<1>10. RepliesOK'
  <2>1. \A q \in Callers : asking[q].op = "request" => asking'[q] = asking[q]
    BY <1>2, <1>6 DEF TestInv, CallersOK
  <2> QED BY <1>2, <2>1 DEF TestInv, RepliesOK
<1>11. calls' \in 0..MaxCalls
  BY <1>2, BoundAssumption DEF TestInv
<1> QED BY <1>4, <1>7, <1>8, <1>9, <1>10, <1>11 DEF TestInv

\* What a request publishes.
Requested(order, id) ==
    IF backend = "memory" THEN CommandOf(order, "REQUEST", id)
    ELSE [CommandOf(order, "REQUEST", id) EXCEPT !.reply_to = <<"reply", id>>]
RequestedMessage(order, id) == build_message(Requested(order, id), id, Now)

LEMMA RequestedIsMessage ==
    ASSUME DeclInv, NEW order \in Orders, order.endpoint <= Len(publishers), NEW id, NEW n, id # None, Past(id, n)
    PROVE  IsMessage(RequestedMessage(order, id), n)
<1> DEFINE cmd == CommandOf(order, "REQUEST", id)
<1>1. /\ Chosen(cmd.headers) /\ Written(cmd.body)
      /\ {"body", "headers", "reply_to"} \subseteq DOMAIN cmd
  BY OrderCommand DEF DeclInv
<1>2. Requested(order, id) \in {cmd, [cmd EXCEPT !.reply_to = <<"reply", id>>]}
  BY DEF Requested
<1> HIDE DEF cmd
<1>3. Chosen(Requested(order, id).headers) /\ Written(Requested(order, id).body)
  BY <1>1, <1>2
<1> QED BY <1>3, MessageOf DEF RequestedMessage

\* The steps of a request: it is asked for, and a task runs if there is a handler.
LEMMA RequestParts ==
    ASSUME NEW p \in Callers, CallRequest(p)
    PROVE  \E order \in Callable, id \in {ids + 1} :
             LET msg == RequestedMessage(order, id)
                 handler == find_handler(Requested(order, id).queue, msg)
                 free == {n \in Tasks : requests[n] = "none"}
             IN /\ order \in Orders /\ order.endpoint <= Len(publishers)
                /\ ids' = id
                /\ asking[p].op = "idle" /\ mode = "testing" /\ calls < MaxCalls /\ calls' = calls + 1
                /\ UNCHANGED <<declVars, mode, backend, stored, snapshot, log>>
                /\ pending' = IF backend = "memory" THEN pending
                              ELSE Override(pending, [q \in {<<"reply", id>>} |-> None])
                /\ asked' = Override(asked, [i \in {id} |-> order])
                /\ asking' = [asking EXCEPT ![p] = [op |-> "request", id |-> id]]
                /\ answer' = [answer EXCEPT ![p] = "none"]
                /\ \/ handler = None /\ UNCHANGED <<stack, requests>>
                   \/ /\ handler # None /\ free # {}
                      /\ requests' = [requests EXCEPT ![Min(free)] = "running"]
                      /\ stack' = [stack EXCEPT ![Min(free)] = <<Frame(msg, handler)>>]
<1>1. /\ asking[p].op = "idle" /\ mode = "testing" /\ calls < MaxCalls /\ calls' = calls + 1
      /\ UNCHANGED <<declVars, mode, backend, stored, snapshot, log>>
  BY DEF CallRequest, Calling
<1>2. PICK order \in Callable :
          LET id    == ids + 1
              plain == CommandOf(order, "REQUEST", id)
              reply == <<"reply", id>>
              cmd   == IF backend = "memory" THEN plain ELSE [plain EXCEPT !.reply_to = reply]
              msg   == build_message(cmd, id, Now)
              handler == find_handler(cmd.queue, msg)
              free  == {n \in Tasks : requests[n] = "none"}
          IN  /\ ids' = id
              /\ pending' = IF backend = "memory" THEN pending
                            ELSE Override(pending, [q \in {reply} |-> None])
              /\ asked' = Override(asked, [i \in {id} |-> order])
              /\ asking' = [asking EXCEPT ![p] = [op |-> "request", id |-> id]]
              /\ answer' = [answer EXCEPT ![p] = "none"]
              /\ IF handler = None THEN UNCHANGED <<stack, requests>>
                 ELSE /\ free # {}
                      /\ requests' = [requests EXCEPT ![Min(free)] = "running"]
                      /\ stack' = [stack EXCEPT ![Min(free)] = <<Frame(msg, handler)>>]
  BY Zenon DEF CallRequest
<1>3. order \in Orders /\ order.endpoint <= Len(publishers)
  BY DEF Callable
<1> QED BY <1>1, <1>2, <1>3, Zenon DEF Requested, RequestedMessage

LEMMA RequestStep ==
    ASSUME DeclInv, TestInv, NEW p \in Callers, CallRequest(p)
    PROVE  TestInv'
<1> DEFINE id == ids + 1
           free == {n \in Tasks : requests[n] = "none"}
           n == Min(free)
<1>1. PICK order \in Callable :
        LET msg == RequestedMessage(order, id)
            handler == find_handler(Requested(order, id).queue, msg)
        IN /\ order \in Orders /\ order.endpoint <= Len(publishers)
           /\ ids' = id
           /\ asking[p].op = "idle" /\ mode = "testing" /\ calls < MaxCalls /\ calls' = calls + 1
           /\ UNCHANGED <<declVars, mode, backend, stored, snapshot, log>>
           /\ pending' = IF backend = "memory" THEN pending
                         ELSE Override(pending, [q \in {<<"reply", id>>} |-> None])
           /\ asked' = Override(asked, [i \in {id} |-> order])
           /\ asking' = [asking EXCEPT ![p] = [op |-> "request", id |-> id]]
           /\ answer' = [answer EXCEPT ![p] = "none"]
           /\ \/ handler = None /\ UNCHANGED <<stack, requests>>
              \/ /\ handler # None /\ free # {}
                 /\ requests' = [requests EXCEPT ![n] = "running"]
                 /\ stack' = [stack EXCEPT ![n] = <<Frame(msg, handler)>>]
  BY RequestParts, Zenon
<1> DEFINE msg == RequestedMessage(order, id)
           handler == find_handler(Requested(order, id).queue, msg)
           frame == Frame(msg, handler)
<1>2. /\ ids \in Nat /\ id # None /\ EndpointsOK /\ DOMAIN stack = Callers \cup Tasks
      /\ subscribers' = subscribers /\ log' = log /\ stored' = stored /\ ids' = ids + 1
  BY <1>1, NoneAssumption DEF DeclInv, TestInv, StacksOK, declVars
<1>3. /\ \A c \in Callers \cup Tasks : Frames(stack[c], Range(log)', ids', Len(subscribers)')
      /\ LogOK' /\ ResultsOK' /\ [op : {"idle", "publish", "request"}, id : 0..ids] \subseteq
                                 [op : {"idle", "publish", "request"}, id : 0..ids']
  BY <1>2, OthersStay
<1>4. handler # None => Frames(<<frame>>, Range(log)', ids', Len(subscribers)') /\ <<frame>> # <<>>
  <2>1. IsMessage(msg, ids')
    <3>1. Past(id, ids')
      BY <1>2 DEF Past
    <3> QED BY <1>1, <1>2, <3>1, RequestedIsMessage
  <2>2. handler # None => handler \in 1..Len(subscribers)
    <3> HIDE DEF msg
    <3> QED BY <1>2, HandlerFound
  <2> HIDE DEF msg, handler
  <2>3. handler # None => IsFrame(frame, Range(log)', ids', Len(subscribers)')
    BY <1>2, <2>1, <2>2, NewFrame
  <2> HIDE DEF frame
  <2> QED BY <2>3, HeldByOne DEF Frames, Sequence
<1>5. \/ UNCHANGED <<stack, requests>>
      \/ /\ handler # None /\ n \in Tasks /\ requests[n] = "none"
         /\ requests' = [requests EXCEPT ![n] = "running"]
         /\ stack' = [stack EXCEPT ![n] = <<frame>>]
  <2>1. free \subseteq Nat
    BY BoundAssumption DEF Tasks
  <2>2. free # {} => n \in free
    <3> HIDE DEF free
    <3> QED BY <2>1, MinIn
  <2> HIDE DEF msg, handler
  <2> QED BY <1>1, <2>2 DEF msg, handler
<1> HIDE DEF msg, handler, frame, n, free
<1>6. StacksOK'
  <2>1. DOMAIN stack' = Callers \cup Tasks
    BY <1>2, <1>5
  <2>2. \A c \in Callers \cup Tasks : stack'[c] = stack[c] \/ (stack'[c] = <<frame>> /\ handler # None)
    BY <1>2, <1>5
  <2> QED BY <1>3, <1>4, <2>1, <2>2 DEF StacksOK
<1>7. \A c \in Callers : stack'[c] = stack[c]
  BY <1>2, <1>5, CallerAssumption
<1>8. CallersOK'
  <2>1. id \in 0..ids' /\ asking \in [Callers -> [op : {"idle", "publish", "request"}, id : 0..ids']]
    BY <1>2, <1>3 DEF TestInv, CallersOK
  <2>2. asking' \in [Callers -> [op : {"idle", "publish", "request"}, id : 0..ids']]
    BY <1>1, <2>1
  <2>3. answer' \in [Callers -> {"none", "ok", "raised", "SUCCESS", "FAILURE"}]
    BY <1>1 DEF TestInv, CallersOK
  <2>4. ASSUME NEW q \in Callers PROVE stack'[q] # <<>> <=> asking'[q].op = "publish"
    <3>1. (stack[q] # <<>> <=> asking[q].op = "publish") /\ stack'[q] = stack[q]
      BY <1>7 DEF TestInv, CallersOK
    <3>2. CASE q # p
      BY <1>1, <2>1, <3>1, <3>2
    <3>3. CASE q = p
      <4>1. asking'[p].op = "request"
        BY <1>1, <2>1
      <4> QED BY <1>1, <3>1, <3>3, <4>1
    <3> QED BY <3>2, <3>3
  <2>5. ASSUME NEW q \in Callers PROVE asking'[q].op # "idle" => answer'[q] = "none"
    <3>1. answer \in [Callers -> {"none", "ok", "raised", "SUCCESS", "FAILURE"}]
          /\ (asking[q].op # "idle" => answer[q] = "none")
      BY DEF TestInv, CallersOK
    <3>2. CASE q = p
      BY <1>1, <3>1, <3>2
    <3>3. CASE q # p
      BY <1>1, <2>1, <3>1, <3>3
    <3> QED BY <3>2, <3>3
  <2> QED BY <2>2, <2>3, <2>4, <2>5 DEF CallersOK
<1>9. RequestsOK'
  <2>1. requests' \in [Tasks -> {"none", "running", "ok", "raised", "cancelled"}]
    BY <1>5 DEF TestInv, RequestsOK
  <2>2. ASSUME NEW k \in Tasks PROVE stack'[k] # <<>> <=> requests'[k] = "running"
    <3>1. (stack[k] # <<>> <=> requests[k] = "running") /\ requests \in [Tasks -> {"none", "running", "ok", "raised", "cancelled"}]
      BY DEF TestInv, RequestsOK
    <3>2. CASE UNCHANGED <<stack, requests>>
      BY <3>1, <3>2
    <3>3. CASE requests' = [requests EXCEPT ![n] = "running"] /\ stack' = [stack EXCEPT ![n] = <<frame>>] /\ handler # None
      <4>1. CASE k = n
        BY <1>2, <1>4, <3>1, <3>3, <4>1
      <4>2. CASE k # n
        BY <1>2, <3>1, <3>3, <4>2
      <4> QED BY <4>1, <4>2
    <3> QED BY <1>5, <3>2, <3>3
  <2> QED BY <1>1, <2>1, <2>2 DEF TestInv, RequestsOK
<1>10. RepliesOK'
  <2>1. \A q \in Callers : asking[q].op = "request" => asking'[q] = asking[q]
    BY <1>1 DEF TestInv, CallersOK
  <2>2. CASE pending' = pending
    BY <1>2, <2>1, <2>2 DEF TestInv, RepliesOK
  <2>3. CASE pending' = Override(pending, [q \in {<<"reply", id>>} |-> None])
    <3>1. /\ DOMAIN pending' = DOMAIN pending \cup {<<"reply", id>>} /\ pending'[<<"reply", id>>] = None
          /\ \A q \in DOMAIN pending \ {<<"reply", id>>} : pending'[q] = pending[q]
      BY <2>3 DEF Override
    <3>2. asking'[p].op = "request" /\ asking'[p].id = id
      BY <1>1 DEF TestInv, CallersOK
    <3> HIDE DEF id
    <3> QED BY <1>2, <2>1, <3>1, <3>2 DEF TestInv, RepliesOK
  <2> QED BY <1>1, <2>2, <2>3
<1>11. calls' \in 0..MaxCalls
  BY <1>1, BoundAssumption DEF TestInv
<1> QED BY <1>3, <1>6, <1>8, <1>9, <1>10, <1>11 DEF TestInv

LEMMA ReturnStep ==
    ASSUME DeclInv, TestInv, NEW p \in Callers, Return(p)
    PROVE  TestInv'
<1>1. /\ asking[p].op = "request"
      /\ \/ /\ ReplyQueue(p) \in DOMAIN pending /\ pending[ReplyQueue(p)] # None
            /\ answer' = [answer EXCEPT ![p] = pending[ReplyQueue(p)]]
         \/ /\ asking[p].id \in DOMAIN stored
            /\ answer' = [answer EXCEPT ![p] = stored[asking[p].id].status]
         \/ answer' = [answer EXCEPT ![p] = "raised"]
      /\ asking' = [asking EXCEPT ![p].op = "idle"]
      /\ pending' = [q \in DOMAIN pending \ {ReplyQueue(p)} |-> pending[q]]
      /\ UNCHANGED <<subscribers, stored, stack, requests, snapshot, ids, log, calls>>
  BY DEF Return, Waits, declVars
<1>2. StacksOK' /\ RequestsOK' /\ LogOK' /\ ResultsOK' /\ calls' \in 0..MaxCalls
  BY <1>1 DEF TestInv, StacksOK, RequestsOK, LogOK, ResultsOK
<1>3. CallersOK'
  <2>1. asking' \in [Callers -> [op : {"idle", "publish", "request"}, id : 0..ids']]
    BY <1>1 DEF TestInv, CallersOK
  <2>2. answer' \in [Callers -> {"none", "ok", "raised", "SUCCESS", "FAILURE"}]
    <3>1. answer \in [Callers -> {"none", "ok", "raised", "SUCCESS", "FAILURE"}]
      BY DEF TestInv, CallersOK
    <3>2. ReplyQueue(p) \in DOMAIN pending /\ pending[ReplyQueue(p)] # None
          => pending[ReplyQueue(p)] \in {"SUCCESS", "FAILURE"}
      BY DEF TestInv, RepliesOK
    <3>3. asking[p].id \in DOMAIN stored => stored[asking[p].id].status \in {"SUCCESS", "FAILURE"}
      BY DEF TestInv, ResultsOK, IsOutcome
    <3> QED BY <1>1, <3>1, <3>2, <3>3
  <2>3. ASSUME NEW q \in Callers PROVE stack'[q] # <<>> <=> asking'[q].op = "publish"
    BY <1>1 DEF TestInv, CallersOK
  <2>4. ASSUME NEW q \in Callers PROVE asking'[q].op # "idle" => answer'[q] = "none"
    <3>1. CASE q = p
      BY <1>1, <3>1 DEF TestInv, CallersOK
    <3>2. CASE q # p
      BY <1>1, <3>2 DEF TestInv, CallersOK
    <3> QED BY <3>1, <3>2
  <2> QED BY <2>1, <2>2, <2>3, <2>4 DEF CallersOK
<1>4. RepliesOK'
  <2> SUFFICES ASSUME NEW q \in DOMAIN pending'
               PROVE  /\ \E c \in Callers : asking'[c].op = "request" /\ q = <<"reply", asking'[c].id>>
                      /\ pending'[q] # None => /\ pending'[q] \in {"SUCCESS", "FAILURE"}
                                               /\ Last(q) \in Nat /\ Logged(Last(q), pending'[q], Range(log)')
    BY DEF RepliesOK
  <2>1. q \in DOMAIN pending /\ q # ReplyQueue(p) /\ pending'[q] = pending[q]
    BY <1>1
  <2>2. PICK c \in Callers : asking[c].op = "request" /\ q = <<"reply", asking[c].id>>
    BY <2>1 DEF TestInv, RepliesOK
  <2>3. c # p
    BY <2>1, <2>2 DEF ReplyQueue
  <2>4. asking'[c] = asking[c]
    BY <1>1, <2>3 DEF TestInv, CallersOK
  <2> QED BY <1>1, <2>1, <2>2, <2>4 DEF TestInv, RepliesOK
<1> QED BY <1>2, <1>3, <1>4 DEF TestInv

\* An exception leaves everything the coroutine is processing, and nothing of others.
LEMMA EndsStep ==
    ASSUME DeclInv, TestInv, NEW c \in Callers \cup Tasks, stack[c] # <<>>, NEW how \in {"ok", "raised"},
           Ends(c, how), ids' \in {ids, ids + 1}, UNCHANGED <<subscribers, log, snapshot, pending>>
    PROVE  StacksOK' /\ CallersOK' /\ RequestsOK' /\ RepliesOK'
<1>1. /\ stack' = [stack EXCEPT ![c] = <<>>]
      /\ \/ c \in Tasks /\ requests' = [requests EXCEPT ![c] = how] /\ UNCHANGED <<asking, answer>>
         \/ /\ c \in Callers /\ asking' = [asking EXCEPT ![c].op = "idle"]
            /\ answer' = [answer EXCEPT ![c] = how] /\ UNCHANGED requests
  BY DEF Ends
<1>2. ids \in Nat /\ DOMAIN stack = Callers \cup Tasks
  BY DEF DeclInv, TestInv, StacksOK
<1>3. /\ \A d \in Callers \cup Tasks : Frames(stack[d], Range(log)', ids', Len(subscribers)')
      /\ [op : {"idle", "publish", "request"}, id : 0..ids] \subseteq
         [op : {"idle", "publish", "request"}, id : 0..ids']
  BY <1>2, OthersStay
<1>4. StacksOK'
  BY <1>1, <1>2, <1>3, NoFrames DEF StacksOK
<1>5. CallersOK'
  <2>1. /\ asking \in [Callers -> [op : {"idle", "publish", "request"}, id : 0..ids']]
        /\ answer \in [Callers -> {"none", "ok", "raised", "SUCCESS", "FAILURE"}]
        /\ \A p \in Callers : stack[p] # <<>> <=> asking[p].op = "publish"
        /\ \A p \in Callers : asking[p].op # "idle" => answer[p] = "none"
    BY <1>3 DEF TestInv, CallersOK
  <2>2. CASE c \in Tasks /\ UNCHANGED <<asking, answer>>
    <3>1. \A p \in Callers : stack'[p] = stack[p]
      BY <1>1, <1>2, <2>2, CallerAssumption
    <3>2. ASSUME NEW p \in Callers
          PROVE  /\ stack'[p] # <<>> <=> asking'[p].op = "publish"
                 /\ asking'[p].op # "idle" => answer'[p] = "none"
      BY <2>1, <2>2, <3>1
    <3>3. /\ asking' \in [Callers -> [op : {"idle", "publish", "request"}, id : 0..ids']]
          /\ answer' \in [Callers -> {"none", "ok", "raised", "SUCCESS", "FAILURE"}]
      BY <2>1, <2>2
    <3> QED BY <3>2, <3>3 DEF CallersOK
  <2>3. CASE c \in Callers /\ asking' = [asking EXCEPT ![c].op = "idle"] /\ answer' = [answer EXCEPT ![c] = how]
    <3>1. /\ asking' \in [Callers -> [op : {"idle", "publish", "request"}, id : 0..ids']]
          /\ answer' \in [Callers -> {"none", "ok", "raised", "SUCCESS", "FAILURE"}]
      BY <2>1, <2>3
    <3>2. ASSUME NEW p \in Callers
          PROVE  /\ stack'[p] # <<>> <=> asking'[p].op = "publish"
                 /\ asking'[p].op # "idle" => answer'[p] = "none"
      <4>1. CASE p = c
        BY <1>1, <1>2, <2>1, <2>3, <4>1
      <4>2. CASE p # c
        BY <1>1, <1>2, <2>1, <2>3, <4>2
      <4> QED BY <4>1, <4>2
    <3> QED BY <3>1, <3>2 DEF CallersOK
  <2> QED BY <1>1, <2>2, <2>3
<1>6. RequestsOK'
  <2>1. requests \in [Tasks -> {"none", "running", "ok", "raised", "cancelled"}]
        /\ \A n \in Tasks : stack[n] # <<>> <=> requests[n] = "running"
    BY DEF TestInv, RequestsOK
  <2>2. CASE c \in Tasks /\ requests' = [requests EXCEPT ![c] = how]
    <3>1. requests' \in [Tasks -> {"none", "running", "ok", "raised", "cancelled"}]
      BY <2>1, <2>2
    <3>2. ASSUME NEW n \in Tasks PROVE stack'[n] # <<>> <=> requests'[n] = "running"
      <4>1. CASE n = c
        BY <1>1, <1>2, <2>1, <2>2, <4>1
      <4>2. CASE n # c
        BY <1>1, <1>2, <2>1, <2>2, <4>2
      <4> QED BY <4>1, <4>2
    <3> QED BY <3>1, <3>2 DEF RequestsOK, TestInv
  <2>3. CASE c \in Callers /\ UNCHANGED requests
    <3>1. \A n \in Tasks : stack'[n] = stack[n]
      BY <1>1, <1>2, <2>3, CallerAssumption
    <3> QED BY <2>1, <2>3, <3>1 DEF RequestsOK, TestInv
  <2> QED BY <1>1, <2>2, <2>3
<1>7. RepliesOK'
  <2>1. \A q \in Callers : asking[q].op = "request" => asking'[q] = asking[q]
    <3>1. c \in Callers => asking[c].op = "publish"
      BY DEF TestInv, CallersOK
    <3> QED BY <1>1, <3>1 DEF TestInv, CallersOK
  <2> QED BY <2>1 DEF TestInv, RepliesOK
<1> QED BY <1>4, <1>5, <1>6, <1>7

\* A step of a coroutine that goes on processing: whether it is, nobody's call is changed.
LEMMA GoesOn ==
    ASSUME DeclInv, TestInv, NEW c \in Callers \cup Tasks, stack[c] # <<>>, NEW s, s # <<>>,
           stack' = [stack EXCEPT ![c] = s], Frames(s, Range(log)', ids', Len(subscribers)'),
           ids' \in {ids, ids + 1}, UNCHANGED <<subscribers, snapshot, requests, asking, answer>>,
           \A d \in Callers \cup Tasks : Frames(stack[d], Range(log)', ids', Len(subscribers)')
    PROVE  StacksOK' /\ CallersOK' /\ RequestsOK'
<1>1. ids \in Nat /\ DOMAIN stack = Callers \cup Tasks
  BY DEF DeclInv, TestInv, StacksOK
<1>2. StacksOK'
  BY <1>1 DEF StacksOK
<1>3. \A d \in Callers \cup Tasks : stack'[d] # <<>> <=> stack[d] # <<>>
  BY <1>1
<1>4. RequestsOK'
  BY <1>3 DEF TestInv, RequestsOK
<1>5. CallersOK'
  <2>1. 0..ids \subseteq 0..ids'
    BY <1>1
  <2>2. asking' \in [Callers -> [op : {"idle", "publish", "request"}, id : 0..ids']]
    BY <2>1 DEF TestInv, CallersOK
  <2> QED BY <1>3, <2>2 DEF TestInv, CallersOK
<1> QED BY <1>2, <1>4, <1>5

\* What a handler that ends leaves in the log, and on top of its stack.
Entry(c, ok) ==
    LET msg == Top(c).msg
        headers == parse_envelope(msg).headers
    IN [id |-> Id(msg), root |-> Or(Get(headers, "root_id"), Id(msg)),
        parent |-> Get(headers, "parent_id"), task |-> Task(msg),
        args |-> parse_envelope(msg).body, ok |-> ok,
        result |-> Result, sub |-> Top(c).sub, by |-> c]
Scope(c, ok) ==
    [Top(c) EXCEPT !.at = "scope", !.raising = ~ok,
                   !.agenda = IF ok THEN SuccessAgenda(Top(c).msg, subscribers[Top(c).sub])
                              ELSE FailureAgenda(Top(c).msg, subscribers[Top(c).sub])]

LEMMA HandleParts ==
    ASSUME NEW c, Handle(c)
    PROVE  /\ stack[c] # <<>> /\ ~Cancelled(c) /\ Top(c).at = "handler"
           /\ \E ok \in BOOLEAN : log' = Append(log, Entry(c, ok)) /\ stack' = [stack EXCEPT ![c] = SetTop(c, Scope(c, ok))]
           /\ UNCHANGED <<declVars, asked, mode, backend, stored, pending, asking, answer, requests, snapshot,
                          ids, calls>>
<1>1. \E ok \in BOOLEAN : log' = Append(log, Entry(c, ok)) /\ stack' = [stack EXCEPT ![c] = SetTop(c, Scope(c, ok))]
  BY Zenon DEF Handle, Entry, Scope
<1> QED BY <1>1 DEF Handle, Processing

\* The frame of a handler that ended, once the log tells it.
LEMMA ScopeFrame ==
    ASSUME DeclInv, TestInv, NEW c \in Callers \cup Tasks, stack[c] # <<>>, NEW ok \in BOOLEAN, NEW done,
           \E e \in done : e.id = Id(Top(c).msg) /\ e.ok = ok
    PROVE  IsFrame(Scope(c, ok), done, ids, Len(subscribers))
<1> DEFINE f == Top(c)
           s == subscribers[f.sub]
           m == Len(subscribers)
           agenda == IF ok THEN SuccessAgenda(f.msg, s) ELSE FailureAgenda(f.msg, s)
<1>1. IsFrame(f, Range(log), ids, m)
  BY FramesTop, HeldByTop DEF TestInv, StacksOK, Top, Frames, Sequence
<1>2. Decorators(s.publishers)
  <2>1. s \in Range(subscribers)
    BY <1>1, HeldIn DEF IsFrame, DeclInv, EndpointsOK, Sequence
  <2> QED BY <2>1 DEF DeclInv, EndpointsOK
<1>3. ok => Logged(Id(f.msg), "SUCCESS", done)
  BY DEF Logged, Outcome
<1>4. ~ok => Logged(Id(f.msg), "FAILURE", done)
  BY DEF Logged, Outcome
<1>5. IsMessage(f.msg, ids)
  BY <1>1 DEF IsFrame
<1>6. AllEffects(agenda, done, ids)
  <2> HIDE DEF f, s
  <2>1. CASE ok
    BY <1>2, <1>3, <1>5, <2>1, SuccessEffects
  <2>2. CASE ~ok
    BY <1>4, <1>5, <2>2, FailureEffects
  <2> QED BY <2>1, <2>2
<1>7. Scope(c, ok) = [f EXCEPT !.at = "scope", !.raising = ~ok, !.agenda = agenda]
  BY Zenon DEF Scope
<1> HIDE DEF f, s, agenda
<1> QED BY <1>1, <1>6, <1>7 DEF IsFrame

LEMMA HandleStep ==
    ASSUME DeclInv, TestInv, NEW c \in Callers \cup Tasks, Handle(c)
    PROVE  TestInv'
<1>1. /\ stack[c] # <<>> /\ Top(c).at = "handler"
      /\ UNCHANGED <<subscribers, asked, mode, backend, stored, pending, asking, answer, requests, snapshot,
                     ids, calls>>
  BY HandleParts DEF declVars
<1>2. PICK ok \in BOOLEAN : log' = Append(log, Entry(c, ok)) /\ stack' = [stack EXCEPT ![c] = SetTop(c, Scope(c, ok))]
  BY HandleParts
<1> DEFINE e == Entry(c, ok)
           m == Len(subscribers)
<1>3. /\ e.id = Id(Top(c).msg) /\ e.ok = ok /\ e.sub = Top(c).sub
  BY DEF Entry
<1>4. IsFrame(Top(c), Range(log), ids, m) /\ ids \in Nat
  BY <1>1, HeldByTop DEF TestInv, StacksOK, Top, Frames, Sequence, DeclInv
<1> HIDE DEF e
<1>5. Sequence(log') /\ Range(log') = Range(log) \cup {e}
  BY <1>2, HeldByMore DEF e, Sequence, TestInv, LogOK
<1>6. LogOK'
  <2>1. e.id # None /\ e.sub \in 1..m /\ Past(e.id, ids)
    BY <1>3, <1>4 DEF IsFrame, IsMessage, Past
  <2> QED BY <1>1, <1>5, <2>1 DEF TestInv, LogOK
<1>7. \A d \in Callers \cup Tasks : Frames(stack[d], Range(log)', ids', Len(subscribers)')
  BY <1>1, <1>4, <1>5, FramesStay DEF TestInv, StacksOK
<1>8. Frames(SetTop(c, Scope(c, ok)), Range(log)', ids', Len(subscribers)') /\ SetTop(c, Scope(c, ok)) # <<>>
  <2>1. IsFrame(Scope(c, ok), Range(log'), ids, m)
    BY <1>1, <1>3, <1>5, ScopeFrame
  <2> QED BY <1>1, <1>7, <2>1, FramesTop DEF SetTop
<1>9. StacksOK' /\ CallersOK' /\ RequestsOK'
  BY <1>1, <1>2, <1>7, <1>8, GoesOn
<1>10. ResultsOK' /\ RepliesOK'
  BY <1>1, <1>5, OutcomeStays DEF TestInv, ResultsOK, RepliesOK, Logged
<1> QED BY <1>1, <1>6, <1>9, <1>10 DEF TestInv

\* What is left of the top once its next effect is taken.
LEMMA RestFrames ==
    ASSUME DeclInv, TestInv, NEW c \in Callers \cup Tasks, stack[c] # <<>>, Top(c).agenda # <<>>
    PROVE  /\ Frames(Rest(c), Range(log), ids, Len(subscribers)) /\ Rest(c) # <<>>
           /\ IsEffect(Head(Top(c).agenda), Range(log), ids) /\ Top(c).at = "scope"
<1> DEFINE f == Top(c)
           m == Len(subscribers)
           g == [f EXCEPT !.agenda = Tail(@)]
<1>1. IsFrame(f, Range(log), ids, m) /\ Frames(stack[c], Range(log), ids, m)
  BY HeldByTop DEF TestInv, StacksOK, Top, Frames, Sequence
<1> HIDE DEF f
<1>2. AllEffects(f.agenda, Range(log), ids) /\ f.agenda # <<>> /\ f.at = "scope"
  BY <1>1 DEF IsFrame, f
<1>3. IsEffect(Head(f.agenda), Range(log), ids) /\ AllEffects(Tail(f.agenda), Range(log), ids)
  BY <1>2, HeldByRest DEF AllEffects, Sequence
<1>4. IsFrame(g, Range(log), ids, m)
  BY <1>1, <1>2, <1>3 DEF IsFrame
<1>5. Rest(c) = Append(Front(stack[c]), g)
  BY DEF Rest, SetTop, f
<1> HIDE DEF g
<1>6. Frames(Rest(c), Range(log), ids, m) /\ Rest(c) # <<>>
  BY <1>1, <1>4, <1>5, FramesTop
<1> QED BY <1>2, <1>3, <1>6 DEF f

\* The message of a command, and where its reply goes.
DeliveryId(cmd) == IF cmd.correlation_id = None THEN ids + 1 ELSE cmd.correlation_id
Delivery(cmd) == build_message(cmd, DeliveryId(cmd), Now)

LEMMA DeliversParts ==
    ASSUME NEW c, NEW cmd, NEW frames, Delivers(c, cmd, frames)
    PROVE  LET handler == find_handler(cmd.queue, Delivery(cmd)) IN
           /\ ids' = IF cmd.correlation_id = None THEN ids + 1 ELSE ids
           /\ \/ /\ cmd.queue \in DOMAIN pending /\ pending' = Told(cmd, Delivery(cmd).body)
                 /\ stack' = [stack EXCEPT ![c] = frames] /\ UNCHANGED <<requests, asking, answer>>
              \/ /\ cmd.queue \notin DOMAIN pending /\ UNCHANGED pending /\ handler # None
                 /\ stack' = [stack EXCEPT ![c] = Append(frames, Frame(Delivery(cmd), handler))]
                 /\ UNCHANGED <<requests, asking, answer>>
              \/ /\ cmd.queue \notin DOMAIN pending /\ UNCHANGED pending /\ handler = None /\ cmd.type = "REPLY"
                 /\ stack' = [stack EXCEPT ![c] = frames] /\ UNCHANGED <<requests, asking, answer>>
              \/ /\ cmd.queue \notin DOMAIN pending /\ UNCHANGED pending /\ handler = None /\ cmd.type # "REPLY"
                 /\ Ends(c, "raised")
BY Zenon DEF Delivers, Delivery, DeliveryId

LEMMA DeliveryIsMessage ==
    ASSUME DeclInv, NEW cmd, NEW done, IsCommand(cmd, done, ids),
           ids' = IF cmd.correlation_id = None THEN ids + 1 ELSE ids
    PROVE  /\ IsMessage(Delivery(cmd), ids') /\ ids' \in Nat /\ ids' \in {ids, ids + 1}
           /\ Delivery(cmd).body = cmd.body \/ DOMAIN Delivery(cmd).body = {"args", "embed"}
<1>1. ids \in Nat /\ ids + 1 # None
  BY NoneAssumption DEF DeclInv
<1>2. DeliveryId(cmd) # None /\ Past(DeliveryId(cmd), ids')
  BY <1>1 DEF DeliveryId, IsCommand, Past
<1>3. IsMessage(Delivery(cmd), ids')
  BY <1>2, MessageOf DEF Delivery, IsCommand
<1>4. Delivery(cmd).body = cmd.body \/ DOMAIN Delivery(cmd).body = {"args", "embed"}
  <2>1. Delivery(cmd).body \in {cmd.body, build_task_envelope(cmd.body, DeliveryId(cmd), Now).body}
    BY DEF Delivery, build_message
  <2>2. DOMAIN build_task_envelope(cmd.body, DeliveryId(cmd), Now).body = {"args", "embed"}
    BY DEF build_task_envelope
  <2> QED BY <2>1, <2>2
<1> QED BY <1>1, <1>3, <1>4

\* A reply is told to the caller that waits for it, and tells what the log tells.
LEMMA ToldIsLogged ==
    ASSUME TestInv, NEW cmd, NEW n, IsCommand(cmd, Range(log), n), cmd.queue \in DOMAIN pending,
           NEW message, message = cmd.body \/ DOMAIN message = {"args", "embed"},
           pending' = Told(cmd, message), UNCHANGED <<asking, log>>
    PROVE  RepliesOK'
<1>1. CASE pending' = pending
  BY <1>1 DEF TestInv, RepliesOK
<1>2. CASE pending' # pending
  <2>1. /\ {"task_id", "status"} \subseteq DOMAIN message
        /\ message.task_id = Last(cmd.queue)
        /\ pending' = [pending EXCEPT ![cmd.queue] = message.status]
    BY <1>2, Zenon DEF Told
  <2>2. message = cmd.body /\ IsOutcome(message, Range(log))
    BY <2>1 DEF IsCommand
  <2>3. PICK p \in Callers : asking[p].op = "request" /\ cmd.queue = <<"reply", asking[p].id>>
    BY DEF TestInv, RepliesOK
  <2>4. Last(cmd.queue) = asking[p].id /\ asking[p].id \in Nat
    <3>1. Last(<<"reply", asking[p].id>>) = asking[p].id
      BY DEF Last
    <3> QED BY <2>3, <3>1 DEF TestInv, CallersOK
  <2>5. message.status \in {"SUCCESS", "FAILURE"} /\ Logged(Last(cmd.queue), message.status, Range(log))
    BY <2>1, <2>2, <2>4 DEF IsOutcome
  <2> QED BY <2>1, <2>4, <2>5 DEF TestInv, RepliesOK
<1> QED BY <1>1, <1>2

LEMMA DeliversStep ==
    ASSUME DeclInv, TestInv, NEW c \in Callers \cup Tasks, stack[c] # <<>>, NEW cmd,
           IsCommand(cmd, Range(log), ids), NEW frames, frames # <<>>,
           Frames(frames, Range(log), ids, Len(subscribers)), Delivers(c, cmd, frames),
           UNCHANGED <<declVars, stored, snapshot, log, calls>>
    PROVE  TestInv'
<1> DEFINE handler == find_handler(cmd.queue, Delivery(cmd))
           m == Len(subscribers)
           frame == Frame(Delivery(cmd), handler)
<1>1. /\ ids' = IF cmd.correlation_id = None THEN ids + 1 ELSE ids
      /\ \/ /\ cmd.queue \in DOMAIN pending /\ pending' = Told(cmd, Delivery(cmd).body)
            /\ stack' = [stack EXCEPT ![c] = frames] /\ UNCHANGED <<requests, asking, answer>>
         \/ /\ UNCHANGED pending /\ handler # None
            /\ stack' = [stack EXCEPT ![c] = Append(frames, frame)]
            /\ UNCHANGED <<requests, asking, answer>>
         \/ /\ UNCHANGED pending
            /\ stack' = [stack EXCEPT ![c] = frames] /\ UNCHANGED <<requests, asking, answer>>
         \/ UNCHANGED pending /\ Ends(c, "raised")
  BY DeliversParts, Zenon
<1>2. /\ IsMessage(Delivery(cmd), ids') /\ ids' \in Nat /\ ids' \in {ids, ids + 1}
      /\ Delivery(cmd).body = cmd.body \/ DOMAIN Delivery(cmd).body = {"args", "embed"}
  BY <1>1, DeliveryIsMessage
<1>3. ids \in Nat /\ UNCHANGED <<subscribers, stored, snapshot, log, calls>> /\ EndpointsOK
  BY DEF declVars, DeclInv
<1>4. /\ \A d \in Callers \cup Tasks : Frames(stack[d], Range(log)', ids', Len(subscribers)')
      /\ LogOK' /\ ResultsOK'
  BY <1>2, <1>3, OthersStay
<1>5. Frames(frames, Range(log)', ids', Len(subscribers)')
  BY <1>2, <1>3, FramesStay
<1>6. handler # None => Frames(Append(frames, frame), Range(log)', ids', Len(subscribers)')
                        /\ Append(frames, frame) # <<>>
  <2>1. handler # None => handler \in 1..m
    BY <1>3, HandlerFound
  <2> HIDE DEF handler
  <2>2. handler # None => IsFrame(frame, Range(log)', ids', Len(subscribers)')
    BY <1>2, <1>3, <2>1, NewFrame
  <2> HIDE DEF frame
  <2> QED BY <1>5, <2>2, FramesMore
<1>7. UNCHANGED pending /\ UNCHANGED asking => RepliesOK'
  BY <1>3 DEF TestInv, RepliesOK
<1> HIDE DEF handler, frame
<1>8. StacksOK' /\ CallersOK' /\ RequestsOK' /\ RepliesOK'
  <2>1. CASE /\ cmd.queue \in DOMAIN pending /\ pending' = Told(cmd, Delivery(cmd).body)
             /\ stack' = [stack EXCEPT ![c] = frames] /\ UNCHANGED <<requests, asking, answer>>
    <3>1. StacksOK' /\ CallersOK' /\ RequestsOK'
      BY <1>2, <1>3, <1>4, <1>5, <2>1, GoesOn
    <3>2. RepliesOK'
      BY <1>2, <1>3, <2>1, ToldIsLogged
    <3> QED BY <3>1, <3>2
  <2>2. CASE /\ UNCHANGED pending /\ handler # None
             /\ stack' = [stack EXCEPT ![c] = Append(frames, frame)] /\ UNCHANGED <<requests, asking, answer>>
    BY <1>2, <1>3, <1>4, <1>6, <1>7, <2>2, GoesOn
  <2>3. CASE /\ UNCHANGED pending
             /\ stack' = [stack EXCEPT ![c] = frames] /\ UNCHANGED <<requests, asking, answer>>
    BY <1>2, <1>3, <1>4, <1>5, <1>7, <2>3, GoesOn
  <2>4. CASE UNCHANGED pending /\ Ends(c, "raised")
    BY <1>2, <1>3, <2>4, EndsStep
  <2> QED BY <1>1, <2>1, <2>2, <2>3, <2>4
<1> QED BY <1>3, <1>4, <1>8 DEF TestInv

LEMMA DoStep ==
    ASSUME DeclInv, TestInv, NEW c \in Callers \cup Tasks, Do(c)
    PROVE  TestInv'
<1> DEFINE effect == Head(Top(c).agenda)
<1>1. /\ stack[c] # <<>> /\ Top(c).agenda # <<>>
      /\ UNCHANGED <<declVars, asked, mode, backend, snapshot, log, calls>>
      /\ \/ /\ Has(effect, "result")
            /\ stored' = Override(stored, [i \in {effect.result.task_id} |-> effect.result])
            /\ stack' = [stack EXCEPT ![c] = Rest(c)]
            /\ UNCHANGED <<pending, asking, answer, requests, ids>>
         \/ /\ Has(effect, "cmd") /\ stored' = stored
            /\ \/ effect.valid /\ Delivers(c, effect.cmd, Rest(c))
               \/ ~effect.valid /\ Ends(c, "raised") /\ UNCHANGED <<pending, ids>>
  BY Zenon DEF Do, Processing
<1>2. /\ Frames(Rest(c), Range(log), ids, Len(subscribers)) /\ Rest(c) # <<>>
      /\ IsEffect(effect, Range(log), ids)
  BY <1>1, RestFrames
<1> HIDE DEF effect
<1>3. CASE /\ Has(effect, "result")
           /\ stored' = Override(stored, [i \in {effect.result.task_id} |-> effect.result])
           /\ stack' = [stack EXCEPT ![c] = Rest(c)]
           /\ UNCHANGED <<pending, asking, answer, requests, ids>>
  <2>1. IsOutcome(effect.result, Range(log))
    BY <1>2, <1>3 DEF IsEffect, Has
  <2>2. ids \in Nat /\ UNCHANGED <<subscribers, snapshot, log>>
    BY <1>1 DEF DeclInv, declVars
  <2>3. (\A d \in Callers \cup Tasks : Frames(stack[d], Range(log)', ids', Len(subscribers)')) /\ LogOK'
    BY <1>3, <2>2, OthersStay
  <2>4. StacksOK' /\ CallersOK' /\ RequestsOK'
    BY <1>1, <1>2, <1>3, <2>2, <2>3, GoesOn
  <2>5. ResultsOK'
    <3> DEFINE id == effect.result.task_id
    <3>1. /\ DOMAIN stored' = DOMAIN stored \cup {id} /\ stored'[id] = effect.result
          /\ \A i \in DOMAIN stored \ {id} : stored'[i] = stored[i]
      BY <1>3 DEF Override
    <3> QED BY <2>1, <2>2, <3>1 DEF TestInv, ResultsOK
  <2>6. RepliesOK'
    BY <1>3, <2>2 DEF TestInv, RepliesOK
  <2> QED BY <1>1, <2>3, <2>4, <2>5, <2>6 DEF TestInv
<1>4. CASE Has(effect, "cmd") /\ stored' = stored /\ Delivers(c, effect.cmd, Rest(c))
  <2>1. IsCommand(effect.cmd, Range(log), ids)
    BY <1>2, <1>4 DEF IsEffect, Has
  <2> QED BY <1>1, <1>2, <1>4, <2>1, DeliversStep
<1>5. CASE stored' = stored /\ Ends(c, "raised") /\ UNCHANGED <<pending, ids>>
  <2>1. UNCHANGED <<subscribers, log, snapshot, pending>> /\ ids' = ids /\ ids \in Nat
    BY <1>1, <1>5 DEF declVars, DeclInv
  <2>2. StacksOK' /\ CallersOK' /\ RequestsOK' /\ RepliesOK'
    BY <1>1, <1>5, <2>1, EndsStep
  <2>3. LogOK' /\ ResultsOK'
    BY <1>5, <2>1, OthersStay
  <2> QED BY <1>1, <2>2, <2>3 DEF TestInv
<1> QED BY <1>1, <1>3, <1>4, <1>5

LEMMA LeaveStep ==
    ASSUME DeclInv, TestInv, NEW c \in Callers \cup Tasks, Leave(c)
    PROVE  TestInv'
<1>1. /\ stack[c] # <<>>
      /\ UNCHANGED <<declVars, asked, mode, backend, stored, pending, snapshot, ids, log, calls>>
      /\ \/ Ends(c, "raised") \/ Ends(c, "ok")
         \/ /\ Len(stack[c]) # 1 /\ stack' = [stack EXCEPT ![c] = Front(@)]
            /\ UNCHANGED <<asking, answer, requests>>
  BY DEF Leave, Processing
<1>2. ids \in Nat /\ ids' = ids /\ UNCHANGED <<subscribers, stored, pending, snapshot, log, calls>>
  BY <1>1 DEF DeclInv, declVars
<1>3. (\A d \in Callers \cup Tasks : Frames(stack[d], Range(log)', ids', Len(subscribers)')) /\ LogOK' /\ ResultsOK'
  BY <1>2, OthersStay
<1>4. CASE Ends(c, "raised") \/ Ends(c, "ok")
  <2>1. StacksOK' /\ CallersOK' /\ RequestsOK' /\ RepliesOK'
    BY <1>1, <1>2, <1>4, EndsStep
  <2> QED BY <1>2, <1>3, <2>1 DEF TestInv
<1>5. CASE /\ Len(stack[c]) # 1 /\ stack' = [stack EXCEPT ![c] = Front(@)]
           /\ UNCHANGED <<asking, answer, requests>>
  <2>1. Frames(stack[c], Range(log)', ids', Len(subscribers)') /\ stack[c] \in Seq(Range(stack[c]))
    BY <1>3 DEF Frames, Sequence
  <2>2. /\ Front(stack[c]) \in Seq(Range(Front(stack[c]))) /\ Range(Front(stack[c])) \subseteq Range(stack[c])
        /\ Len(Front(stack[c])) = Len(stack[c]) - 1 /\ Len(stack[c]) \in Nat \ {0}
    BY <1>1, <2>1, HeldByTop
  <2>3. Frames(Front(stack[c]), Range(log)', ids', Len(subscribers)')
    BY <2>1, <2>2 DEF Frames, Sequence
  <2>4. Front(stack[c]) # <<>>
    BY <1>5, <2>2
  <2>5. stack' = [stack EXCEPT ![c] = Front(stack[c])]
    BY <1>5
  <2>6. StacksOK' /\ CallersOK' /\ RequestsOK'
    BY <1>1, <1>2, <1>3, <1>5, <2>3, <2>4, <2>5, GoesOn
  <2>7. RepliesOK'
    BY <1>2, <1>5 DEF TestInv, RepliesOK
  <2> QED BY <1>2, <1>3, <2>6, <2>7 DEF TestInv
<1> QED BY <1>1, <1>4, <1>5

LEMMA UnwindStep ==
    ASSUME DeclInv, TestInv, NEW n \in Tasks, Unwind(n)
    PROVE  TestInv'
<1>1. /\ requests' = [requests EXCEPT ![n] = "cancelled"] /\ stack' = [stack EXCEPT ![n] = <<>>]
      /\ UNCHANGED <<subscribers, asking, answer, stored, pending, snapshot, ids, log, calls>>
  BY DEF Unwind, declVars
<1>2. DOMAIN stack = Callers \cup Tasks /\ n \in Callers \cup Tasks
  BY DEF TestInv, StacksOK
<1>3. StacksOK'
  BY <1>1, <1>2, NoFrames DEF TestInv, StacksOK
<1>4. RequestsOK'
  <2>1. requests' \in [Tasks -> {"none", "running", "ok", "raised", "cancelled"}]
    BY <1>1 DEF TestInv, RequestsOK
  <2>2. ASSUME NEW k \in Tasks PROVE stack'[k] # <<>> <=> requests'[k] = "running"
    <3>1. CASE k = n
      BY <1>1, <1>2, <3>1 DEF TestInv, RequestsOK
    <3>2. CASE k # n
      BY <1>1, <1>2, <3>2 DEF TestInv, RequestsOK
    <3> QED BY <3>1, <3>2
  <2> QED BY <1>1, <2>1, <2>2 DEF TestInv, RequestsOK
<1>5. CallersOK'
  <2>1. \A p \in Callers : stack'[p] = stack[p]
    BY <1>1, <1>2, CallerAssumption
  <2> QED BY <1>1, <2>1 DEF TestInv, CallersOK
<1>6. LogOK' /\ ResultsOK' /\ RepliesOK' /\ calls' \in 0..MaxCalls
  BY <1>1 DEF TestInv, LogOK, ResultsOK, RepliesOK
<1> QED BY <1>3, <1>4, <1>5, <1>6 DEF TestInv

\* Before the test there is nothing.
LEMMA NotBegunIsFine == NotBegun /\ ids \in Nat => TestInv
<1> SUFFICES ASSUME NotBegun, ids \in Nat PROVE TestInv
  OBVIOUS
<1>1. StacksOK
  BY NoFrames DEF StacksOK, NotBegun
<1>2. CallersOK
  <2>1. \A p \in Callers : stack[p] = <<>> /\ asking[p].op = "idle"
    BY DEF NotBegun
  <2>2. asking \in [Callers -> [op : {"idle", "publish", "request"}, id : 0..ids]]
    BY DEF NotBegun
  <2> QED BY <2>1, <2>2 DEF CallersOK, NotBegun
<1>3. RequestsOK
  BY DEF RequestsOK, NotBegun
<1>4. LogOK
  BY HeldByNone DEF LogOK, NotBegun, Sequence
<1>5. ResultsOK /\ RepliesOK
  <2>1. DOMAIN stored = {} /\ DOMAIN pending = {}
    BY DEF NotBegun, NoHeaders
  <2> QED BY <2>1 DEF ResultsOK, RepliesOK
<1>6. calls \in 0..MaxCalls
  BY BoundAssumption DEF NotBegun
<1> QED BY <1>1, <1>2, <1>3, <1>4, <1>5, <1>6 DEF TestInv

LEMMA NotBegunIsFineNext == (NotBegun /\ ids \in Nat)' => TestInv'
BY NotBegunIsFine, PTL

LEMMA TestNext == DeclInv /\ DeclInv' /\ TestInv /\ [Next]_vars => TestInv'
<1> SUFFICES ASSUME DeclInv, DeclInv', TestInv, [Next]_vars PROVE TestInv'
  OBVIOUS
<1>1. CASE DeclareNext
  <2>1. NotBegun' /\ ids' \in Nat
    BY <1>1 DEF DeclareNext, DeclInv, NotBegun, testVars
  <2> QED BY <2>1, NotBegunIsFineNext
<1>2. CASE Start
  <2>1. NotBegun' /\ ids' \in Nat
    BY <1>2 DEF Start, Declared, DeclInv, NotBegun
  <2> QED BY <2>1, NotBegunIsFineNext
<1>3. CASE Enter
  <2>1. NotBegun' /\ ids' \in Nat
    BY <1>3 DEF Enter, Declared, DeclInv, NotBegun
  <2> QED BY <2>1, NotBegunIsFineNext
<1>4. CASE Exit
  <2>1. /\ snapshot' \subseteq Tasks
        /\ UNCHANGED <<subscribers, stored, pending, stack, asking, answer, requests, ids, log, calls>>
    BY <1>4 DEF Exit, declVars
  <2> QED BY <2>1 DEF TestInv, StacksOK, CallersOK, RequestsOK, LogOK, ResultsOK, RepliesOK
<1>5. CASE Exited
  <2>1. /\ pending' = [q \in {q \in DOMAIN pending : pending[q] # None} |-> pending[q]]
        /\ UNCHANGED <<subscribers, stored, stack, asking, answer, requests, snapshot, ids, log, calls>>
    BY <1>5 DEF Exited, declVars
  <2>2. RepliesOK'
    BY <2>1 DEF TestInv, RepliesOK
  <2> QED BY <2>1, <2>2 DEF TestInv, StacksOK, CallersOK, RequestsOK, LogOK, ResultsOK
<1>6. CASE \E p \in Callers : CallPublish(p) \/ CallRequest(p) \/ Return(p)
  BY <1>6, PublishStep, RequestStep, ReturnStep
<1>7. CASE \E c \in Callers \cup Tasks : Proceeds(c)
  BY <1>7, HandleStep, DoStep, LeaveStep DEF Proceeds
<1>8. CASE \E n \in Tasks : Unwind(n)
  BY <1>8, UnwindStep
<1>9. CASE UNCHANGED vars
  BY <1>9 DEF vars, testVars, declVars, TestInv, StacksOK, CallersOK, RequestsOK, LogOK, ResultsOK, RepliesOK
<1> QED BY <1>1, <1>2, <1>3, <1>4, <1>5, <1>6, <1>7, <1>8, <1>9 DEF Next

THEOREM TestHolds == Spec => []TestInv
<1>1. Init => TestInv
  <2>1. Init => NotBegun /\ ids \in Nat
    BY DEF Init, NotBegun
  <2> QED BY <2>1, NotBegunIsFine
<1>2. DeclInv /\ DeclInv' /\ TestInv /\ [Next]_vars => TestInv'
  BY TestNext
<1> QED BY <1>1, <1>2, DeclarationsHold, PTL DEF Spec

\* TypeOK: the state of the test broker is of its types, whatever is declared, asked and
\* published inside what is published.
THEOREM TestTypes == Spec => []TypeOK
<1>1. DeclInv /\ TestInv => TypeOK
  <2> SUFFICES ASSUME DeclInv, TestInv PROVE TypeOK
    OBVIOUS
  <2>1. app \in Applications /\ declared \in 0..Len(app.declarations) /\ ids \in Nat
        /\ mode \in {"declaring", "started", "testing", "leaving", "left"} /\ backend \in {"none", "memory"}
    BY DEF DeclInv, Decls
  <2>2. DOMAIN stack = Callers \cup Tasks
    BY DEF TestInv, StacksOK
  <2>3. \A n \in Tasks : /\ requests[n] \in {"none", "running", "ok", "raised", "cancelled"}
                         /\ stack[n] # <<>> => requests[n] = "running"
    BY DEF TestInv, RequestsOK
  <2>4. \A p \in Callers : /\ answer[p] \in {"none", "ok", "raised", "SUCCESS", "FAILURE"}
                           /\ stack[p] # <<>> <=> asking[p].op = "publish"
    BY DEF TestInv, CallersOK
  <2>5. \A e \in Range(log) : e.id # None /\ e.sub \in 1..Len(subscribers)
    BY DEF TestInv, LogOK
  <2>6. \A q \in DOMAIN pending :
          \E p \in Callers : asking[p].op = "request" /\ q = <<"reply", asking[p].id>>
    BY DEF TestInv, RepliesOK
  <2> QED BY <2>1, <2>2, <2>3, <2>4, <2>5, <2>6 DEF TypeOK, TestInv, RequestsOK
<1> QED BY <1>1, DeclarationsHold, TestHolds, PTL

-----------------------------------------------------------------------------
(* The fake implements what request() promises *)

\* The promise's variables.
Waiting == {p \in Callers : asking[p].op = "request"}
Finished == [p \in Callers |-> {Outcome(e) : e \in {e \in Range(log) : e.id = asking[p].id}}]
Returned == [p \in Callers |-> IF answer[p] \in {"SUCCESS", "FAILURE"} THEN answer[p] ELSE "raised"]

LEMMA PromiseStutters ==
    ASSUME Waiting' = Waiting, Finished' = Finished, Returned' = Returned
    PROVE  UNCHANGED Promise!vars
BY DEF Waiting, Finished, Returned, Promise!vars

\* A new call is asked for: no task has its id yet.
LEMMA CallIsAsked ==
    ASSUME DeclInv, TestInv, NEW p \in Callers, asking[p].op = "idle", log' = log, NEW op \in {"idle", "publish", "request"},
           asking' = [asking EXCEPT ![p] = [op |-> op, id |-> ids + 1]],
           NEW how \in {"none", "raised"}, answer' = [answer EXCEPT ![p] = how]
    PROVE  Promise!Ask(p)
<1>1. /\ asking \in [Callers -> [op : {"idle", "publish", "request"}, id : 0..ids]] /\ ids \in Nat
      /\ answer \in [Callers -> {"none", "ok", "raised", "SUCCESS", "FAILURE"}]
  BY DEF DeclInv, TestInv, CallersOK
<1>2. Waiting' \in {Waiting, Waiting \cup {p}} /\ p \notin Waiting
  BY <1>1 DEF Waiting
<1>3. Finished' = [Finished EXCEPT ![p] = {}]
  <2>1. \A e \in Range(log) : e.id # ids + 1
    BY <1>1 DEF TestInv, LogOK, Past
  <2>2. asking'[p].id = ids + 1 /\ \A q \in Callers \ {p} : asking'[q] = asking[q]
    BY <1>1
  <2>3. DOMAIN Finished' = Callers /\ DOMAIN Finished = Callers
    BY DEF Finished
  <2>4. Finished'[p] = {}
    BY <2>1, <2>2 DEF Finished
  <2>5. ASSUME NEW q \in Callers \ {p} PROVE Finished'[q] = Finished[q]
    BY <2>2 DEF Finished, Outcome
  <2>6. Finished' = [q \in Callers |-> Finished'[q]]
    BY DEF Finished
  <2>7. [Finished EXCEPT ![p] = {}] = [q \in Callers |-> IF q = p THEN {} ELSE Finished[q]]
    BY <2>3
  <2> HIDE DEF Finished
  <2> QED BY <2>4, <2>5, <2>6, <2>7
<1>4. Returned' = [Returned EXCEPT ![p] = "raised"]
  BY <1>1 DEF Returned
<1> QED BY <1>2, <1>3, <1>4 DEF Promise!Ask, Waiting, Finished, Returned

\* A handler that ends finishes whatever goes by its id, and takes nothing back.
LEMMA HandlerFinishes ==
    ASSUME DeclInv, TestInv, NEW c \in Callers \cup Tasks, Handle(c)
    PROVE  Promise!Finish
<1>1. UNCHANGED <<asking, answer>>
  BY HandleParts
<1>2. Sequence(log) /\ \E e : log' = Append(log, e)
  BY HandleParts DEF TestInv, LogOK
<1>3. Range(log) \subseteq Range(log')
  BY <1>2, HeldByMore DEF Sequence
<1>4. Finished' \in [Callers -> SUBSET {"SUCCESS", "FAILURE"}]
  BY DEF Finished, Outcome
<1>5. \A p \in Callers : Finished[p] \subseteq Finished'[p]
  BY <1>1, <1>3 DEF Finished, Outcome
<1>6. UNCHANGED <<Waiting, Returned>>
  BY <1>1 DEF Waiting, Returned
<1> QED BY <1>4, <1>5, <1>6 DEF Promise!Finish, Waiting, Finished, Returned

\* A request that returns leaves off waiting; what it returns was reported for its id.
LEMMA RequestReturns ==
    ASSUME DeclInv, TestInv, NEW p \in Callers, Return(p)
    PROVE  Promise!Return(p)
<1>1. /\ asking[p].op = "request"
      /\ \/ /\ ReplyQueue(p) \in DOMAIN pending /\ pending[ReplyQueue(p)] # None
            /\ answer' = [answer EXCEPT ![p] = pending[ReplyQueue(p)]]
         \/ /\ asking[p].id \in DOMAIN stored
            /\ answer' = [answer EXCEPT ![p] = stored[asking[p].id].status]
         \/ answer' = [answer EXCEPT ![p] = "raised"]
      /\ asking' = [asking EXCEPT ![p].op = "idle"] /\ log' = log
  BY DEF Return, Waits
<1>2. /\ asking \in [Callers -> [op : {"idle", "publish", "request"}, id : 0..ids]] /\ ids \in Nat
      /\ answer \in [Callers -> {"none", "ok", "raised", "SUCCESS", "FAILURE"}]
  BY DEF DeclInv, TestInv, CallersOK
<1>3. ASSUME NEW q \in Callers
      PROVE  /\ asking'[q].id = asking[q].id
             /\ asking'[q].op = "request" <=> asking[q].op = "request" /\ q # p
  <2>1. CASE q = p
    BY <1>1, <1>2, <2>1
  <2>2. CASE q # p
    BY <1>1, <1>2, <2>2
  <2> QED BY <2>1, <2>2
<1>4. p \in Waiting /\ Waiting' = Waiting \ {p}
  BY <1>1, <1>2, <1>3 DEF Waiting
<1>5. Finished' = Finished
  <2>1. \A q \in Callers : Finished'[q] = Finished[q]
    BY <1>1, <1>3 DEF Finished, Outcome
  <2>2. Finished' = [q \in Callers |-> Finished'[q]] /\ Finished = [q \in Callers |-> Finished[q]]
    BY DEF Finished
  <2> HIDE DEF Finished
  <2> QED BY <2>1, <2>2
<1>6. \E r \in Finished[p] \cup {"raised"} : Returned' = [Returned EXCEPT ![p] = r]
  <2>1. ASSUME NEW r \in {"SUCCESS", "FAILURE", "raised"}, answer' = [answer EXCEPT ![p] = r]
        PROVE  Returned' = [Returned EXCEPT ![p] = r]
    BY <1>2, <2>1 DEF Returned
  <2>2. CASE /\ ReplyQueue(p) \in DOMAIN pending /\ pending[ReplyQueue(p)] # None
             /\ answer' = [answer EXCEPT ![p] = pending[ReplyQueue(p)]]
    <3>1. Last(ReplyQueue(p)) = asking[p].id
      BY DEF ReplyQueue, Last
    <3>2. pending[ReplyQueue(p)] \in {"SUCCESS", "FAILURE"} /\ Logged(asking[p].id, pending[ReplyQueue(p)], Range(log))
      BY <2>2, <3>1 DEF TestInv, RepliesOK
    <3>3. pending[ReplyQueue(p)] \in Finished[p]
      BY <3>2 DEF Finished, Logged
    <3> QED BY <2>1, <2>2, <3>2, <3>3
  <2>3. CASE /\ asking[p].id \in DOMAIN stored
             /\ answer' = [answer EXCEPT ![p] = stored[asking[p].id].status]
    <3>1. IsOutcome(stored[asking[p].id], Range(log)) /\ stored[asking[p].id].task_id = asking[p].id
      BY <2>3 DEF TestInv, ResultsOK
    <3>2. /\ stored[asking[p].id].status \in {"SUCCESS", "FAILURE"}
          /\ Logged(asking[p].id, stored[asking[p].id].status, Range(log))
      BY <1>2, <3>1 DEF IsOutcome
    <3>3. stored[asking[p].id].status \in Finished[p]
      BY <3>2 DEF Finished, Logged
    <3> QED BY <2>1, <2>3, <3>2, <3>3
  <2>4. CASE answer' = [answer EXCEPT ![p] = "raised"]
    BY <2>1, <2>4
  <2> QED BY <1>1, <2>2, <2>3, <2>4
<1> QED BY <1>4, <1>5, <1>6 DEF Promise!Return, Waiting, Finished, Returned

\* A coroutine that ends was not waiting, and returns no result.
LEMMA EndingIsQuiet ==
    ASSUME DeclInv, TestInv, NEW c \in Callers \cup Tasks, stack[c] # <<>>, NEW how \in {"ok", "raised"},
           Ends(c, how), log' = log
    PROVE  UNCHANGED Promise!vars
<1>1. \/ UNCHANGED <<asking, answer>>
      \/ c \in Callers /\ asking' = [asking EXCEPT ![c].op = "idle"] /\ answer' = [answer EXCEPT ![c] = how]
  BY DEF Ends
<1>2. CASE UNCHANGED <<asking, answer>>
  BY <1>2, PromiseStutters DEF Waiting, Finished, Returned, Outcome
<1>3. CASE c \in Callers /\ asking' = [asking EXCEPT ![c].op = "idle"] /\ answer' = [answer EXCEPT ![c] = how]
  <2>1. /\ asking \in [Callers -> [op : {"idle", "publish", "request"}, id : 0..ids]]
        /\ answer \in [Callers -> {"none", "ok", "raised", "SUCCESS", "FAILURE"}]
        /\ asking[c].op = "publish" /\ answer[c] = "none"
    BY <1>3 DEF TestInv, CallersOK
  <2>2. \A p \in Callers : /\ asking'[p].op = "request" <=> asking[p].op = "request"
                           /\ asking'[p].id = asking[p].id
                           /\ answer'[p] \in {"SUCCESS", "FAILURE"} <=> answer[p] \in {"SUCCESS", "FAILURE"}
                           /\ answer[p] \in {"SUCCESS", "FAILURE"} => answer'[p] = answer[p]
    BY <1>3, <2>1
  <2>3. Waiting' = Waiting
    BY <2>2 DEF Waiting
  <2>4. Returned' = Returned
    BY <2>2 DEF Returned
  <2>5. Finished' = Finished
    BY <2>2 DEF Finished, Outcome
  <2> QED BY <2>3, <2>4, <2>5, PromiseStutters
<1> QED BY <1>1, <1>2, <1>3

\* What a coroutine does besides ending a handler tells nobody anything.
LEMMA DoingIsQuiet ==
    ASSUME DeclInv, TestInv, NEW c \in Callers \cup Tasks, Do(c) \/ Leave(c)
    PROVE  UNCHANGED Promise!vars
<1>1. stack[c] # <<>> /\ log' = log
  BY DEF Do, Leave, Processing
<1>2. Ends(c, "raised") \/ Ends(c, "ok") \/ UNCHANGED <<asking, answer>>
  <2>1. CASE Leave(c)
    BY <2>1 DEF Leave
  <2>2. CASE Do(c)
    <3>1. LET effect == Head(Top(c).agenda) IN
          UNCHANGED <<asking, answer>> \/ Delivers(c, effect.cmd, Rest(c)) \/ Ends(c, "raised")
      BY <2>2, Zenon DEF Do
    <3>2. ASSUME NEW cmd, Delivers(c, cmd, Rest(c)) PROVE Ends(c, "raised") \/ UNCHANGED <<asking, answer>>
      BY <3>2, DeliversParts, Zenon
    <3> QED BY <3>1, <3>2
  <2> QED BY <2>1, <2>2
<1>3. UNCHANGED <<asking, answer>> => UNCHANGED Promise!vars
  BY <1>1, PromiseStutters DEF Waiting, Finished, Returned, Outcome
<1> QED BY <1>1, <1>2, <1>3, EndingIsQuiet

LEMMA PromiseKept == DeclInv /\ TestInv /\ [Next]_vars => [Promise!Next]_(Promise!vars)
<1> SUFFICES ASSUME DeclInv, TestInv, [Next]_vars PROVE [Promise!Next]_(Promise!vars)
  OBVIOUS
<1>1. ASSUME UNCHANGED <<asking, answer, log>> PROVE UNCHANGED Promise!vars
  BY <1>1, PromiseStutters DEF Waiting, Finished, Returned, Outcome
<1>2. CASE DeclareNext \/ Start \/ Enter \/ Exit \/ Exited \/ (\E n \in Tasks : Unwind(n)) \/ UNCHANGED vars
  BY <1>1, <1>2 DEF DeclareNext, Start, Enter, Exit, Exited, Unwind, vars, testVars
<1>3. ASSUME NEW p \in Callers, CallPublish(p) PROVE Promise!Ask(p)
  <2>1. /\ asking[p].op = "idle" /\ log' = log
        /\ \/ /\ asking' = [asking EXCEPT ![p] = [op |-> "idle", id |-> ids + 1]]
              /\ answer' = [answer EXCEPT ![p] = "raised"]
           \/ /\ asking' = [asking EXCEPT ![p] = [op |-> "publish", id |-> ids + 1]]
              /\ answer' = [answer EXCEPT ![p] = "none"]
    BY <1>3, Zenon DEF CallPublish, Calling
  <2> QED BY <2>1, CallIsAsked
<1>4. ASSUME NEW p \in Callers, CallRequest(p) PROVE Promise!Ask(p)
  <2>1. /\ asking[p].op = "idle" /\ log' = log
        /\ asking' = [asking EXCEPT ![p] = [op |-> "request", id |-> ids + 1]]
        /\ answer' = [answer EXCEPT ![p] = "none"]
    BY <1>4, Zenon DEF CallRequest, Calling
  <2> QED BY <2>1, CallIsAsked
<1>5. ASSUME NEW p \in Callers, Return(p) PROVE Promise!Return(p)
  BY <1>5, RequestReturns
<1>6. ASSUME NEW c \in Callers \cup Tasks, Proceeds(c) PROVE Promise!Finish \/ UNCHANGED Promise!vars
  BY <1>6, HandlerFinishes, DoingIsQuiet DEF Proceeds
<1> QED BY <1>2, <1>3, <1>4, <1>5, <1>6 DEF Next, Promise!Next

LEMMA PromiseMade == Init => Promise!Init
<1> SUFFICES ASSUME Init PROVE Promise!Init
  OBVIOUS
<1>1. /\ asking = [p \in Callers |-> [op |-> "idle", id |-> 0]] /\ log = <<>>
      /\ answer = [p \in Callers |-> "none"]
  BY DEF Init
<1>2. Waiting = {}
  BY <1>1 DEF Waiting
<1>3. Finished = [p \in Callers |-> {}]
  BY <1>1, HeldByNone DEF Finished
<1>4. Returned = [p \in Callers |-> "raised"]
  BY <1>1 DEF Returned
<1> QED BY <1>2, <1>3, <1>4 DEF Promise!Init, Waiting, Finished, Returned

\* ImplementsRequest: whatever the application, the orders and the interleaving, a request
\* to the fake returns only an outcome that the log tells of its own id, after it was
\* asked for, by the reply queue and by the backend alike; and otherwise it raises.
THEOREM FakeKeepsThePromise == Spec => ImplementsRequest
<1>1. Init => Promise!Init
  BY PromiseMade
<1>2. DeclInv /\ TestInv /\ [Next]_vars => [Promise!Next]_(Promise!vars)
  BY PromiseKept
<1> QED BY <1>1, <1>2, DeclarationsHold, TestHolds, PTL DEF Spec, ImplementsRequest, Promise!Spec

-----------------------------------------------------------------------------
(* Leaving *)

\* Once the test leaves, no caller processes anything, and what still runs is cancelled;
\* once it has left, nothing runs.
ExitInv ==
    /\ mode \in {"leaving", "left"} =>
          /\ \A p \in Callers : stack[p] = <<>>
          /\ \A n \in Tasks : requests[n] = "running" => n \in snapshot
    /\ mode = "left" => \A n \in Tasks : requests[n] # "running"

LEMMA NobodyProceeds ==
    ASSUME TestInv, ExitInv, mode \in {"leaving", "left"}, NEW c \in Callers \cup Tasks
    PROVE  ~Processing(c)
<1>1. CASE c \in Callers
  BY <1>1 DEF ExitInv, Processing
<1>2. CASE c \in Tasks
  <2>1. stack[c] # <<>> => requests[c] = "running"
    BY <1>2 DEF TestInv, RequestsOK
  <2>2. requests[c] = "running" => c \in snapshot /\ mode = "leaving"
    BY <1>2 DEF ExitInv
  <2> QED BY <2>1, <2>2 DEF Processing, Cancelled
<1> QED BY <1>1, <1>2

\* What the test still does when it leaves: it cancels, and requests return.
LEMMA StepsOfLeaving ==
    ASSUME DeclInv, TestInv, ExitInv, [Next]_vars, mode \in {"leaving", "left"}
    PROVE  /\ \/ Exited
              \/ \E p \in Callers : Return(p)
              \/ \E n \in Tasks : Unwind(n)
              \/ UNCHANGED vars
           /\ log' = log /\ stored' = stored
<1>1. ~DeclareNext /\ ~Start /\ ~Enter /\ ~Exit
  BY DEF DeclareNext, Start, Enter, Declared, Exit
<1>2. \A p \in Callers : ~CallPublish(p) /\ ~CallRequest(p)
  BY DEF CallPublish, CallRequest, Calling
<1>3. \A c \in Callers \cup Tasks : ~Proceeds(c)
  <2>1. \A c \in Callers \cup Tasks : Proceeds(c) => Processing(c)
    BY DEF Proceeds, Handle, Do, Leave
  <2> QED BY <2>1, NobodyProceeds
<1>4. \/ Exited
      \/ \E p \in Callers : Return(p)
      \/ \E n \in Tasks : Unwind(n)
      \/ UNCHANGED vars
  BY <1>1, <1>2, <1>3 DEF Next
<1>5. log' = log /\ stored' = stored
  BY <1>4 DEF Exited, Return, Unwind, vars, testVars
<1> QED BY <1>4, <1>5

LEMMA ExitNext == DeclInv /\ TestInv /\ ExitInv /\ [Next]_vars => ExitInv'
<1> SUFFICES ASSUME DeclInv, TestInv, ExitInv, [Next]_vars PROVE ExitInv'
  OBVIOUS
<1>1. CASE mode \in {"leaving", "left"}
  <2>1. CASE Exited
    <3>1. /\ mode = "leaving" /\ \A n \in snapshot : requests[n] # "running"
          /\ UNCHANGED <<stack, requests, snapshot>>
      BY <2>1 DEF Exited, Gathered
    <3> QED BY <3>1 DEF ExitInv
  <2>2. CASE \E p \in Callers : Return(p)
    BY <2>2 DEF Return, ExitInv
  <2>3. ASSUME NEW n \in Tasks, Unwind(n) PROVE ExitInv'
    <3>1. /\ requests' = [requests EXCEPT ![n] = "cancelled"] /\ stack' = [stack EXCEPT ![n] = <<>>]
          /\ UNCHANGED <<mode, snapshot>>
      BY <2>3 DEF Unwind
    <3>2. DOMAIN requests = Tasks /\ DOMAIN stack = Callers \cup Tasks
      BY DEF TestInv, RequestsOK, StacksOK
    <3>3. \A p \in Callers : stack'[p] = stack[p]
      BY <3>1, <3>2, CallerAssumption
    <3>4. \A k \in Tasks : requests'[k] = "running" => requests[k] = "running"
      BY <3>1, <3>2
    <3> QED BY <3>1, <3>3, <3>4 DEF ExitInv
  <2>4. CASE UNCHANGED vars
    BY <2>4 DEF vars, testVars, ExitInv
  <2> QED BY <1>1, <2>1, <2>2, <2>3, <2>4, StepsOfLeaving
<1>2. CASE mode \notin {"leaving", "left"}
  <2>1. CASE Exit
    BY <2>1 DEF Exit, ExitInv
  <2>2. ASSUME ~Exit PROVE mode' \notin {"leaving", "left"}
    <3>1. CASE DeclareNext \/ Start \/ Enter \/ UNCHANGED vars
      BY <1>2, <3>1 DEF DeclareNext, Start, Enter, vars, testVars
    <3>2. ~Exited
      BY <1>2 DEF Exited
    <3>3. ASSUME NEW p \in Callers, CallPublish(p) \/ CallRequest(p) \/ Return(p) PROVE mode' = mode
      BY <3>3 DEF CallPublish, CallRequest, Return, Calling
    <3>4. ASSUME NEW c \in Callers \cup Tasks, Proceeds(c) PROVE mode' = mode
      BY <3>4 DEF Proceeds, Handle, Do, Leave
    <3>5. ASSUME NEW n \in Tasks, Unwind(n) PROVE mode' = mode
      BY <3>5 DEF Unwind
    <3> QED BY <1>2, <2>2, <3>1, <3>2, <3>3, <3>4, <3>5 DEF Next
  <2> QED BY <2>1, <2>2 DEF ExitInv
<1> QED BY <1>1, <1>2

THEOREM ExitHolds == Spec => []ExitInv
<1>1. Init => ExitInv
  BY DEF Init, ExitInv
<1>2. DeclInv /\ TestInv /\ ExitInv /\ [Next]_vars => ExitInv'
  BY ExitNext
<1> QED BY <1>1, <1>2, DeclarationsHold, TestHolds, PTL DEF Spec

\* NothingRunsAfterExit: once the test leaves the broker no handler ends and no result is
\* stored, and none runs when it has left -- however many requests it found unfinished,
\* and wherever they were.
THEOREM ExitIsClean == Spec => NothingRunsAfterExit
<1> DEFINE Clean == /\ mode \in {"leaving", "left"} => log' = log /\ stored' = stored
                    /\ mode' = "left" => \A n \in Tasks : requests'[n] # "running"
<1>1. DeclInv /\ TestInv /\ ExitInv /\ ExitInv' /\ [Next]_vars => [Clean]_vars
  <2> SUFFICES ASSUME DeclInv, TestInv, ExitInv, ExitInv', [Next]_vars PROVE Clean
    OBVIOUS
  <2>1. mode \in {"leaving", "left"} => log' = log /\ stored' = stored
    BY StepsOfLeaving
  <2>2. mode' = "left" => \A n \in Tasks : requests'[n] # "running"
    BY DEF ExitInv
  <2> QED BY <2>1, <2>2
<1> HIDE DEF Clean
<1>2. Spec => [][Clean]_vars
  BY <1>1, DeclarationsHold, TestHolds, ExitHolds, PTL DEF Spec
<1> QED BY <1>2, PTL DEF NothingRunsAfterExit, Clean

-----------------------------------------------------------------------------
(* Requests are answered *)

\* What is known of calls: an id has the order it was given; a caller that waits has an id
\* of its own and, without a backend, its reply queue.
AskedOK ==
    /\ DOMAIN asked \subseteq 1..ids
    /\ \A id \in DOMAIN asked : asked[id] \in Orders /\ asked[id].endpoint <= Len(publishers)
    /\ \A p, q \in Callers : Waits(p) /\ Waits(q) /\ asking[p].id = asking[q].id => p = q
    /\ backend = "none" /\ mode \in {"testing", "leaving"} =>
          \A p \in Callers : Waits(p) => ReplyQueue(p) \in DOMAIN pending

\* The log of a task: whether it has any entry, and its first.
NoEntry(n) == \A e \in Range(log) : e.by # n
FirstOf(n, e) == \E k \in DOMAIN log : log[k] = e /\ e.by = n /\ \A j \in 1..k - 1 : log[j].by # n

\* An outcome that is to be answered, one that is, and the effect that answers it.
Obliged(e) == e.id \in DOMAIN asked /\ ~Ignored(e.id) /\ ~Silent(e)
Given(e) ==
    IF backend = "memory" THEN e.id \in DOMAIN stored
    ELSE \A p \in Callers :
            Waits(p) /\ asking[p].id = e.id /\ ~subscribers[e.sub].no_reply =>
                ReplyQueue(p) \in DOMAIN pending /\ pending[ReplyQueue(p)] # None
Answers(x, id) ==
    IF backend = "memory" THEN DOMAIN x = {"result"} /\ x.result.task_id = id
    ELSE /\ DOMAIN x = {"cmd", "valid"} /\ x.valid
         /\ x.cmd.type = "REPLY" /\ x.cmd.queue = <<"reply", id>> /\ x.cmd.correlation_id = id
         /\ ~IsTask(x.cmd.body) /\ {"task_id", "status"} \subseteq DOMAIN x.cmd.body
         /\ x.cmd.body.task_id = id /\ x.cmd.body.status \in READY_STATES

\* The answer is among the effects left of the task's own message; nothing but a success
\* in a reply waits for what follows the task.
Prompt(e) == backend = "memory" \/ ~e.ok
Owes(n, e) ==
    \E x \in Range(stack[n][1].agenda) :
        Answers(x, e.id) /\ (Prompt(e) => Len(stack[n]) = 1 /\ Head(stack[n][1].agenda) = x)

\* A task runs the handler of the message that was requested, then owes the answer until
\* it has given it, and has given it when it ends.
Begins(n) ==
    /\ stack[n][1].at = "handler" /\ Len(stack[n]) = 1 /\ NoEntry(n)
    /\ \E id \in DOMAIN asked, order \in Orders :
          asked[id] = order /\ stack[n][1].msg = RequestedMessage(order, id)
Continues(n) ==
    /\ stack[n][1].at = "scope" /\ ~NoEntry(n)
    /\ \A e \in Range(log) : FirstOf(n, e) /\ Obliged(e) => Given(e) \/ Owes(n, e)
Ended(n) ==
    \A e \in Range(log) :
        FirstOf(n, e) /\ Obliged(e) /\ (Prompt(e) \/ requests[n] = "ok") => Given(e)
TaskOK(n) ==
    /\ requests[n] = "none" => NoEntry(n)
    /\ stack[n] # <<>> => Begins(n) \/ Continues(n)
    /\ requests[n] \in {"ok", "raised"} => Ended(n)
AnswerInv == AskedOK /\ \A n \in Tasks : TaskOK(n)

\* A request is ignored or not whatever its reply queue, and has one without a backend.
LEMMA RequestedFields ==
    ASSUME DeclInv, NEW order \in Orders, order.endpoint <= Len(publishers), NEW id
    PROVE  /\ Ignores(RequestedMessage(order, id)) = Ignores(build_message(CommandOf(order, "REQUEST", id), id, Now))
           /\ RequestedMessage(order, id).correlation_id = id
           /\ backend # "memory" => RequestedMessage(order, id).reply_to = <<"reply", id>>
<1> DEFINE cmd == CommandOf(order, "REQUEST", id)
           other == Requested(order, id)
<1>1. {"body", "headers", "reply_to"} \subseteq DOMAIN cmd
  BY OrderCommand DEF DeclInv
<1>2. other = IF backend = "memory" THEN cmd ELSE [cmd EXCEPT !.reply_to = <<"reply", id>>]
  BY DEF Requested
<1> HIDE DEF cmd, other
<1>3. /\ other.body = cmd.body /\ other.headers = cmd.headers
      /\ backend # "memory" => other.reply_to = <<"reply", id>>
  BY <1>1, <1>2
<1> DEFINE m == build_message(cmd, id, Now)
           r == build_message(other, id, Now)
<1>4. /\ r.body = m.body /\ r.headers = m.headers /\ r.correlation_id = id /\ r.reply_to = other.reply_to
  BY <1>3 DEF build_message, Headers
<1> HIDE DEF m, r
<1>5. parse_envelope(r) = parse_envelope(m)
  BY <1>4 DEF parse_envelope
<1>6. Ignores(r) = Ignores(m)
  BY <1>5 DEF Ignores
<1> QED BY <1>3, <1>4, <1>6 DEF r, m, other, cmd, RequestedMessage

LEMMA HeldByFour ==
    ASSUME NEW a, NEW b, NEW c, NEW d, Sequence(a), Sequence(b), Sequence(c), Sequence(d)
    PROVE  /\ Sequence(a \o b) /\ Sequence((a \o b) \o c)
           /\ Range(((a \o b) \o c) \o d) = Range(a) \cup Range(b) \cup Range(c) \cup Range(d)
<1>1. Sequence(a \o b) /\ Range(a \o b) = Range(a) \cup Range(b)
  BY HeldByBoth DEF Sequence
<1>2. Sequence((a \o b) \o c) /\ Range((a \o b) \o c) = Range(a) \cup Range(b) \cup Range(c)
  BY <1>1, HeldByBoth DEF Sequence
<1>3. Range(((a \o b) \o c) \o d) = Range((a \o b) \o c) \cup Range(d)
  BY <1>2, HeldByBoth DEF Sequence
<1> QED BY <1>1, <1>2, <1>3

LEMMA HeadOfBoth ==
    ASSUME NEW s, NEW t, Sequence(s), Sequence(t), s # <<>>
    PROVE  s \o t # <<>> /\ Head(s \o t) = Head(s)
<1>1. Len(s) \in Nat \ {0} /\ Len(t) \in Nat /\ Head(s) = s[1]
  BY EmptySeq DEF Sequence
<1>2. s \in Seq(Range(s) \cup Range(t)) /\ t \in Seq(Range(s) \cup Range(t))
  BY SeqOfMore DEF Sequence
<1>3. Len(s \o t) = Len(s) + Len(t) /\ (s \o t)[1] = s[1] /\ s \o t \in Seq(Range(s) \cup Range(t))
  BY <1>1, <1>2
<1> QED BY <1>1, <1>3

\* The outcome of a handler that is obliged to answer is the first of its effects, or the
\* reply of a success among them.
LEMMA AgendaAnswers ==
    ASSUME NEW msg, NEW s, NEW done, NEW n, IsMessage(msg, n), Decorators(s.publishers), NEW ok \in BOOLEAN,
           NEW agenda, NEW status,
           ok => agenda = SuccessAgenda(msg, s) /\ status = "SUCCESS",
           ~ok => agenda = FailureAgenda(msg, s) /\ status = "FAILURE",
           Id(msg) \in Nat, Logged(Id(msg), status, done), ~Ignores(msg),
           ok \/ ack_policy(s) # "NACK_ON_ERROR", backend \in {"none", "memory"},
           backend = "none" => ~s.no_reply /\ msg.reply_to = <<"reply", Id(msg)>>
    PROVE  \E x \in Range(agenda) :
              Answers(x, Id(msg)) /\ (backend = "memory" \/ ~ok => Head(agenda) = x)
<1> DEFINE id == Id(msg)
           Outcome_ == IF ok THEN build_success(id, Result) ELSE build_failure(id)
           stores == [result |-> Outcome_]
           replies == Publish(Reply(msg.reply_to, Outcome_))
           x == IF backend = "memory" THEN stores ELSE replies
<1>1. /\ DOMAIN Outcome_ = {"task_id", "status", "result"} /\ Outcome_.task_id = id
      /\ Outcome_.status \in READY_STATES /\ ~IsTask(Outcome_)
      /\ IsOutcome(Outcome_, done) /\ Past(Outcome_.task_id, n) /\ Outcome_.task_id # None
  <2>1. /\ DOMAIN Outcome_ = {"task_id", "status", "result"} /\ Outcome_.task_id = id
        /\ Outcome_.status = status /\ status \in {"SUCCESS", "FAILURE"}
    BY Built
  <2>2. Past(id, n) /\ id # None
    BY DEF IsMessage, Past
  <2> HIDE DEF Outcome_
  <2> QED BY <2>1, <2>2 DEF READY_STATES, IsTask, Has, IsOutcome
<1> HIDE DEF Outcome_
<1>2. Answers(x, id)
  <2>1. DOMAIN stores = {"result"} /\ stores.result = Outcome_
    OBVIOUS
  <2>2. DOMAIN replies = {"cmd", "valid"} /\ replies.valid = TRUE /\ replies.cmd = Reply(msg.reply_to, Outcome_)
    BY DEF Publish
  <2> HIDE DEF stores, replies
  <2>3. CASE backend = "memory"
    BY <1>1, <2>1, <2>3 DEF Answers
  <2>4. CASE backend = "none"
    BY <1>1, <2>2, <2>4, ReplyFields DEF Answers
  <2> QED BY <2>3, <2>4
<1>3. backend = "none" => msg.reply_to # None
  BY QueueAssumption
<1>4. /\ Store(msg, Outcome_) = IF backend = "memory" THEN <<stores>> ELSE <<>>
      /\ backend = "none" => Replied(msg, s, msg.reply_to, Outcome_) = <<replies>>
  BY <1>3 DEF Store, Replied, When
<1>5. Range(<<x>>) = {x} /\ Sequence(<<x>>) /\ <<x>> # <<>> /\ Head(<<x>>) = x
  <2>1. Range(<<x>>) = {x} /\ Sequence(<<x>>)
    BY HeldByOne DEF Sequence
  <2> HIDE DEF x
  <2> QED BY <2>1
<1>6. /\ AllEffects(Store(msg, Outcome_), done, n)
      /\ AllEffects(Replied(msg, s, msg.reply_to, Outcome_), done, n)
  BY <1>1, StoreEffects, RepliedEffects
<1> HIDE DEF stores, replies
<1>7. CASE ok
  <2> DEFINE a == Store(msg, Outcome_)
             b == Followers(parse_envelope(msg).headers, read_embed(msg), Result, SubscriberQueue(s))
             c == Replied(msg, s, msg.reply_to, Outcome_)
             d == [i \in DOMAIN s.publishers |->
                     Publish(DecoratedCommand(s.publishers[i], [value |-> Result], msg.correlation_id))]
  <2>1. agenda = ((a \o b) \o c) \o d
    BY <1>7 DEF SuccessAgenda, Outcome_
  <2>2. Sequence(a) /\ Sequence(b) /\ Sequence(c) /\ Sequence(d)
    <3>1. Sequence(b)
      BY FollowersEffects DEF IsMessage, AllEffects
    <3>2. d \in Seq({d[i] : i \in 1..Len(s.publishers)})
      <4>1. DOMAIN s.publishers = 1..Len(s.publishers) /\ Len(s.publishers) \in Nat
        BY DEF Decorators, Sequence
      <4>2. d = [i \in 1..Len(s.publishers) |-> d[i]]
        BY <4>1
      <4> HIDE DEF d
      <4> QED BY <4>1, <4>2
    <3>3. Sequence(d)
      BY <3>2, RangeOf DEF Sequence
    <3> QED BY <1>6, <3>1, <3>3 DEF AllEffects
  <2> HIDE DEF a, b, c, d
  <2>3. Sequence(a \o b) /\ Sequence((a \o b) \o c) /\ Range(((a \o b) \o c) \o d) = Range(a) \cup Range(b) \cup Range(c) \cup Range(d)
    BY <2>2, HeldByFour
  <2>4. CASE backend = "memory"
    <3>1. a = <<x>>
      BY <1>4, <2>4 DEF a
    <3>2. Head(((a \o b) \o c) \o d) = x
      BY <1>5, <2>2, <2>3, <3>1, HeadOfBoth
    <3> QED BY <1>2, <1>5, <1>7, <2>1, <2>3, <3>1, <3>2
  <2>5. CASE backend = "none"
    <3>1. c = <<x>>
      BY <1>4, <2>5 DEF c
    <3> QED BY <1>2, <1>5, <1>7, <2>1, <2>3, <2>5, <3>1
  <2> QED BY <2>4, <2>5
<1>8. CASE ~ok
  <2> DEFINE a == Store(msg, Outcome_)
             b == Replied(msg, s, msg.reply_to, Outcome_)
             c == FlattenSeq(FrozenReports(msg, s))
             d == Errbacks(parse_envelope(msg).headers, read_embed(msg), SubscriberQueue(s))
  <2>1. agenda = ((a \o b) \o c) \o d
    BY <1>8, FailureIs DEF Reported, Outcome_
  <2>2. Sequence(a) /\ Sequence(b) /\ Sequence(c) /\ Sequence(d)
    <3>1. Sequence(d)
      BY ErrbacksEffects DEF IsMessage, AllEffects
    <3>2. Sequence(c)
      BY <1>8, FrozenEffects DEF AllEffects
    <3> QED BY <1>6, <3>1, <3>2 DEF AllEffects
  <2> HIDE DEF a, b, c, d
  <2>3. Sequence(a \o b) /\ Sequence((a \o b) \o c) /\ Range(((a \o b) \o c) \o d) = Range(a) \cup Range(b) \cup Range(c) \cup Range(d)
    BY <2>2, HeldByFour
  <2>4. a \o b # <<>> /\ Head(a \o b) = x /\ x \in Range(a) \cup Range(b)
    <3>1. CASE backend = "memory"
      <4>1. a = <<x>>
        BY <1>4, <3>1 DEF a
      <4> QED BY <1>5, <2>2, <4>1, HeadOfBoth
    <3>2. CASE backend = "none"
      <4>1. a = <<>> /\ b = <<x>>
        BY <1>4, <3>2 DEF a, b
      <4>2. a \o b = b
        BY <2>2, <4>1 DEF Sequence
      <4> QED BY <1>5, <4>1, <4>2
    <3> QED BY <3>1, <3>2
  <2>5. Head(((a \o b) \o c) \o d) = x
    BY <2>2, <2>3, <2>4, HeadOfBoth
  <2> QED BY <1>2, <1>8, <2>1, <2>3, <2>4, <2>5
<1> QED BY <1>7, <1>8

\* Frozen for a step: what was asked for stays so, and what was answered stays answered.
AskedStays ==
    /\ UNCHANGED declVars /\ backend' = backend
    /\ \A id \in DOMAIN asked : id \in DOMAIN asked' /\ asked'[id] = asked[id]
    /\ \A id \in DOMAIN asked' : id \in DOMAIN asked \/ id = ids + 1
StillGiven == \A e \in Range(log) : Given(e) => Given(e)'

LEMMA ObligedStays ==
    ASSUME TestInv, ids \in Nat, AskedStays, NEW e \in Range(log), Obliged(e)'
    PROVE  Obliged(e)
<1>1. e.id \in DOMAIN asked
  <2>1. e.id # ids + 1
    BY DEF TestInv, LogOK, Past
  <2> QED BY <2>1 DEF Obliged, AskedStays
<1>2. asked'[e.id] = asked[e.id] /\ UNCHANGED <<publishers, subscribers, configs>>
  BY <1>1 DEF AskedStays, declVars
<1>3. Ignored(e.id)' = Ignored(e.id)
  BY <1>2 DEF Ignored, CommandOf, EndpointRequest, EndpointPublish, BrokerRequest, BrokerPublish, PublisherQueue
<1>4. Silent(e)' = Silent(e)
  BY <1>2, Zenon DEF Silent, ack_policy
<1> QED BY <1>1, <1>3, <1>4 DEF Obliged

LEMMA GivenStays ==
    ASSUME NEW e, Given(e), backend' = backend, subscribers' = subscribers, DOMAIN stored \subseteq DOMAIN stored',
           \A p \in Callers : Waits(p)' /\ asking'[p].id = e.id =>
               /\ Waits(p) /\ asking[p].id = e.id
               /\ ReplyQueue(p) \in DOMAIN pending /\ pending[ReplyQueue(p)] # None =>
                     ReplyQueue(p) \in DOMAIN pending' /\ pending'[ReplyQueue(p)] # None
    PROVE  Given(e)'
<1>1. CASE backend = "memory"
  BY <1>1 DEF Given
<1>2. CASE backend # "memory"
  <2> SUFFICES ASSUME NEW p \in Callers, Waits(p)', asking'[p].id = e.id, ~subscribers[e.sub].no_reply
               PROVE  ReplyQueue(p)' \in DOMAIN pending' /\ pending'[ReplyQueue(p)'] # None
    BY <1>2 DEF Given
  <2>1. ReplyQueue(p) \in DOMAIN pending /\ pending[ReplyQueue(p)] # None /\ asking[p].id = e.id
    BY <1>2 DEF Given
  <2>2. ReplyQueue(p)' = ReplyQueue(p)
    BY <2>1 DEF ReplyQueue
  <2> QED BY <2>1, <2>2
<1> QED BY <1>1, <1>2

\* A handler that ends adds its entry to the log.
LEMMA LogAppended ==
    ASSUME Sequence(log), NEW e, log' = Append(log, e), NEW n
    PROVE  /\ NoEntry(n)' <=> NoEntry(n) /\ e.by # n
           /\ \A d \in Range(log)' : FirstOf(n, d)' =>
                 \/ d \in Range(log) /\ FirstOf(n, d)
                 \/ d = e /\ e.by = n /\ NoEntry(n)
<1>1. /\ Len(log) \in Nat /\ DOMAIN log = 1..Len(log) /\ DOMAIN log' = 1..Len(log) + 1
      /\ log'[Len(log) + 1] = e /\ \A i \in 1..Len(log) : log'[i] = log[i]
      /\ Range(log') = Range(log) \cup {e}
  <2>1. log \in Seq(Range(log) \cup {e})
    BY SeqOfMore DEF Sequence
  <2>2. log' \in Seq(Range(log) \cup {e})
    BY <2>1
  <2>3. Len(log') = Len(log) + 1 /\ Len(log) \in Nat
    BY <2>1
  <2>4. DOMAIN log = 1..Len(log) /\ DOMAIN log' = 1..Len(log')
    BY <2>1, <2>2
  <2> QED BY <2>3, <2>4, HeldByMore DEF Sequence
<1>2. NoEntry(n)' <=> NoEntry(n) /\ e.by # n
  BY <1>1 DEF NoEntry
<1>3. ASSUME NEW d \in Range(log)', FirstOf(n, d)'
      PROVE  \/ d \in Range(log) /\ FirstOf(n, d)
             \/ d = e /\ e.by = n /\ NoEntry(n)
  <2>1. PICK k \in DOMAIN log' : log'[k] = d /\ d.by = n /\ \A j \in 1..k - 1 : log'[j].by # n
    BY <1>3 DEF FirstOf
  <2>2. CASE k \in 1..Len(log)
    <3>1. log[k] = d /\ d \in Range(log)
      BY <1>1, <2>1, <2>2 DEF Range
    <3>2. \A j \in 1..k - 1 : log[j].by # n
      BY <1>1, <2>1, <2>2
    <3> QED BY <1>1, <2>1, <2>2, <3>1, <3>2 DEF FirstOf
  <2>3. CASE k = Len(log) + 1
    <3>1. \A j \in 1..Len(log) : log[j].by # n
      BY <1>1, <2>1, <2>3
    <3>2. NoEntry(n)
      BY <1>1, <3>1 DEF NoEntry, Range
    <3> QED BY <1>1, <2>1, <2>3, <3>2
  <2> QED BY <1>1, <2>1, <2>2, <2>3
<1> QED BY <1>2, <1>3

\* What has not grown, or grew by what another coroutine did.
LogOfOthers(n) == log' = log \/ \E e : log' = Append(log, e) /\ (e.by = n => ~NoEntry(n))

LEMMA OthersLog ==
    ASSUME Sequence(log), NEW n, LogOfOthers(n)
    PROVE  /\ NoEntry(n)' <=> NoEntry(n)
           /\ \A d \in Range(log)' : FirstOf(n, d)' => d \in Range(log) /\ FirstOf(n, d)
<1>1. CASE log' = log
  BY <1>1 DEF NoEntry, FirstOf
<1>2. ASSUME NEW e, log' = Append(log, e), e.by = n => ~NoEntry(n)
      PROVE  /\ NoEntry(n)' <=> NoEntry(n)
             /\ \A d \in Range(log)' : FirstOf(n, d)' => d \in Range(log) /\ FirstOf(n, d)
  BY <1>2, LogAppended
<1> QED BY <1>1, <1>2 DEF LogOfOthers

\* A task that does nothing itself is as well off as before.
LEMMA TaskStays ==
    ASSUME TestInv, ids \in Nat, NEW n \in Tasks, TaskOK(n), AskedStays, StillGiven, LogOfOthers(n),
           stack'[n] = stack[n], requests'[n] = requests[n]
    PROVE  TaskOK(n)'
<1>1. /\ NoEntry(n)' <=> NoEntry(n)
      /\ \A d \in Range(log)' : FirstOf(n, d)' => d \in Range(log) /\ FirstOf(n, d)
  BY OthersLog DEF TestInv, LogOK
<1>2. \A e \in Range(log) : (Obliged(e)' => Obliged(e)) /\ (Given(e) => Given(e)')
  BY ObligedStays DEF StillGiven
<1>3. UNCHANGED <<backend, publishers, configs>>
  BY DEF AskedStays, declVars
<1>4. ASSUME Begins(n) PROVE Begins(n)'
  <2>1. PICK id \in DOMAIN asked, order \in Orders :
          asked[id] = order /\ stack[n][1].msg = RequestedMessage(order, id)
    BY <1>4 DEF Begins
  <2>2. id \in DOMAIN asked' /\ asked'[id] = order
    BY <2>1 DEF AskedStays
  <2>3. RequestedMessage(order, id)' = RequestedMessage(order, id)
    BY <1>3 DEF RequestedMessage, Requested, CommandOf, EndpointRequest, EndpointPublish, BrokerRequest,
                BrokerPublish, PublisherQueue
  <2> QED BY <1>1, <1>4, <2>1, <2>2, <2>3 DEF Begins
<1>5. ASSUME NEW e, Owes(n, e) PROVE Owes(n, e)'
  BY <1>3, <1>5 DEF Owes, Answers, Prompt
<1>6. Continues(n) => Continues(n)'
  BY <1>1, <1>2, <1>5 DEF Continues
<1>7. Ended(n) => Ended(n)'
  BY <1>1, <1>2, <1>3 DEF Ended, Prompt
<1> QED BY <1>1, <1>4, <1>6, <1>7 DEF TaskOK

\* A task that ends has answered, unless what follows its success raised.
LEMMA TaskEnds ==
    ASSUME TestInv, ids \in Nat, NEW n \in Tasks, TaskOK(n), AskedStays, StillGiven, log' = log,
           stack[n] # <<>>, stack'[n] = <<>>, NEW how \in {"ok", "raised", "cancelled"}, requests'[n] = how,
           how \in {"ok", "raised"} =>
              /\ stack[n][1].at = "scope"
              /\ \A e \in Range(log) : Owes(n, e) /\ (Prompt(e) \/ how = "ok") => Given(e)'
    PROVE  TaskOK(n)'
<1>1. \A d \in Range(log)' : FirstOf(n, d)' => d \in Range(log) /\ FirstOf(n, d)
  BY OthersLog DEF TestInv, LogOK, LogOfOthers
<1>2. \A e \in Range(log) : (Obliged(e)' => Obliged(e)) /\ (Given(e) => Given(e)')
  BY ObligedStays DEF StillGiven
<1>3. ASSUME how \in {"ok", "raised"} PROVE Ended(n)'
  <2>1. Continues(n)
    BY <1>3 DEF TaskOK, Begins
  <2>2. backend' = backend
    BY DEF AskedStays
  <2> SUFFICES ASSUME NEW e \in Range(log)', FirstOf(n, e)', Obliged(e)', Prompt(e)' \/ requests'[n] = "ok"
               PROVE  Given(e)'
    BY DEF Ended
  <2>3. e \in Range(log) /\ FirstOf(n, e) /\ Obliged(e)
    BY <1>1, <1>2
  <2>4. Given(e) \/ Owes(n, e)
    BY <2>1, <2>3 DEF Continues
  <2>5. Prompt(e)' = Prompt(e)
    BY <2>2 DEF Prompt
  <2> QED BY <1>2, <1>3, <2>3, <2>4, <2>5
<1> QED BY <1>3 DEF TaskOK

\* A task that goes on with the effects of its own message, or inside them.
LEMMA TaskContinues ==
    ASSUME TestInv, ids \in Nat, NEW n \in Tasks, Continues(n), AskedStays, StillGiven, LogOfOthers(n),
           requests'[n] = "running", stack'[n][1].at = "scope",
           \A e \in Range(log) : Owes(n, e) => Given(e)' \/ Owes(n, e)'
    PROVE  TaskOK(n)'
<1>1. /\ NoEntry(n)' <=> NoEntry(n)
      /\ \A d \in Range(log)' : FirstOf(n, d)' => d \in Range(log) /\ FirstOf(n, d)
  BY OthersLog DEF TestInv, LogOK
<1>2. \A e \in Range(log) : (Obliged(e)' => Obliged(e)) /\ (Given(e) => Given(e)')
  BY ObligedStays DEF StillGiven
<1>3. Continues(n)'
  BY <1>1, <1>2 DEF Continues
<1> QED BY <1>3 DEF TaskOK

LEMMA StackIs ==
    ASSUME TestInv, NEW c \in Callers \cup Tasks, stack[c] # <<>>
    PROVE  /\ stack[c] \in Seq(Range(stack[c])) /\ Len(stack[c]) \in Nat \ {0} /\ Top(c) = stack[c][Len(stack[c])]
           /\ IsFrame(Top(c), Range(log), ids, Len(subscribers)) /\ DOMAIN stack = Callers \cup Tasks
           /\ c \in Tasks => requests[c] = "running"
<1>1. stack[c] \in Seq(Range(stack[c])) /\ Frames(stack[c], Range(log), ids, Len(subscribers))
  BY DEF TestInv, StacksOK, Frames, Sequence
<1> QED BY <1>1, HeldByTop DEF TestInv, StacksOK, RequestsOK, Top, Frames

LEMMA SetTopIs ==
    ASSUME TestInv, NEW c \in Callers \cup Tasks, stack[c] # <<>>, NEW f
    PROVE  /\ SetTop(c, f) \in Seq(Range(SetTop(c, f))) /\ SetTop(c, f) # <<>>
           /\ Len(SetTop(c, f)) = Len(stack[c]) /\ SetTop(c, f)[Len(stack[c])] = f
           /\ \A i \in 1..Len(stack[c]) - 1 : SetTop(c, f)[i] = stack[c][i]
<1>1. stack[c] \in Seq(Range(stack[c]))
  BY StackIs
<1> QED BY <1>1, HeldByNewTop DEF SetTop

LEMMA OneBelow == ASSUME NEW k \in Nat \ {0}, k # 1 PROVE 1 \in 1..k - 1
OBVIOUS

\* Under a top of its own, the message of the task itself stays.
LEMMA RootOf ==
    ASSUME TestInv, NEW c \in Callers \cup Tasks, stack[c] # <<>>, NEW f
    PROVE  SetTop(c, f)[1] = IF Len(stack[c]) = 1 THEN f ELSE stack[c][1]
<1>1. /\ Len(stack[c]) \in Nat \ {0} /\ SetTop(c, f)[Len(stack[c])] = f
      /\ \A i \in 1..Len(stack[c]) - 1 : SetTop(c, f)[i] = stack[c][i]
  BY StackIs, SetTopIs
<1>2. Len(stack[c]) # 1 => 1 \in 1..Len(stack[c]) - 1
  BY <1>1, OneBelow
<1> QED BY <1>1, <1>2

\* The first entry of a task is that of the request: its answer is in the agenda.
LEMMA FirstHandler ==
    ASSUME DeclInv, TestInv, AskedOK, NEW n \in Tasks, stack[n] # <<>>, Begins(n), NEW ok \in BOOLEAN,
           log' = Append(log, Entry(n, ok)), stack' = [stack EXCEPT ![n] = SetTop(n, Scope(n, ok))],
           UNCHANGED <<declVars, asked, mode, backend, stored, pending, asking, answer, requests, snapshot, ids, calls>>
    PROVE  TaskOK(n)'
<1>0. PICK e, f, g, s, agenda :
         /\ e = Entry(n, ok) /\ f = Top(n) /\ g = Scope(n, ok) /\ s = subscribers[f.sub]
         /\ agenda = IF ok THEN SuccessAgenda(f.msg, s) ELSE FailureAgenda(f.msg, s)
  OBVIOUS
<1>1. /\ e.id = Id(f.msg) /\ e.ok = ok /\ e.sub = f.sub /\ e.by = n
  BY <1>0 DEF Entry
<1>2. /\ stack[n] \in Seq(Range(stack[n])) /\ Len(stack[n]) = 1 /\ f = stack[n][1]
      /\ IsFrame(f, Range(log), ids, Len(subscribers)) /\ DOMAIN stack = Callers \cup Tasks
      /\ requests[n] = "running" /\ NoEntry(n)
  BY <1>0, StackIs DEF Begins
<1>3. g.at = "scope" /\ g.agenda = agenda
  <2>1. g = [f EXCEPT !.at = "scope", !.raising = ~ok, !.agenda = agenda]
    BY <1>0, Zenon DEF Scope
  <2>2. DOMAIN f = {"msg", "sub", "at", "agenda", "raising"}
    BY <1>2 DEF IsFrame
  <2> QED BY <2>1, <2>2
<1>4. stack'[n] # <<>> /\ Len(stack'[n]) = 1 /\ stack'[n][1] = g
  <2>1. stack'[n] = SetTop(n, g)
    BY <1>0, <1>2
  <2> QED BY <1>2, <2>1, SetTopIs
<1>5. PICK id \in DOMAIN asked, order \in Orders : asked[id] = order /\ f.msg = RequestedMessage(order, id)
  BY <1>2 DEF Begins
<1>6. /\ order.endpoint <= Len(publishers) /\ id \in 1..ids /\ ids \in Nat
      /\ Ignores(f.msg) = Ignored(id) /\ f.msg.correlation_id = id
      /\ backend = "none" => f.msg.reply_to = <<"reply", id>>
  <2>1. order.endpoint <= Len(publishers) /\ id \in 1..ids /\ ids \in Nat
    BY <1>5 DEF AskedOK, DeclInv
  <2> QED BY <1>5, <2>1, RequestedFields DEF Ignored
<1>7. Range(log') = Range(log) \cup {e} /\ Sequence(log)
  BY <1>0, HeldByMore DEF TestInv, LogOK, Sequence
<1>8. /\ ~NoEntry(n)'
      /\ \A d \in Range(log)' : FirstOf(n, d)' => d = e
  <2>1. \A d \in Range(log) : ~FirstOf(n, d)
    BY <1>2 DEF FirstOf, NoEntry
  <2>2. log' = Append(log, e)
    BY <1>0
  <2> QED BY <1>1, <1>7, <2>1, <2>2, LogAppended
<1>9. ASSUME Obliged(e)' PROVE Given(e)' \/ Owes(n, e)'
  <2>1. e.id = id /\ id \in Nat
    <3>1. e.id \in Nat
      BY <1>6, <1>9 DEF Obliged, AskedOK
    <3> QED BY <1>1, <1>2, <1>6, <3>1 DEF IsFrame, IsMessage
  <2>2. ~Ignores(f.msg)
    <3>1. Ignored(e.id)' = Ignored(e.id)
      BY DEF Ignored, CommandOf, EndpointRequest, EndpointPublish, BrokerRequest, BrokerPublish, PublisherQueue, declVars
    <3> QED BY <1>6, <1>9, <2>1, <3>1 DEF Obliged
  <2>3. ok \/ ack_policy(s) # "NACK_ON_ERROR"
    <3>1. Silent(e)' = Silent(e)
      BY Zenon DEF Silent, ack_policy, declVars
    <3> QED BY <1>0, <1>1, <1>9, <3>1 DEF Obliged, Silent
  <2>4. CASE backend = "none" /\ s.no_reply
    <3>1. subscribers'[e.sub].no_reply
      BY <1>0, <1>1, <2>4 DEF declVars
    <3> QED BY <2>4, <3>1 DEF Given
  <2>5. CASE ~(backend = "none" /\ s.no_reply)
    <3>1. Decorators(s.publishers)
      <4>1. s \in Range(subscribers)
        BY <1>0, <1>2, HeldIn DEF IsFrame, DeclInv, EndpointsOK, Sequence
      <4> QED BY <4>1 DEF DeclInv, EndpointsOK
    <3>2. PICK status : status = Outcome(e) /\ Logged(Id(f.msg), status, Range(log'))
      BY <1>1, <1>7 DEF Logged
    <3>3. IsMessage(f.msg, ids) /\ Id(f.msg) \in Nat /\ Id(f.msg) = id
      BY <1>1, <1>2, <2>1 DEF IsFrame
    <3>4. backend = "none" => ~s.no_reply /\ f.msg.reply_to = <<"reply", Id(f.msg)>>
      BY <1>6, <2>5, <3>3
    <3>5. backend \in {"none", "memory"}
      BY DEF DeclInv
    <3>6. PICK x \in Range(agenda) : Answers(x, Id(f.msg)) /\ (backend = "memory" \/ ~ok => Head(agenda) = x)
      <4>1. /\ ok => agenda = SuccessAgenda(f.msg, s) /\ status = "SUCCESS"
            /\ ~ok => agenda = FailureAgenda(f.msg, s) /\ status = "FAILURE"
        BY <1>0, <1>1, <3>2 DEF Outcome
      <4> QED BY <2>2, <2>3, <3>1, <3>2, <3>3, <3>4, <3>5, <4>1, AgendaAnswers
    <3>7. stack'[n][1].agenda = agenda
      BY <1>3, <1>4
    <3>8. backend' = backend
      OBVIOUS
    <3>9. Answers(x, e.id)'
      BY <1>1, <3>6, <3>8 DEF Answers
    <3> QED BY <1>1, <1>4, <3>6, <3>7, <3>8, <3>9 DEF Owes, Prompt
  <2> QED BY <2>4, <2>5
<1>10. Continues(n)'
  <2>1. stack'[n][1].at = "scope"
    BY <1>3, <1>4
  <2> QED BY <1>8, <1>9, <2>1 DEF Continues
<1>11. requests'[n] = "running"
  BY <1>2
<1> QED BY <1>10, <1>11 DEF TaskOK

LEMMA HandleTask ==
    ASSUME DeclInv, TestInv, AskedOK, NEW n \in Tasks, TaskOK(n), Handle(n), AskedStays, StillGiven
    PROVE  TaskOK(n)'
<1>1. /\ stack[n] # <<>> /\ Top(n).at = "handler" /\ ids \in Nat
      /\ UNCHANGED <<declVars, asked, mode, backend, stored, pending, asking, answer, requests, snapshot, ids, calls>>
  BY HandleParts DEF DeclInv
<1>2. PICK ok \in BOOLEAN : log' = Append(log, Entry(n, ok)) /\ stack' = [stack EXCEPT ![n] = SetTop(n, Scope(n, ok))]
  BY HandleParts
<1>3. CASE Begins(n)
  BY <1>1, <1>2, <1>3, FirstHandler
<1>4. CASE Continues(n)
  <2>1. /\ stack[n] \in Seq(Range(stack[n])) /\ Len(stack[n]) \in Nat \ {0} /\ Top(n) = stack[n][Len(stack[n])]
        /\ DOMAIN stack = Callers \cup Tasks /\ requests[n] = "running"
    BY <1>1, StackIs
  <2>2. Len(stack[n]) # 1
    BY <1>1, <1>4, <2>1 DEF Continues
  <2>3. stack'[n][1] = stack[n][1]
    <3>1. stack'[n] = SetTop(n, Scope(n, ok))
      BY <1>2, <2>1
    <3>2. SetTop(n, Scope(n, ok))[1] = stack[n][1]
      BY <1>1, <2>2, RootOf
    <3> QED BY <3>1, <3>2
  <2>4. LogOfOthers(n)
    BY <1>2, <1>4 DEF Continues, LogOfOthers
  <2>5. ASSUME NEW e \in Range(log), Owes(n, e) PROVE Owes(n, e)'
    <3>1. backend' = backend
      BY <1>1
    <3> QED BY <2>2, <2>3, <2>5, <3>1 DEF Owes, Answers, Prompt
  <2>6. requests'[n] = "running" /\ stack'[n][1].at = "scope"
    BY <1>1, <1>4, <2>1, <2>3 DEF Continues
  <2> QED BY <1>1, <1>4, <2>4, <2>5, <2>6, TaskContinues
<1> QED BY <1>1, <1>3, <1>4 DEF TaskOK

\* The effect that answers is not one that raises; once it is taken, it is answered.
LEMMA AnswerTaken ==
    ASSUME DeclInv, TestInv, AskedOK, mode = "testing", NEW c \in Callers \cup Tasks, Do(c), NEW e,
           Answers(Head(Top(c).agenda), e.id)
    PROVE  /\ Given(e)'
           /\ \/ stack' = [stack EXCEPT ![c] = Rest(c)] /\ requests' = requests
              \/ \E frame : stack' = [stack EXCEPT ![c] = Append(Rest(c), frame)] /\ requests' = requests
<1> DEFINE effect == Head(Top(c).agenda)
<1>1. /\ UNCHANGED <<subscribers, backend>>
      /\ \/ /\ Has(effect, "result")
            /\ stored' = Override(stored, [i \in {effect.result.task_id} |-> effect.result])
            /\ stack' = [stack EXCEPT ![c] = Rest(c)]
            /\ UNCHANGED <<pending, asking, answer, requests, ids>>
         \/ /\ Has(effect, "cmd") /\ stored' = stored
            /\ \/ effect.valid /\ Delivers(c, effect.cmd, Rest(c))
               \/ ~effect.valid /\ Ends(c, "raised") /\ UNCHANGED <<pending, ids>>
  BY Zenon DEF Do, declVars
<1> HIDE DEF effect
<1>2. Answers(effect, e.id) /\ backend \in {"none", "memory"}
  BY DEF effect, DeclInv
<1>3. CASE backend = "memory"
  <2>1. /\ ~Has(effect, "cmd") /\ effect.result.task_id = e.id
    BY <1>2, <1>3 DEF Answers, Has
  <2>2. e.id \in DOMAIN stored'
    BY <1>1, <2>1 DEF Override
  <2> QED BY <1>1, <1>3, <2>1, <2>2 DEF Given
<1>4. CASE backend = "none"
  <2> DEFINE cmd == effect.cmd
             reply == <<"reply", e.id>>
  <2>1. /\ ~Has(effect, "result") /\ effect.valid /\ cmd.type = "REPLY" /\ cmd.queue = reply
        /\ cmd.correlation_id = e.id /\ ~IsTask(cmd.body) /\ {"task_id", "status"} \subseteq DOMAIN cmd.body
        /\ cmd.body.task_id = e.id /\ cmd.body.status \in READY_STATES
    BY <1>2, <1>4 DEF Answers, Has
  <2>2. Delivers(c, cmd, Rest(c))
    BY <1>1, <2>1
  <2> HIDE DEF cmd
  <2>3. \A p \in Callers : Waits(p) /\ asking[p].id = e.id => reply \in DOMAIN pending
    BY <1>4 DEF AskedOK, ReplyQueue
  <2>4. PICK frame : frame = Frame(Delivery(cmd), find_handler(cmd.queue, Delivery(cmd)))
    OBVIOUS
  <2>5. \/ /\ cmd.queue \in DOMAIN pending /\ pending' = Told(cmd, Delivery(cmd).body)
           /\ stack' = [stack EXCEPT ![c] = Rest(c)] /\ UNCHANGED <<requests, asking, answer>>
        \/ /\ cmd.queue \notin DOMAIN pending
           /\ stack' = [stack EXCEPT ![c] = Append(Rest(c), frame)]
           /\ UNCHANGED <<requests, asking, answer>>
        \/ /\ cmd.queue \notin DOMAIN pending
           /\ stack' = [stack EXCEPT ![c] = Rest(c)] /\ UNCHANGED <<requests, asking, answer>>
    BY <2>1, <2>2, <2>4, DeliversParts, Zenon
  <2>6. asking' = asking /\ backend' = "none"
    BY <1>1, <1>4, <2>5
  <2>7. reply \in DOMAIN pending => reply \in DOMAIN pending' /\ pending'[reply] # None
    <3> SUFFICES ASSUME reply \in DOMAIN pending PROVE reply \in DOMAIN pending' /\ pending'[reply] # None
      OBVIOUS
    <3>1. pending' = Told(cmd, cmd.body)
      BY <2>1, <2>5 DEF Delivery, build_message
    <3>2. Last(reply) = e.id
      BY DEF Last
    <3>3. CASE pending[reply] = None
      <4>1. pending' = [pending EXCEPT ![reply] = cmd.body.status]
        BY <2>1, <3>1, <3>2, <3>3 DEF Told
      <4> QED BY <2>1, <4>1, NoneAssumption
    <3>4. CASE pending[reply] # None
      <4>1. pending' = pending
        BY <2>1, <3>1, <3>4 DEF Told
      <4> QED BY <3>4, <4>1
    <3> QED BY <3>3, <3>4
  <2>8. Given(e)'
    <3> SUFFICES ASSUME NEW p \in Callers, Waits(p)', asking'[p].id = e.id
                 PROVE  ReplyQueue(p)' \in DOMAIN pending' /\ pending'[ReplyQueue(p)'] # None
      BY <2>6 DEF Given
    <3>1. Waits(p) /\ asking[p].id = e.id /\ ReplyQueue(p)' = reply
      BY <2>6 DEF Waits, ReplyQueue
    <3> QED BY <2>3, <2>7, <3>1
  <2> QED BY <2>5, <2>8
<1> QED BY <1>2, <1>3, <1>4

\* What the next effect of a coroutine makes of its stack.
LEMMA DoStacks ==
    ASSUME NEW c, Do(c)
    PROVE  \/ stack' = [stack EXCEPT ![c] = Rest(c)] /\ requests' = requests
           \/ \E frame : stack' = [stack EXCEPT ![c] = Append(Rest(c), frame)] /\ requests' = requests
           \/ Ends(c, "raised")
<1>1. \/ stack' = [stack EXCEPT ![c] = Rest(c)] /\ requests' = requests
      \/ \E cmd : Delivers(c, cmd, Rest(c))
      \/ Ends(c, "raised")
  BY Zenon DEF Do
<1>2. ASSUME NEW cmd, Delivers(c, cmd, Rest(c))
      PROVE  \/ stack' = [stack EXCEPT ![c] = Rest(c)] /\ requests' = requests
             \/ \E frame : stack' = [stack EXCEPT ![c] = Append(Rest(c), frame)] /\ requests' = requests
             \/ Ends(c, "raised")
  <2>1. PICK frame : frame = Frame(Delivery(cmd), find_handler(cmd.queue, Delivery(cmd)))
    OBVIOUS
  <2>2. \/ stack' = [stack EXCEPT ![c] = Rest(c)] /\ requests' = requests
        \/ stack' = [stack EXCEPT ![c] = Append(Rest(c), frame)] /\ requests' = requests
        \/ Ends(c, "raised")
    BY <1>2, <2>1, DeliversParts, Zenon
  <2> QED BY <2>2
<1> QED BY <1>1, <1>2

LEMMA DoTask ==
    ASSUME DeclInv, TestInv, AskedOK, mode = "testing", NEW n \in Tasks, TaskOK(n), Do(n), AskedStays, StillGiven
    PROVE  TaskOK(n)'
<1>1. stack[n] # <<>> /\ Top(n).agenda # <<>> /\ log' = log /\ ids \in Nat
  BY DEF Do, Processing, DeclInv
<1>2. /\ stack[n] \in Seq(Range(stack[n])) /\ Len(stack[n]) \in Nat \ {0} /\ Top(n) = stack[n][Len(stack[n])]
      /\ DOMAIN stack = Callers \cup Tasks /\ requests[n] = "running"
      /\ IsFrame(Top(n), Range(log), ids, Len(subscribers))
  BY <1>1, StackIs
<1>3. Top(n).at = "scope" /\ Rest(n) # <<>>
  BY <1>1, RestFrames
<1>4. Continues(n)
  BY <1>1, <1>2, <1>3 DEF TaskOK, Begins
<1>5. PICK g : g = [Top(n) EXCEPT !.agenda = Tail(@)]
  OBVIOUS
<1>6. /\ g.at = "scope" /\ g.agenda = Tail(Top(n).agenda) /\ Rest(n) = SetTop(n, g)
      /\ Range(Top(n).agenda) = {Head(Top(n).agenda)} \cup Range(g.agenda)
  <2>1. DOMAIN Top(n) = {"msg", "sub", "at", "agenda", "raising"} /\ Sequence(Top(n).agenda)
    BY <1>2 DEF IsFrame, AllEffects
  <2>2. g.at = "scope" /\ g.agenda = Tail(Top(n).agenda)
    BY <1>3, <1>5, <2>1
  <2>3. Rest(n) = SetTop(n, g)
    BY <1>5 DEF Rest
  <2> QED BY <1>1, <2>1, <2>2, <2>3, HeldByRest DEF Sequence
<1>7. /\ Rest(n) \in Seq(Range(Rest(n))) /\ Len(Rest(n)) = Len(stack[n])
      /\ Rest(n)[1] = IF Len(stack[n]) = 1 THEN g ELSE stack[n][1]
  BY <1>1, <1>6, SetTopIs, RootOf
<1>8. ASSUME NEW e, Owes(n, e), Prompt(e) PROVE Answers(Head(Top(n).agenda), e.id)
  BY <1>2, <1>8 DEF Owes
<1>9. CASE Ends(n, "raised")
  <2>1. stack'[n] = <<>> /\ requests'[n] = "raised"
    BY <1>2, <1>9 DEF Ends, TestInv, RequestsOK
  <2>2. ASSUME NEW e \in Range(log), Owes(n, e), Prompt(e) PROVE Given(e)'
    BY <1>8, <2>2, AnswerTaken
  <2>3. stack[n][1].at = "scope"
    BY <1>4 DEF Continues
  <2> QED BY <1>1, <2>1, <2>2, <2>3, TaskEnds
<1>10. ASSUME NEW s, s[1] = Rest(n)[1], stack' = [stack EXCEPT ![n] = s], requests' = requests
       PROVE  TaskOK(n)'
  <2>1. stack'[n][1] = IF Len(stack[n]) = 1 THEN g ELSE stack[n][1]
    BY <1>2, <1>7, <1>10
  <2>2. stack'[n][1].at = "scope" /\ requests'[n] = "running"
    BY <1>2, <1>4, <1>6, <1>10, <2>1 DEF Continues
  <2>3. ASSUME NEW e \in Range(log), Owes(n, e) PROVE Given(e)' \/ Owes(n, e)'
    <3>1. CASE Prompt(e)
      BY <1>8, <2>3, <3>1, AnswerTaken
    <3>2. CASE ~Prompt(e)
      <4>1. backend' = backend
        BY DEF AskedStays
      <4>2. ~Prompt(e)'
        BY <3>2, <4>1 DEF Prompt
      <4>3. PICK x \in Range(stack[n][1].agenda) : Answers(x, e.id)
        BY <2>3 DEF Owes
      <4>4. CASE x \in Range(stack'[n][1].agenda)
        BY <4>1, <4>2, <4>3, <4>4 DEF Owes, Answers
      <4>5. CASE x \notin Range(stack'[n][1].agenda)
        <5>1. Len(stack[n]) = 1 /\ x = Head(Top(n).agenda)
          BY <1>2, <1>6, <2>1, <4>3, <4>5
        <5> QED BY <4>3, <5>1, AnswerTaken
      <4> QED BY <4>4, <4>5
    <3> QED BY <3>1, <3>2
  <2>4. LogOfOthers(n)
    BY <1>1 DEF LogOfOthers
  <2> QED BY <1>1, <1>4, <2>2, <2>3, <2>4, TaskContinues
<1>11. ASSUME NEW frame PROVE Append(Rest(n), frame)[1] = Rest(n)[1]
  <2>1. Len(Rest(n)) \in Nat \ {0}
    BY <1>2, <1>7
  <2> QED BY <1>7, <2>1, HeldByMore
<1> QED BY <1>9, <1>10, <1>11, DoStacks

LEMMA LeaveTask ==
    ASSUME DeclInv, TestInv, NEW n \in Tasks, TaskOK(n), Leave(n), AskedStays, StillGiven
    PROVE  TaskOK(n)'
<1>1. /\ stack[n] # <<>> /\ Top(n).agenda = <<>> /\ Top(n).at = "scope" /\ log' = log /\ ids \in Nat
      /\ \/ Ends(n, "raised")
         \/ Len(stack[n]) = 1 /\ Ends(n, "ok")
         \/ Len(stack[n]) # 1 /\ stack' = [stack EXCEPT ![n] = Front(stack[n])] /\ requests' = requests
  BY DEF Leave, Processing, DeclInv
<1>2. /\ stack[n] \in Seq(Range(stack[n])) /\ Len(stack[n]) \in Nat \ {0} /\ Top(n) = stack[n][Len(stack[n])]
      /\ DOMAIN stack = Callers \cup Tasks /\ requests[n] = "running"
  BY <1>1, StackIs
<1>3. Continues(n)
  BY <1>1, <1>2 DEF TaskOK, Begins
<1>4. ASSUME NEW e, Owes(n, e) PROVE Len(stack[n]) # 1 /\ ~Prompt(e)
  <2>1. Len(stack[n]) = 1 => Range(stack[n][1].agenda) = {}
    BY <1>1, <1>2, HeldByNone
  <2> QED BY <1>4, <2>1 DEF Owes
<1>5. stack[n][1].at = "scope"
  BY <1>3 DEF Continues
<1>6. ASSUME NEW how \in {"ok", "raised"}, Ends(n, how), how = "ok" => Len(stack[n]) = 1
      PROVE  TaskOK(n)'
  <2>1. stack'[n] = <<>> /\ requests'[n] = how
    BY <1>2, <1>6 DEF Ends, TestInv, RequestsOK
  <2> QED BY <1>1, <1>4, <1>5, <1>6, <2>1, TaskEnds
<1>7. CASE Len(stack[n]) # 1 /\ stack' = [stack EXCEPT ![n] = Front(stack[n])] /\ requests' = requests
  <2>1. stack'[n][1] = stack[n][1]
    <3>1. 1 \in 1..Len(stack[n]) - 1
      BY <1>2, <1>7, OneBelow
    <3>2. Front(stack[n])[1] = stack[n][1]
      BY <1>1, <1>2, <3>1, HeldByTop
    <3> QED BY <1>2, <1>7, <3>2
  <2>2. ASSUME NEW e \in Range(log), Owes(n, e) PROVE Owes(n, e)'
    <3>1. backend' = backend
      BY DEF AskedStays
    <3> QED BY <1>4, <2>1, <2>2, <3>1 DEF Owes, Answers, Prompt
  <2>3. LogOfOthers(n) /\ requests'[n] = "running" /\ stack'[n][1].at = "scope"
    BY <1>1, <1>2, <1>5, <1>7, <2>1 DEF LogOfOthers
  <2> QED BY <1>1, <1>3, <2>2, <2>3, TaskContinues
<1> QED BY <1>1, <1>6, <1>7

\* A call that is made takes an id that nobody has.
LEMMA NewCall ==
    ASSUME DeclInv, TestInv, AskedOK, NEW p \in Callers, NEW order \in Orders, order.endpoint <= Len(publishers),
           mode = "testing", UNCHANGED <<declVars, mode, backend, stored, log>>, ids' = ids + 1,
           asked' = Override(asked, [i \in {ids + 1} |-> order]), NEW op \in {"idle", "publish", "request"},
           asking' = [asking EXCEPT ![p] = [op |-> op, id |-> ids + 1]],
           \/ pending' = pending /\ (op = "request" => backend = "memory")
           \/ pending' = Override(pending, [q \in {<<"reply", ids + 1>>} |-> None])
    PROVE  AskedStays /\ StillGiven /\ AskedOK'
<1>1. /\ ids \in Nat /\ asking \in [Callers -> [op : {"idle", "publish", "request"}, id : 0..ids]]
      /\ UNCHANGED <<subscribers, publishers>>
  BY DEF DeclInv, TestInv, CallersOK, declVars
<1>2. /\ DOMAIN asked' = DOMAIN asked \cup {ids + 1} /\ asked'[ids + 1] = order
      /\ \A id \in DOMAIN asked : asked'[id] = asked[id] /\ id \in 1..ids
  <2>1. \A id \in DOMAIN asked : id \in 1..ids /\ id # ids + 1
    BY <1>1 DEF AskedOK
  <2>2. DOMAIN asked' = DOMAIN asked \cup {ids + 1} /\ asked'[ids + 1] = order
    BY DEF Override
  <2>3. \A id \in DOMAIN asked : asked'[id] = asked[id]
    BY <2>1 DEF Override
  <2> QED BY <2>1, <2>2, <2>3
<1>3. AskedStays
  BY <1>2 DEF AskedStays
<1>4. ASSUME NEW q \in Callers
      PROVE  /\ asking'[q] = IF q = p THEN [op |-> op, id |-> ids + 1] ELSE asking[q]
             /\ asking[q].id \in 0..ids
  BY <1>1
<1>5. \A id \in 0..ids : /\ <<"reply", id>> \in DOMAIN pending => <<"reply", id>> \in DOMAIN pending'
                         /\ <<"reply", id>> \in DOMAIN pending => pending'[<<"reply", id>>] = pending[<<"reply", id>>]
  <2>1. CASE pending' = pending
    BY <2>1
  <2>2. CASE pending' = Override(pending, [q \in {<<"reply", ids + 1>>} |-> None])
    <3> SUFFICES ASSUME NEW id \in 0..ids, <<"reply", id>> \in DOMAIN pending
                 PROVE  <<"reply", id>> \in DOMAIN pending' /\ pending'[<<"reply", id>>] = pending[<<"reply", id>>]
      OBVIOUS
    <3>1. id # ids + 1
      BY <1>1
    <3>2. <<"reply", id>> # <<"reply", ids + 1>>
      BY <3>1
    <3> QED BY <2>2, <3>2 DEF Override
  <2> QED BY <2>1, <2>2
<1>6. StillGiven
  <2> SUFFICES ASSUME NEW e \in Range(log), Given(e) PROVE Given(e)'
    BY DEF StillGiven
  <2>1. e.id # ids + 1
    <3>1. e.id \in Nat => e.id \in 1..ids
      BY DEF TestInv, LogOK, Past
    <3> QED BY <1>1, <3>1
  <2>2. ASSUME NEW q \in Callers, Waits(q)', asking'[q].id = e.id
        PROVE  /\ Waits(q) /\ asking[q].id = e.id
               /\ ReplyQueue(q) \in DOMAIN pending /\ pending[ReplyQueue(q)] # None =>
                     ReplyQueue(q) \in DOMAIN pending' /\ pending'[ReplyQueue(q)] # None
    <3>1. q # p
      BY <1>4, <2>1, <2>2
    <3>2. asking'[q] = asking[q]
      BY <1>4, <3>1
    <3>3. Waits(q) /\ asking[q].id = e.id
      BY <2>2, <3>2 DEF Waits
    <3> QED BY <1>4, <1>5, <3>3 DEF ReplyQueue
  <2> QED BY <1>1, <2>2, GivenStays
<1>7. AskedOK'
  <2>1. DOMAIN asked' \subseteq 1..ids'
    BY <1>1, <1>2
  <2>2. \A id \in DOMAIN asked' : asked'[id] \in Orders /\ asked'[id].endpoint <= Len(publishers')
    BY <1>1, <1>2 DEF AskedOK
  <2>3. ASSUME NEW q \in Callers, NEW r \in Callers, Waits(q)', Waits(r)', asking'[q].id = asking'[r].id
        PROVE  q = r
    <3>1. CASE q # p /\ r # p
      BY <1>4, <2>3, <3>1 DEF Waits, AskedOK
    <3>2. CASE q = p \/ r = p
      <4>1. asking[q].id # ids + 1 /\ asking[r].id # ids + 1
        BY <1>1, <1>4
      <4> QED BY <1>4, <2>3, <3>2, <4>1
    <3> QED BY <3>1, <3>2
  <2>4. ASSUME backend' = "none", NEW q \in Callers, Waits(q)' PROVE ReplyQueue(q)' \in DOMAIN pending'
    <3>1. CASE q = p
      <4>1. asking'[q] = [op |-> op, id |-> ids + 1] /\ op = "request"
        BY <1>4, <2>4, <3>1 DEF Waits
      <4>2. pending' = Override(pending, [k \in {<<"reply", ids + 1>>} |-> None])
        BY <2>4, <4>1
      <4>3. <<"reply", ids + 1>> \in DOMAIN pending'
        BY <4>2 DEF Override
      <4> QED BY <4>1, <4>3 DEF ReplyQueue
    <3>2. CASE q # p
      <4>1. asking'[q] = asking[q] /\ Waits(q) /\ asking[q].id \in 0..ids
        BY <1>4, <2>4, <3>2 DEF Waits
      <4>2. ReplyQueue(q) \in DOMAIN pending
        BY <2>4, <4>1 DEF AskedOK
      <4> QED BY <1>5, <4>1, <4>2 DEF ReplyQueue
    <3> QED BY <3>1, <3>2
  <2> QED BY <2>1, <2>2, <2>3, <2>4 DEF AskedOK
<1> QED BY <1>3, <1>6, <1>7

\* A step that makes no call, and leaves waiting at most who waited.
LEMMA CallsGoOn ==
    ASSUME DeclInv, TestInv, AskedOK, UNCHANGED <<declVars, backend, asked>>, ids' \in {ids, ids + 1},
           DOMAIN stored \subseteq DOMAIN stored',
           \A p \in Callers : Waits(p)' => Waits(p) /\ asking'[p].id = asking[p].id,
           \A p \in Callers : Waits(p)' /\ ReplyQueue(p) \in DOMAIN pending /\ pending[ReplyQueue(p)] # None =>
               ReplyQueue(p) \in DOMAIN pending' /\ pending'[ReplyQueue(p)] # None,
           mode' \in {"testing", "leaving"} =>
               /\ mode \in {"testing", "leaving"}
               /\ \A p \in Callers : Waits(p)' /\ ReplyQueue(p) \in DOMAIN pending => ReplyQueue(p) \in DOMAIN pending'
    PROVE  AskedStays /\ StillGiven /\ AskedOK'
<1>1. ids \in Nat /\ UNCHANGED <<subscribers, publishers>>
  BY DEF DeclInv, declVars
<1>2. AskedStays
  BY DEF AskedStays
<1>3. StillGiven
  <2> SUFFICES ASSUME NEW e \in Range(log), Given(e) PROVE Given(e)'
    BY DEF StillGiven
  <2> QED BY <1>1, GivenStays
<1>4. AskedOK'
  <2>1. DOMAIN asked' \subseteq 1..ids'
    BY <1>1 DEF AskedOK
  <2>2. \A id \in DOMAIN asked' : asked'[id] \in Orders /\ asked'[id].endpoint <= Len(publishers')
    BY <1>1 DEF AskedOK
  <2>3. \A p \in Callers : Waits(p)' => ReplyQueue(p)' = ReplyQueue(p)
    BY DEF ReplyQueue
  <2>4. \A p, q \in Callers : Waits(p)' /\ Waits(q)' /\ asking'[p].id = asking'[q].id => p = q
    BY DEF AskedOK
  <2>5. backend' = "none" /\ mode' \in {"testing", "leaving"} =>
           \A p \in Callers : Waits(p)' => ReplyQueue(p)' \in DOMAIN pending'
    BY <2>3 DEF AskedOK
  <2> QED BY <2>1, <2>2, <2>4, <2>5 DEF AskedOK
<1> QED BY <1>2, <1>3, <1>4

LEMMA ToldKeeps ==
    ASSUME NEW cmd, NEW message, pending' = Told(cmd, message)
    PROVE  /\ DOMAIN pending' = DOMAIN pending
           /\ \A q \in DOMAIN pending : pending[q] # None => pending'[q] # None
<1>1. CASE pending' = pending
  BY <1>1
<1>2. CASE pending' # pending
  <2>1. pending' = [pending EXCEPT ![cmd.queue] = message.status] /\ message.status \in READY_STATES
    BY <1>2, Zenon DEF Told
  <2> QED BY <2>1, NoneAssumption
<1> QED BY <1>1, <1>2

LEMMA EndsCalls ==
    ASSUME TestInv, NEW c \in Callers \cup Tasks, stack[c] # <<>>, NEW how, Ends(c, how)
    PROVE  \A p \in Callers : Waits(p)' => Waits(p) /\ asking'[p].id = asking[p].id
<1>1. \/ asking' = asking
      \/ c \in Callers /\ asking' = [asking EXCEPT ![c].op = "idle"]
  BY DEF Ends
<1>2. \A p \in Callers : p \in DOMAIN asking /\ "op" \in DOMAIN asking[p]
  BY DEF TestInv, CallersOK
<1> QED BY <1>1, <1>2 DEF Waits

\* What a coroutine does answers calls, and makes none.
LEMMA ProceedsCalls ==
    ASSUME DeclInv, TestInv, AskedOK, mode = "testing", NEW c \in Callers \cup Tasks, Proceeds(c)
    PROVE  AskedStays /\ StillGiven /\ AskedOK'
<1>1. /\ UNCHANGED <<declVars, backend, asked, mode>> /\ stack[c] # <<>>
  BY DEF Proceeds, Handle, Do, Leave, Processing
<1>2. asking' = asking \/ Ends(c, "raised") \/ Ends(c, "ok")
  <2>1. CASE Handle(c)
    BY <2>1 DEF Handle
  <2>2. CASE Leave(c)
    BY <2>2 DEF Leave
  <2>3. CASE Do(c)
    <3>1. asking' = asking \/ (\E cmd : Delivers(c, cmd, Rest(c))) \/ Ends(c, "raised")
      BY <2>3, Zenon DEF Do
    <3>2. ASSUME NEW cmd, Delivers(c, cmd, Rest(c)) PROVE asking' = asking \/ Ends(c, "raised")
      BY <3>2, DeliversParts, Zenon
    <3> QED BY <3>1, <3>2
  <2> QED BY <2>1, <2>2, <2>3 DEF Proceeds
<1>3. /\ DOMAIN stored \subseteq DOMAIN stored' /\ ids' \in {ids, ids + 1}
      /\ DOMAIN pending' = DOMAIN pending
      /\ \A q \in DOMAIN pending : pending[q] # None => pending'[q] # None
  <2>1. CASE Handle(c) \/ Leave(c)
    BY <2>1 DEF Handle, Leave
  <2>2. CASE Do(c)
    <3>1. \/ \E x : stored' = Override(stored, x) /\ UNCHANGED <<pending, ids>>
          \/ stored' = stored /\ UNCHANGED <<pending, ids>>
          \/ stored' = stored /\ \E cmd : Delivers(c, cmd, Rest(c))
      BY <2>2, Zenon DEF Do
    <3>2. \A x : DOMAIN stored \subseteq DOMAIN Override(stored, x)
      BY DEF Override
    <3>3. ASSUME NEW cmd, Delivers(c, cmd, Rest(c))
          PROVE  /\ ids' \in {ids, ids + 1} /\ DOMAIN pending' = DOMAIN pending
                 /\ \A q \in DOMAIN pending : pending[q] # None => pending'[q] # None
      <4>1. ids' \in {ids, ids + 1} /\ (pending' = pending \/ pending' = Told(cmd, Delivery(cmd).body))
        BY <3>3, DeliversParts, Zenon
      <4> QED BY <4>1, ToldKeeps
    <3> QED BY <3>1, <3>2, <3>3
  <2> QED BY <2>1, <2>2 DEF Proceeds
<1>4. \A p \in Callers : Waits(p)' => Waits(p) /\ asking'[p].id = asking[p].id
  BY <1>1, <1>2, EndsCalls DEF Waits
<1> QED BY <1>1, <1>3, <1>4, CallsGoOn

LEMMA OnlyItself ==
    ASSUME DeclInv, TestInv, NEW c \in Callers \cup Tasks, Proceeds(c), NEW n \in Tasks, n # c
    PROVE  stack'[n] = stack[n] /\ requests'[n] = requests[n] /\ LogOfOthers(n)
<1>1. DOMAIN stack = Callers \cup Tasks /\ DOMAIN requests = Tasks
  BY DEF TestInv, StacksOK, RequestsOK
<1>2. ASSUME NEW how, Ends(c, how) PROVE stack'[n] = stack[n] /\ requests'[n] = requests[n]
  BY <1>1, <1>2 DEF Ends
<1>3. CASE Handle(c)
  <2>1. PICK ok \in BOOLEAN : log' = Append(log, Entry(c, ok)) /\ stack' = [stack EXCEPT ![c] = SetTop(c, Scope(c, ok))]
    BY <1>3, HandleParts
  <2>2. Entry(c, ok).by = c
    BY DEF Entry
  <2>3. LogOfOthers(n)
    BY <2>1, <2>2 DEF LogOfOthers
  <2> QED BY <1>1, <1>3, <2>1, <2>3 DEF Handle
<1>4. CASE Do(c)
  <2>1. log' = log
    BY <1>4 DEF Do
  <2> QED BY <1>1, <1>2, <1>4, <2>1, DoStacks DEF LogOfOthers
<1>5. CASE Leave(c)
  BY <1>1, <1>2, <1>5 DEF Leave, LogOfOthers
<1> QED BY <1>3, <1>4, <1>5 DEF Proceeds

\* Handlers end, and effects are taken, while the test runs.
LEMMA ProceedsInTest ==
    ASSUME DeclInv, TestInv, ExitInv, NEW c \in Callers \cup Tasks, Proceeds(c)
    PROVE  mode = "testing"
<1>1. Processing(c)
  BY DEF Proceeds, Handle, Do, Leave
<1>2. InTest
  BY InTestStays DEF TestStep
<1> QED BY <1>1, <1>2, NobodyProceeds DEF InTest

LEMMA PublishAnswers ==
    ASSUME DeclInv, TestInv, AnswerInv, NEW p \in Callers, CallPublish(p)
    PROVE  AnswerInv'
<1>1. /\ mode = "testing" /\ UNCHANGED <<declVars, mode, backend, stored, log, pending, requests>>
  BY DEF CallPublish, Calling
<1>2. PICK order \in Callable, op \in {"idle", "publish", "request"} :
        /\ ids' = ids + 1 /\ asked' = Override(asked, [i \in {ids + 1} |-> order]) /\ op # "request"
        /\ asking' = [asking EXCEPT ![p] = [op |-> op, id |-> ids + 1]]
        /\ stack' = stack \/ \E s : stack' = [stack EXCEPT ![p] = s]
  BY Zenon DEF CallPublish
<1>3. order \in Orders /\ order.endpoint <= Len(publishers) /\ AskedOK
  BY DEF Callable, AnswerInv
<1>4. AskedStays /\ StillGiven /\ AskedOK'
  BY <1>1, <1>2, <1>3, NewCall
<1>5. \A n \in Tasks : stack'[n] = stack[n] /\ requests'[n] = requests[n]
  BY <1>1, <1>2, CallerAssumption DEF TestInv, StacksOK
<1>6. \A n \in Tasks : TaskOK(n)'
  BY <1>1, <1>4, <1>5, TaskStays DEF AnswerInv, LogOfOthers, DeclInv
<1> QED BY <1>4, <1>6 DEF AnswerInv

LEMMA RequestAnswers ==
    ASSUME DeclInv, TestInv, AnswerInv, NEW p \in Callers, CallRequest(p)
    PROVE  AnswerInv'
<1> DEFINE free == {n \in Tasks : requests[n] = "none"}
<1>1. PICK order \in Callable, id \in {ids + 1} :
        LET msg == RequestedMessage(order, id)
            handler == find_handler(Requested(order, id).queue, msg)
        IN /\ order \in Orders /\ order.endpoint <= Len(publishers)
           /\ ids' = id
           /\ asking[p].op = "idle" /\ mode = "testing" /\ calls < MaxCalls /\ calls' = calls + 1
           /\ UNCHANGED <<declVars, mode, backend, stored, snapshot, log>>
           /\ pending' = IF backend = "memory" THEN pending
                         ELSE Override(pending, [q \in {<<"reply", id>>} |-> None])
           /\ asked' = Override(asked, [i \in {id} |-> order])
           /\ asking' = [asking EXCEPT ![p] = [op |-> "request", id |-> id]]
           /\ answer' = [answer EXCEPT ![p] = "none"]
           /\ \/ handler = None /\ UNCHANGED <<stack, requests>>
              \/ /\ handler # None /\ free # {}
                 /\ requests' = [requests EXCEPT ![Min(free)] = "running"]
                 /\ stack' = [stack EXCEPT ![Min(free)] = <<Frame(msg, handler)>>]
  BY RequestParts
<1>2. PICK msg : msg = RequestedMessage(order, id)
  OBVIOUS
<1>3. PICK frame : frame.msg = msg /\ frame.at = "handler" /\
        (\/ UNCHANGED <<stack, requests>>
         \/ /\ free # {} /\ requests' = [requests EXCEPT ![Min(free)] = "running"]
            /\ stack' = [stack EXCEPT ![Min(free)] = <<frame>>])
  <2>1. \A h : Frame(msg, h).msg = msg /\ Frame(msg, h).at = "handler"
    BY DEF Frame
  <2> QED BY <1>1, <1>2, <2>1
<1>4. /\ id = ids + 1 /\ order \in Orders /\ order.endpoint <= Len(publishers) /\ mode = "testing"
      /\ ids' = ids + 1 /\ UNCHANGED <<declVars, mode, backend, stored, log>>
      /\ asked' = Override(asked, [i \in {ids + 1} |-> order])
      /\ asking' = [asking EXCEPT ![p] = [op |-> "request", id |-> ids + 1]]
      /\ \/ pending' = pending /\ backend = "memory"
         \/ pending' = Override(pending, [q \in {<<"reply", ids + 1>>} |-> None])
  BY <1>1
<1>5. AskedStays /\ StillGiven /\ AskedOK' /\ ids \in Nat
  BY <1>4, NewCall DEF AnswerInv, DeclInv
<1>6. DOMAIN stack = Callers \cup Tasks /\ DOMAIN requests = Tasks /\ (free # {} => Min(free) \in free)
  <2>1. \A n \in free : n \in Nat
    BY BoundAssumption DEF Tasks
  <2> QED BY <2>1, MinIn DEF TestInv, StacksOK, RequestsOK
<1> HIDE DEF free
<1>7. ASSUME NEW n \in Tasks, stack'[n] = stack[n], requests'[n] = requests[n] PROVE TaskOK(n)'
  BY <1>4, <1>5, <1>7, TaskStays DEF AnswerInv, LogOfOthers
<1>8. ASSUME NEW n \in Tasks, n = Min(free), free # {}, stack'[n] = <<frame>>, requests'[n] = "running"
      PROVE  TaskOK(n)'
  <2>1. NoEntry(n)
    BY <1>6, <1>8 DEF AnswerInv, TaskOK, free
  <2>2. NoEntry(n)'
    BY <1>4, <2>1 DEF NoEntry
  <2>3. id \in DOMAIN asked' /\ asked'[id] = order
    BY <1>4 DEF Override
  <2>4. RequestedMessage(order, id)' = RequestedMessage(order, id)
    <3>1. UNCHANGED <<backend, publishers, configs>>
      BY <1>4 DEF declVars
    <3> QED BY <3>1 DEF RequestedMessage, Requested, CommandOf, EndpointRequest, EndpointPublish, BrokerRequest,
                BrokerPublish, PublisherQueue
  <2>5. /\ Len(stack'[n]) = 1 /\ stack'[n][1].at = "handler"
        /\ stack'[n][1].msg = RequestedMessage(order, id)'
    BY <1>2, <1>3, <1>8, <2>4
  <2>6. Begins(n)'
    BY <1>4, <2>2, <2>3, <2>5 DEF Begins
  <2> QED BY <1>8, <2>6 DEF TaskOK
<1>9. ASSUME NEW n \in Tasks PROVE TaskOK(n)'
  <2>1. CASE UNCHANGED <<stack, requests>>
    BY <1>7, <2>1
  <2>2. CASE /\ free # {} /\ requests' = [requests EXCEPT ![Min(free)] = "running"]
             /\ stack' = [stack EXCEPT ![Min(free)] = <<frame>>]
    <3>1. n = Min(free) => stack'[n] = <<frame>> /\ requests'[n] = "running"
      BY <1>6, <2>2
    <3>2. n # Min(free) => stack'[n] = stack[n] /\ requests'[n] = requests[n]
      BY <1>6, <2>2
    <3> QED BY <1>7, <1>8, <2>2, <3>1, <3>2
  <2> QED BY <1>3, <2>1, <2>2
<1> QED BY <1>5, <1>9 DEF AnswerInv

\* A step of no coroutine: calls return, the test leaves.
LEMMA TasksStay ==
    ASSUME DeclInv, TestInv, AnswerInv, AskedStays, StillGiven, AskedOK', UNCHANGED <<stack, requests, log>>
    PROVE  AnswerInv'
<1>1. \A n \in Tasks : TaskOK(n)'
  BY TaskStays DEF AnswerInv, LogOfOthers, DeclInv
<1> QED BY <1>1 DEF AnswerInv

LEMMA ReturnAnswers ==
    ASSUME DeclInv, TestInv, AnswerInv, NEW p \in Callers, Return(p)
    PROVE  AnswerInv'
<1>1. /\ Waits(p) /\ asking' = [asking EXCEPT ![p].op = "idle"]
      /\ pending' = [q \in DOMAIN pending \ {ReplyQueue(p)} |-> pending[q]]
      /\ UNCHANGED <<declVars, asked, mode, backend, stored, stack, requests, ids, log>>
  BY DEF Return
<1>2. \A q \in Callers : Waits(q)' => q # p /\ Waits(q) /\ asking'[q] = asking[q]
  BY <1>1 DEF TestInv, CallersOK, Waits
<1>3. \A q \in Callers : Waits(q)' => ReplyQueue(q) # ReplyQueue(p)
  <2> SUFFICES ASSUME NEW q \in Callers, Waits(q)' PROVE ReplyQueue(q) # ReplyQueue(p)
    OBVIOUS
  <2>1. asking[q].id # asking[p].id
    BY <1>1, <1>2 DEF AnswerInv, AskedOK
  <2> QED BY <2>1 DEF ReplyQueue
<1>4. AskedStays /\ StillGiven /\ AskedOK'
  <2>1. DeclInv /\ TestInv /\ AskedOK /\ UNCHANGED <<declVars, backend, asked>> /\ ids' \in {ids, ids + 1}
        /\ DOMAIN stored \subseteq DOMAIN stored'
    BY <1>1 DEF AnswerInv
  <2>2. \A q \in Callers : Waits(q)' => Waits(q) /\ asking'[q].id = asking[q].id
    BY <1>2
  <2>3. \A q \in Callers : Waits(q)' /\ ReplyQueue(q) \in DOMAIN pending =>
               ReplyQueue(q) \in DOMAIN pending' /\ pending'[ReplyQueue(q)] = pending[ReplyQueue(q)]
    BY <1>1, <1>3
  <2> QED BY <1>1, <2>1, <2>2, <2>3, CallsGoOn
<1> QED BY <1>1, <1>4, TasksStay

LEMMA UnwindAnswers ==
    ASSUME DeclInv, TestInv, AnswerInv, NEW n \in Tasks, Unwind(n)
    PROVE  AnswerInv'
<1>1. /\ requests[n] = "running" /\ requests' = [requests EXCEPT ![n] = "cancelled"]
      /\ stack' = [stack EXCEPT ![n] = <<>>]
      /\ UNCHANGED <<declVars, asked, mode, backend, stored, pending, asking, ids, log>>
  BY DEF Unwind
<1>2. /\ DOMAIN stack = Callers \cup Tasks /\ DOMAIN requests = Tasks /\ stack[n] # <<>> /\ ids \in Nat
  BY <1>1 DEF TestInv, StacksOK, RequestsOK, DeclInv
<1>3. AskedStays /\ StillGiven /\ AskedOK'
  <2>1. \A p \in Callers : Waits(p)' => Waits(p) /\ asking'[p].id = asking[p].id
    BY <1>1 DEF Waits
  <2> QED BY <1>1, <2>1, CallsGoOn DEF AnswerInv
<1>4. TaskOK(n)'
  <2>1. stack'[n] = <<>> /\ requests'[n] = "cancelled"
    BY <1>1, <1>2
  <2> QED BY <1>1, <1>2, <1>3, <2>1, TaskEnds DEF AnswerInv
<1>5. ASSUME NEW k \in Tasks, k # n PROVE TaskOK(k)'
  <2>1. stack'[k] = stack[k] /\ requests'[k] = requests[k]
    BY <1>1, <1>2, <1>5
  <2> QED BY <1>1, <1>2, <1>3, <2>1, TaskStays DEF AnswerInv, LogOfOthers
<1> QED BY <1>3, <1>4, <1>5 DEF AnswerInv

LEMMA ProceedsAnswers ==
    ASSUME DeclInv, TestInv, ExitInv, AnswerInv, NEW c \in Callers \cup Tasks, Proceeds(c)
    PROVE  AnswerInv'
<1>1. mode = "testing" /\ ids \in Nat /\ AskedOK
  BY ProceedsInTest DEF DeclInv, AnswerInv
<1>2. AskedStays /\ StillGiven /\ AskedOK'
  BY <1>1, ProceedsCalls
<1>3. ASSUME NEW n \in Tasks, n # c PROVE TaskOK(n)'
  BY <1>1, <1>2, <1>3, OnlyItself, TaskStays DEF AnswerInv
<1>4. ASSUME NEW n \in Tasks, n = c PROVE TaskOK(n)'
  <2>1. TaskOK(n) /\ (Handle(n) \/ Do(n) \/ Leave(n))
    BY <1>4 DEF AnswerInv, Proceeds
  <2> QED BY <1>1, <1>2, <2>1, HandleTask, DoTask, LeaveTask
<1> QED BY <1>2, <1>3, <1>4 DEF AnswerInv

LEMMA NotBegunIsAnswered == NotBegun /\ ids \in Nat => AnswerInv
<1> SUFFICES ASSUME NotBegun, ids \in Nat PROVE AnswerInv
  OBVIOUS
<1>1. AskedOK
  <2>1. DOMAIN asked = {} /\ \A p \in Callers : ~Waits(p)
    BY DEF NotBegun, NoHeaders, Waits
  <2> QED BY <2>1 DEF AskedOK
<1>2. \A n \in Tasks : stack[n] = <<>> /\ requests[n] = "none" /\ NoEntry(n)
  BY HeldByNone DEF NotBegun, NoEntry
<1> QED BY <1>1, <1>2 DEF AnswerInv, TaskOK

LEMMA NotBegunIsAnsweredNext == (NotBegun /\ ids \in Nat)' => AnswerInv'
BY NotBegunIsAnswered, PTL

LEMMA AnswerNext == DeclInv /\ TestInv /\ ExitInv /\ AnswerInv /\ [Next]_vars => AnswerInv'
<1> SUFFICES ASSUME DeclInv, TestInv, ExitInv, AnswerInv, [Next]_vars PROVE AnswerInv'
  OBVIOUS
<1>1. CASE DeclareNext \/ Start \/ Enter
  <2>1. NotBegun' /\ ids' \in Nat
    BY <1>1 DEF DeclareNext, Start, Enter, Declared, DeclInv, NotBegun, testVars
  <2> QED BY <2>1, NotBegunIsAnsweredNext
<1>2. CASE Exit \/ UNCHANGED vars
  <2>1. /\ mode' = mode \/ (mode = "testing" /\ mode' = "leaving")
        /\ UNCHANGED <<declVars, asked, backend, stored, pending, stack, asking, requests, ids, log>>
    BY <1>2 DEF Exit, vars, testVars
  <2>2. \A p \in Callers : Waits(p)' => Waits(p) /\ asking'[p].id = asking[p].id
    BY <2>1 DEF Waits
  <2>3. AskedStays /\ StillGiven /\ AskedOK'
    BY <2>1, <2>2, CallsGoOn DEF AnswerInv
  <2> QED BY <2>1, <2>3, TasksStay
<1>3. CASE Exited
  <2>1. /\ mode' = "left" /\ pending' = [q \in {q \in DOMAIN pending : pending[q] # None} |-> pending[q]]
        /\ UNCHANGED <<declVars, asked, backend, stored, stack, asking, requests, ids, log>>
    BY <1>3 DEF Exited
  <2>2. \A p \in Callers : Waits(p)' => Waits(p) /\ asking'[p].id = asking[p].id
    BY <2>1 DEF Waits
  <2>3. AskedStays /\ StillGiven /\ AskedOK'
    BY <2>1, <2>2, CallsGoOn DEF AnswerInv
  <2> QED BY <2>1, <2>3, TasksStay
<1>4. CASE \E p \in Callers : CallPublish(p) \/ CallRequest(p) \/ Return(p)
  BY <1>4, PublishAnswers, RequestAnswers, ReturnAnswers
<1>5. CASE \E c \in Callers \cup Tasks : Proceeds(c)
  BY <1>5, ProceedsAnswers
<1>6. CASE \E n \in Tasks : Unwind(n)
  BY <1>6, UnwindAnswers
<1> QED BY <1>1, <1>2, <1>3, <1>4, <1>5, <1>6 DEF Next

THEOREM AnswersHold == Spec => []AnswerInv
<1>1. Init => AnswerInv
  <2>1. Init => NotBegun /\ ids \in Nat
    BY DEF Init, NotBegun
  <2> QED BY <2>1, NotBegunIsAnswered
<1>2. DeclInv /\ TestInv /\ ExitInv /\ AnswerInv /\ [Next]_vars => AnswerInv'
  BY AnswerNext
<1> QED BY <1>1, <1>2, DeclarationsHold, TestHolds, ExitHolds, PTL DEF Spec

\* EndedMeansAnswered: whatever a handler leads to -- callbacks, chains, errbacks, handlers
\* inside its publications, errors of those -- its outcome is stored, or has reached the
\* caller that waits, when the asyncio task of the request has run to its end.
THEOREM EndedAreAnswered == Spec => []EndedMeansAnswered
<1>1. DeclInv /\ TestInv /\ AnswerInv => EndedMeansAnswered
  <2> SUFFICES ASSUME DeclInv, TestInv, AnswerInv, NEW k \in DOMAIN log, NEW e, e = log[k],
                      e.by \in Tasks, requests[e.by] \in {"ok", "raised"}, \A j \in 1..k - 1 : log[j].by # e.by,
                      e.id \in DOMAIN asked, ~Ignored(e.id), ~Silent(e),
                      backend = "memory" \/ requests[e.by] = "ok" \/ ~e.ok
               PROVE  Answered(e)
    BY DEF EndedMeansAnswered
  <2>1. e \in Range(log) /\ FirstOf(e.by, e)
    BY DEF FirstOf, Range
  <2>2. Ended(e.by)
    BY DEF AnswerInv, TaskOK
  <2>3. Given(e)
    BY <2>1, <2>2 DEF Ended, Obliged, Prompt
  <2> QED BY <2>3 DEF Given, Answered
<1> QED BY <1>1, DeclarationsHold, TestHolds, AnswersHold, PTL

-----------------------------------------------------------------------------
(* The fake's message and the one kombu delivers *)

LEMMA SentFields ==
    ASSUME NEW cmd, NEW id
    PROVE  LET sent == Sent(cmd, id, Now) IN
           /\ sent.body = Payload(cmd, id, Now).body /\ sent.headers = Payload(cmd, id, Now).headers
           /\ sent.correlation_id = Payload(cmd, id, Now).correlation_id /\ sent.reply_to = cmd.reply_to
<1> DEFINE payload == Payload(cmd, id, Now)
           to == Destination(cmd)
           back == [reply_to |-> cmd.reply_to]
<1>1. DOMAIN payload = {"body", "headers", "correlation_id"}
  BY DEF Payload, TaskPayload, RawPayload
<1>2. DOMAIN to = {"exchange", "routing_key"} /\ DOMAIN back = {"reply_to"} /\ back.reply_to = cmd.reply_to
  BY DEF Destination
<1>3. Sent(cmd, id, Now) = Override(Override(payload, to), back)
  BY DEF Sent
<1> HIDE DEF payload, to, back
<1> QED BY <1>1, <1>2, <1>3 DEF Override, payload

LEMMA SameMessage ==
    ASSUME NEW cmd, NEW id, cmd.correlation_id # None => id = cmd.correlation_id,
           IsTask(cmd.body) \/ cmd.correlation_id # None
    PROVE  LET fake == build_message(cmd, id, Now)
               sent == Sent(cmd, id, Now)
           IN /\ fake.body = sent.body /\ fake.headers = sent.headers
              /\ fake.correlation_id = sent.correlation_id /\ fake.reply_to = sent.reply_to
<1> DEFINE envelope == build_task_envelope(cmd.body, id, Now)
           fake == build_message(cmd, id, Now)
           payload == Payload(cmd, id, Now)
<1>1. /\ fake.body = IF IsTask(cmd.body) THEN envelope.body ELSE cmd.body
      /\ fake.headers = IF IsTask(cmd.body) THEN Override(envelope.headers, cmd.headers) ELSE cmd.headers
      /\ fake.correlation_id = id /\ fake.reply_to = cmd.reply_to
  BY DEF build_message, Headers
<1>2. /\ payload.body = IF IsTask(cmd.body) THEN envelope.body ELSE cmd.body
      /\ payload.headers = IF IsTask(cmd.body) THEN Override(envelope.headers, cmd.headers) ELSE cmd.headers
      /\ payload.correlation_id = IF IsTask(cmd.body) THEN id ELSE cmd.correlation_id
  BY DEF Payload, TaskPayload, RawPayload
<1> HIDE DEF envelope, fake, payload
<1> QED BY <1>1, <1>2, SentFields DEF fake, payload

\* What is seen of a message depends on these fields alone.
LEMMA SeenAlike ==
    ASSUME NEW m, NEW n, m.body = n.body, m.headers = n.headers, m.correlation_id = n.correlation_id,
           m.reply_to = n.reply_to
    PROVE  Seen(m) = Seen(n)
<1>1. parse_envelope(m) = parse_envelope(n)
  BY DEF parse_envelope
<1>2. read_embed(m) = read_embed(n)
  BY DEF read_embed
<1> QED BY <1>1, <1>2 DEF Seen

\* A task keeps its name on the way.
LEMMA SameTask ==
    ASSUME NoneIsNoMapping, NEW cmd, NEW id, IsTask(cmd.body), "task" \notin DOMAIN cmd.headers
    PROVE  Get(parse_envelope(build_message(cmd, id, Now)).headers, "task") = cmd.body.task
<1> DEFINE own == build_task_envelope(cmd.body, id, Now).headers
           fake == build_message(cmd, id, Now)
<1>1. fake.headers = Override(own, cmd.headers)
  BY DEF build_message, Headers
<1>2. "task" \in DOMAIN own /\ own.task = cmd.body.task
  BY DEF build_task_envelope
<1> HIDE DEF own, fake
<1>3. /\ "task" \in DOMAIN fake.headers /\ fake.headers["task"] = cmd.body.task
      /\ fake.headers = [k \in DOMAIN fake.headers |-> fake.headers[k]]
  BY <1>1, <1>2 DEF Override
<1>4. Has(fake.headers, "task")
  BY <1>3 DEF NoneIsNoMapping, Has
<1>5. parse_envelope(fake).headers = fake.headers
  BY <1>4 DEF parse_envelope
<1> QED BY <1>3, <1>4, <1>5 DEF Get, fake

LEMMA DeliveredTheSame ==
    ASSUME NoneIsNoMapping, NEW cmd, NEW next, IsTask(cmd.body) \/ cmd.correlation_id # None
    PROVE  LET id   == Or(cmd.correlation_id, next)
               fake == build_message(cmd, id, Now)
           IN  /\ Seen(fake) = Seen(Sent(cmd, id, Now))
               /\ get_consume_destination_name(fake) = get_publish_destination_name(cmd)
               /\ cmd.correlation_id # None /\ IsTask(cmd.body) /\ "task" \notin DOMAIN cmd.headers =>
                     get_consume_attrs_from_message(fake) = get_publish_attrs_from_cmd(cmd)
               /\ cmd.routing_key = None => ConsumedFrom(fake) = PublishedTo(cmd)
<1> DEFINE id == Or(cmd.correlation_id, next)
           fake == build_message(cmd, id, Now)
<1>1. cmd.correlation_id # None => id = cmd.correlation_id
  BY DEF Or
<1>2. /\ fake.correlation_id = id
      /\ fake.exchange = Or(cmd.exchange, cmd.queue) /\ fake.routing_key = Or(cmd.routing_key, cmd.queue)
  BY DEF build_message
<1> HIDE DEF id
<1>3. Seen(fake) = Seen(Sent(cmd, id, Now))
  BY <1>1, SameMessage, SeenAlike
<1>4. cmd.correlation_id # None /\ IsTask(cmd.body) /\ "task" \notin DOMAIN cmd.headers =>
         get_consume_attrs_from_message(fake) = get_publish_attrs_from_cmd(cmd)
  BY <1>1, <1>2, SameTask DEF get_consume_attrs_from_message, get_publish_attrs_from_cmd
<1> HIDE DEF fake
<1>5. get_consume_destination_name(fake) = get_publish_destination_name(cmd)
  BY <1>2 DEF get_consume_destination_name, get_publish_destination_name
<1>6. cmd.routing_key = None => ConsumedFrom(fake) = PublishedTo(cmd)
  BY <1>2 DEF ConsumedFrom, PublishedTo, Or
<1> QED BY <1>3, <1>4, <1>5, <1>6 DEF id, fake

LEMMA DocumentedPlaces == Documented
<1>1. ASSUME NEW p PROVE Destination(DecoratedCommand(p, None, 0)) = PublisherChannel(p)
  <2> DEFINE cmd == DecoratedCommand(p, None, 0)
  <2>1. cmd.queue = PublisherQueue(p) /\ cmd.exchange = p.exchange /\ cmd.routing_key = p.routing_key
    BY DEF DecoratedCommand, Command, Override
  <2> HIDE DEF cmd
  <2>2. Destination(cmd) = PublisherChannel(p)
    BY <2>1 DEF Destination, PublisherChannel, build_topology
  <2> QED BY <2>2 DEF cmd
<1>2. ASSUME NEW s PROVE Destination(Command(None, "PUBLISH", SubscriberQueue(s), NoHeaders)) = SubscriberChannel(s)
  <2> DEFINE cmd == Command(None, "PUBLISH", SubscriberQueue(s), NoHeaders)
  <2>1. cmd.queue = SubscriberQueue(s) /\ cmd.exchange = None /\ cmd.routing_key = None
    BY DEF Command, Override, NoHeaders
  <2> HIDE DEF cmd
  <2>2. Destination(cmd) = SubscriberChannel(s)
    BY <2>1 DEF Destination, SubscriberChannel, build_topology
  <2> QED BY <2>2 DEF cmd
<1> QED BY <1>1, <1>2 DEF Documented

\* What is about to be published has an id, unless it is a task.
LEMMA CommandsAreTraced ==
    ASSUME NoneIsNoMapping, DeclInv, TestInv, NEW cmd \in Commands
    PROVE  IsTask(cmd.body) \/ cmd.correlation_id # None
<1>1. ASSUME NEW e \in NextEffects, Has(e, "cmd"), cmd = e.cmd
      PROVE  IsTask(cmd.body) \/ cmd.correlation_id # None
  <2>1. PICK c \in DOMAIN stack : stack[c] # <<>> /\ Top(c).agenda # <<>> /\ e = Head(Top(c).agenda)
    BY <1>1 DEF NextEffects
  <2>2. IsFrame(Top(c), Range(log), ids, Len(subscribers))
    BY <2>1, StackIs DEF TestInv, StacksOK
  <2>3. IsEffect(e, Range(log), ids)
    BY <2>1, <2>2, HeldByRest DEF IsFrame, AllEffects, Sequence
  <2>4. "cmd" \in DOMAIN e
    BY <1>1 DEF Has
  <2>5. IsCommand(cmd, Range(log), ids)
    BY <1>1, <2>3, <2>4 DEF IsEffect
  <2> QED BY <2>5 DEF IsCommand, Traced
<1>2. ASSUME NEW order \in Callable, NEW type \in {"PUBLISH", "REQUEST"}, cmd = CommandOf(order, type, ids + 1)
      PROVE  cmd.correlation_id # None
  <2>1. order \in Orders /\ order.endpoint <= Len(publishers) /\ EndpointsOK
    BY DEF Callable, DeclInv
  <2>2. cmd.correlation_id = ids + 1
    BY <1>2, <2>1, OrderCommand
  <2> QED BY <2>2, NoneAssumption DEF DeclInv
<1>3. \/ \E e \in NextEffects : Has(e, "cmd") /\ cmd = e.cmd
      \/ \E order \in Callable, type \in {"PUBLISH", "REQUEST"} : cmd = CommandOf(order, type, ids + 1)
  <2> DEFINE Callable_ == {o \in Callable : mode = "testing" /\ calls < MaxCalls}
  <2>1. \/ cmd \in {effect.cmd : effect \in {e \in NextEffects : Has(e, "cmd")}}
        \/ cmd \in {CommandOf(order, type, ids + 1) : order \in Callable_, type \in {"PUBLISH", "REQUEST"}}
    BY DEF Commands
  <2>2. Callable_ \subseteq Callable
    OBVIOUS
  <2> HIDE DEF Callable_
  <2> QED BY <2>1, <2>2
<1> QED BY <1>1, <1>2, <1>3

\* FakeDeliversTheSame: whatever callers, canvases, replies and decorated handlers publish
\* in the test, the fake's message is the one that kombu would have delivered.  That None
\* is no mapping is all that is asked of it.
THEOREM FakeDelivers == NoneIsNoMapping => (Spec => []FakeDeliversTheSame)
<1> SUFFICES ASSUME NoneIsNoMapping PROVE Spec => []FakeDeliversTheSame
  OBVIOUS
<1>1. DeclInv /\ TestInv => FakeDeliversTheSame
  <2> SUFFICES ASSUME DeclInv, TestInv PROVE FakeDeliversTheSame
    OBVIOUS
  <2> QED BY CommandsAreTraced, DeliveredTheSame, DocumentedPlaces DEF FakeDeliversTheSame
<1> QED BY <1>1, DeclarationsHold, TestHolds, PTL
=============================================================================
