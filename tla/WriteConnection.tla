--------------------------- MODULE WriteConnection ---------------------------
(***************************************************************************)
(* The write side of a broker: broker/broker.py (connect, stop, ping),     *)
(* configs/broker.py and the publishing half of publisher/producer.py.     *)
(* Every publication uses one kombu connection, on some worker thread and  *)
(* under one lock; ping and disconnect use it on a worker thread, too, but *)
(* without the lock.                                                       *)
(*                                                                         *)
(* RequestCalls continues a request after its publication.  kombu is       *)
(* external: a connection is open or not, and a producer or a check that   *)
(* meets a closed one raises or opens it again.                            *)
(***************************************************************************)
EXTENDS Naturals, FiniteSets

CONSTANTS
    Callers,      \* coroutines that call the broker
    Backends,     \* result backends to configure: "none", "memory", "redis"
    Threads,      \* worker threads (anyio's limiter)
    Suspends,     \* may encoding a message give up the event loop?
    MaxConnects,  \* bound: connections
    MaxCalls      \* bound: calls

ASSUME WriteAssumption ==
    /\ Threads \in Nat \ {0} /\ MaxConnects \in Nat /\ MaxCalls \in Nat
    /\ Suspends \in BOOLEAN
    /\ Backends \subseteq {"none", "memory", "redis"} /\ Backends # {}
    /\ "nobody" \notin Callers

VARIABLES
    backend,     \* the configured result backend
    life,        \* where start() or stop() of the broker is
    connects,    \* connections made; connect() makes a lock with each
    wired,       \* the producer's connection (0: none)
    pinged,      \* the broker's _connection (0: none)
    open,        \* of a connection: is its socket open?
    holder,      \* of a lock: the caller inside
    call,        \* of a caller: its call -- what (op), where it is (at), the connection
                 \* it read (has), the lock it waits for or holds (lock)
    answer,      \* of a caller: how its last call ended
    calls,       \* calls so far
    sent         \* callers whose requested task is at the broker

lifeVars == <<backend, life, connects, wired, pinged>>
callVars == <<call, answer, calls>>
writeVars == <<lifeVars, open, holder, callVars, sent>>

Connections == 1..MaxConnects
Nobody == "nobody"

Places == {"idle", "building", "locking", "queued", "writing", "pinging", "checking",
           "loading", "asleep", "napping", "asking", "rpc"}
NoCall == [op |-> "none", at |-> "idle", has |-> 0, lock |-> 0]

WriteTypeOK ==
    /\ backend \in Backends
    /\ life \in {"off", "connecting", "on", "stopping", "disconnecting", "closing", "closed"}
    /\ connects \in 0..MaxConnects
    /\ wired \in {0, connects}
    /\ pinged \in {0, connects}
    /\ open \in [Connections -> BOOLEAN]
    /\ holder \in [Connections -> Callers \cup {Nobody}]
    /\ \A c \in Connections : holder[c] # Nobody =>
          call[holder[c]].at \in {"queued", "writing"} /\ call[holder[c]].lock = c
    /\ call \in [Callers -> [op : {"none", "publish", "request", "ping"}, at : Places,
                             has : 0..MaxConnects, lock : 0..MaxConnects]]
    /\ calls \in 0..MaxCalls
    /\ sent \subseteq Callers

WriteInit ==
    /\ backend \in Backends
    /\ life = "off" /\ connects = 0 /\ wired = 0 /\ pinged = 0
    /\ open = [c \in Connections |-> FALSE]
    /\ holder = [c \in Connections |-> Nobody]
    /\ call = [p \in Callers |-> NoCall]
    /\ answer = [p \in Callers |-> "none"]
    /\ calls = 0 /\ sent = {}

\* to_thread.run_sync: calls on a worker thread, and whether another may begin.
OnThread == {p \in Callers : call[p].at \in {"writing", "checking", "rpc"}}
FreeThread == Cardinality(OnThread) + (IF life = "closing" THEN 1 ELSE 0) < Threads

Goes(p, where) == call' = [call EXCEPT ![p].at = where] /\ UNCHANGED answer
Ends(p, how) == call' = [call EXCEPT ![p] = NoCall] /\ answer' = [answer EXCEPT ![p] = how]

-----------------------------------------------------------------------------
(* Life of the broker *)

\* start(): make_connection, whose connect() runs on a worker thread.
Connect ==
    /\ life = "off" /\ connects < MaxConnects
    /\ life' = "connecting"
    /\ UNCHANGED <<backend, connects, wired, pinged, open, holder, callVars, sent>>

\* producer.connect: the connection, and a new lock for it.
Wire == connects' = connects + 1 /\ wired' = connects'

\* CeleryBrokerConfig.connect, and the broker keeps the connection; without a server
\* start() raises.
Connected ==
    /\ life = "connecting" /\ FreeThread
    /\ \/ /\ Wire /\ life' = "on" /\ pinged' = connects'
          /\ open' = [open EXCEPT ![connects'] = TRUE]
       \/ life' = "off" /\ UNCHANGED <<connects, wired, pinged, open>>
    /\ UNCHANGED <<backend, holder, callVars, sent>>

\* stop(): first the subscribers,
Stop ==
    /\ life = "on"
    /\ life' = "stopping"
    /\ UNCHANGED <<backend, connects, wired, pinged, open, holder, callVars, sent>>

\* then producer.disconnect, which forgets the connection and closes it on a
\* worker thread,
Disconnect ==
    /\ life = "stopping"
    /\ life' = "disconnecting" /\ wired' = 0
    /\ UNCHANGED <<backend, connects, pinged, open, holder, callVars, sent>>

Close ==
    /\ life = "disconnecting" /\ FreeThread
    /\ life' = "closing"
    /\ UNCHANGED <<backend, connects, wired, pinged, open, holder, callVars, sent>>

\* then the backend, which waits only if it has a client to close, and the broker
\* forgets the connection last.
Closed ==
    /\ life = "closing"
    /\ open' = [open EXCEPT ![connects] = FALSE]
    /\ IF backend = "redis" THEN life' = "closed" /\ UNCHANGED pinged
                            ELSE life' = "off" /\ pinged' = 0
    /\ UNCHANGED <<backend, connects, wired, holder, callVars, sent>>

Forget ==
    /\ life = "closed"
    /\ life' = "off" /\ pinged' = 0
    /\ UNCHANGED <<backend, connects, wired, open, holder, callVars, sent>>

-----------------------------------------------------------------------------
(* publish(), and request() up to the publication *)

\* With a backend a request publishes through the same connection; without one it
\* goes to a worker thread with a connection of its own (RequestCalls).
AfterBuild(what) == IF what = "request" /\ backend = "none" THEN "asking" ELSE "locking"

\* publish() and request() of the producer read what connect() left, or raise
\* IncorrectState; _build_payload may give up the loop, and self._lock is read after it.
Call(p, what) ==
    /\ call[p].at = "idle" /\ calls < MaxCalls
    /\ calls' = calls + 1
    /\ sent' = sent \ {p}
    /\ IF wired = 0
       THEN Ends(p, "refused")
       ELSE /\ answer' = [answer EXCEPT ![p] = "none"]
            /\ call' = [call EXCEPT ![p] =
                 [op |-> what, at |-> IF Suspends THEN "building" ELSE AfterBuild(what),
                  has |-> wired, lock |-> connects]]
    /\ UNCHANGED <<lifeVars, open, holder>>

Built(p) ==
    /\ call[p].at = "building"
    /\ call' = [call EXCEPT ![p].at = AfterBuild(call[p].op), ![p].lock = connects]
    /\ UNCHANGED <<lifeVars, open, holder, answer, calls, sent>>

\* async with self._lock
AcquireFreely(p) == TRUE
MayAcquire(p) == holder[call[p].lock] = Nobody
Acquire(p) ==
    /\ call[p].at = "locking" /\ MayAcquire(p)
    /\ holder' = [holder EXCEPT ![call[p].lock] = p]
    /\ Goes(p, "queued")
    /\ UNCHANGED <<lifeVars, open, calls, sent>>

Write(p) ==
    /\ call[p].at = "queued" /\ FreeThread
    /\ Goes(p, "writing")
    /\ UNCHANGED <<lifeVars, open, holder, calls, sent>>

\* publish_sync: published, on a connection that is open or that kombu opens again,
\* or an error; the lock is released either way.
KeepLock(p) == holder
Released(p) == [holder EXCEPT ![call[p].lock] = Nobody]
Written(p) ==
    /\ call[p].at = "writing"
    /\ holder' = Released(p)
    /\ \/ /\ open' = [open EXCEPT ![call[p].has] = TRUE]
          /\ IF call[p].op = "request"
             THEN Goes(p, "loading") /\ sent' = sent \cup {p}
             ELSE Ends(p, "ok") /\ UNCHANGED sent
       \/ Ends(p, "error") /\ UNCHANGED <<open, sent>>
    /\ UNCHANGED <<lifeVars, calls>>

-----------------------------------------------------------------------------
(* ping() *)

\* Without a connection, or with a consumer that does not read, there is nothing to check.
Ping(p) ==
    /\ call[p].at = "idle" /\ calls < MaxCalls
    /\ calls' = calls + 1
    /\ \/ Ends(p, "dead")
       \/ /\ pinged # 0
          /\ answer' = [answer EXCEPT ![p] = "none"]
          /\ call' = [call EXCEPT ![p] =
               [op |-> "ping", at |-> "pinging", has |-> pinged, lock |-> 0]]
    /\ UNCHANGED <<lifeVars, open, holder, sent>>

\* The timeout can end the wait for a thread, not the check on it.
PingTimesOut(p) ==
    /\ call[p].at = "pinging" /\ Ends(p, "dead")
    /\ UNCHANGED <<lifeVars, open, holder, calls, sent>>

Check(p) ==
    /\ call[p].at = "pinging" /\ FreeThread
    /\ Goes(p, "checking")
    /\ UNCHANGED <<lifeVars, open, holder, calls, sent>>

\* _check_connection: ensure_connection opens a closed connection.
Checked(p) ==
    /\ call[p].at = "checking"
    /\ \/ Ends(p, "alive") /\ open' = [open EXCEPT ![call[p].has] = TRUE]
       \/ Ends(p, "dead") /\ UNCHANGED open
    /\ UNCHANGED <<lifeVars, holder, calls, sent>>

-----------------------------------------------------------------------------
\* The next step of start() or stop(), and of a call.
LifeGoesOn == Connected \/ Disconnect \/ Close \/ Forget
CallGoesOn(p) ==
    \/ Built(p) \/ Acquire(p) \/ Write(p) \/ Written(p)
    \/ PingTimesOut(p) \/ Check(p) \/ Checked(p)
WriteCalls == \E p \in Callers : Call(p, "publish") \/ Call(p, "request") \/ Ping(p)

-----------------------------------------------------------------------------
(* Properties *)

Writing(c) == {p \in Callers : call[p].at = "writing" /\ call[p].has = c}

\* "A lock keeps concurrent publishes from touching the connection at once"
\* (producer.py, CeleryFastProducer): across starts and stops, each start with a lock
\* of its own, no two publications write to one connection at the same time.  Left out
\* is a message that is still being encoded when the broker restarts: it takes the new
\* lock with the old producer (README, Known limits).
OneWriter ==
    \A c \in Connections : \A p, q \in Writing(c) :
        call[p].lock = c /\ call[q].lock = c => p = q

\* "kombu connections are not thread-safe" (producer.py; configs/broker.py,
\* _check_connection): whatever uses the write connection on a worker thread -- a
\* publication, a ping's check, the close -- uses it alone.
OneThreadAtATime ==
    \A c \in Connections :
        Cardinality({p \in OnThread : call[p].at # "rpc" /\ call[p].has = c})
            + (IF life = "closing" /\ connects = c THEN 1 ELSE 0) <= 1

=============================================================================
