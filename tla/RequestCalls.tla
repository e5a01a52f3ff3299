---------------------------- MODULE RequestCalls ----------------------------
(***************************************************************************)
(* request() of publisher/producer.py: after the publication it waits for  *)
(* a terminal result in backend/memory.py or backend/redis.py, or, without *)
(* a backend, publishes and waits on a worker thread with a connection and *)
(* a reply queue of its own.                                               *)
(*                                                                         *)
(* A request has a task id of its own (id_generator), so results and       *)
(* replies are kept by caller.  The executor is external: it reports       *)
(* states of published tasks, more than once if it likes.                  *)
(***************************************************************************)
EXTENDS WriteConnection, Sequences

CONSTANTS
    Terminal, Progress,  \* READY_STATES, and the states that keep a request waiting
    MaxReports           \* bound: reports of the executor

ASSUME StateAssumption ==
    /\ Terminal \cap Progress = {} /\ MaxReports \in Nat
    /\ (Terminal \cup Progress) \cap {"none", "foreign", "broken", "refused", "ok", "error",
                                       "alive", "dead", "timeout"} = {}

VARIABLES
    results,    \* of a caller's task: what the backend has recorded
    listening,  \* callers whose event is in _arrived
    woken,      \* sleeping callers whose event is set
    expired,    \* callers whose deadline has passed
    queue,      \* of a caller: its reply queue
    inhand,     \* of a caller: the reply that drain_events brought
    finished,   \* of a caller's task: the terminal states reported since the call
    reports     \* reports so far

waitVars == <<results, listening, woken, expired, queue, inhand, finished, reports>>
vars == <<writeVars, waitVars>>

Replies == Terminal \cup Progress \cup {"foreign", "broken"}

Answers == {"none", "refused", "ok", "error", "alive", "dead", "timeout"} \cup Terminal

TypeOK ==
    /\ WriteTypeOK
    /\ answer \in [Callers -> Answers]
    /\ results \in [Callers -> Terminal \cup Progress \cup {"none"}]
    /\ listening \subseteq Callers
    /\ woken \subseteq {p \in Callers : call[p].at = "asleep"}
    /\ expired \subseteq Callers
    /\ queue \in [Callers -> Seq(Replies)]
    /\ inhand \in [Callers -> Replies \cup {"none"}]
    /\ \A p \in Callers : inhand[p] # "none" => call[p].at = "rpc"
    /\ finished \in [Callers -> SUBSET Terminal]
    /\ reports \in 0..MaxReports

Init ==
    /\ WriteInit
    /\ results = [p \in Callers |-> "none"]
    /\ listening = {} /\ woken = {} /\ expired = {}
    /\ queue = [p \in Callers |-> <<>>]
    /\ inhand = [p \in Callers |-> "none"]
    /\ finished = [p \in Callers |-> {}]
    /\ reports = 0

\* What a call leaves alone when only its own place and answer change.
Kept == UNCHANGED <<lifeVars, open, holder, calls, sent>>

\* The producer's reference to the backend and the backend's client end together.
Linked == life \in {"on", "stopping", "disconnecting", "closing"}

-----------------------------------------------------------------------------
(* Steps of WriteConnection that touch what a request waits for *)

\* A new call: a new task id.
NewCall(p) ==
    /\ Call(p, "publish") \/ Call(p, "request") \/ Ping(p)
    /\ results' = [results EXCEPT ![p] = "none"]
    /\ finished' = [finished EXCEPT ![p] = {}]
    /\ expired' = expired \ {p} /\ listening' = listening \ {p}
    /\ UNCHANGED <<woken, queue, inhand, reports>>

\* InMemoryResultBackend.disconnect forgets results and events; nobody is woken.
Closing ==
    /\ Closed
    /\ IF backend = "memory"
       THEN results' = [p \in Callers |-> "none"] /\ listening' = {}
       ELSE UNCHANGED <<results, listening>>
    /\ UNCHANGED <<woken, expired, queue, inhand, finished, reports>>

-----------------------------------------------------------------------------
(* The executor *)

\* store() of the memory backend sets the event of the task; a Redis executor writes
\* the key, from anywhere.
WakesNobody(p) == {}
Wakes(p) == listening \cap {p}
Store(p, state) ==
    /\ results' = [results EXCEPT ![p] = state]
    /\ IF backend = "memory"
       THEN woken' = woken \cup (Wakes(p) \cap {q \in Callers : call[q].at = "asleep"})
            /\ listening' = listening \ {p}
       ELSE UNCHANGED <<woken, listening>>
    /\ UNCHANGED <<expired, queue, inhand>>

\* A reply reaches the reply queue while it exists; one of another task, one that
\* cannot be decoded.
Reply(p, kind) ==
    /\ queue' = [queue EXCEPT ![p] = IF call[p].at = "rpc" THEN Append(@, kind) ELSE @]
    /\ UNCHANGED <<results, listening, woken, expired, inhand>>

Report(p) ==
    /\ p \in sent /\ call[p].at # "idle" /\ reports < MaxReports
    /\ reports' = reports + 1
    /\ \E kind \in Replies :
          /\ finished' = [finished EXCEPT ![p] = @ \cup ({kind} \cap Terminal)]
          /\ IF backend = "none" THEN Reply(p, kind)
             ELSE kind \in Terminal \cup Progress /\ Store(p, kind)
    /\ UNCHANGED writeVars

-----------------------------------------------------------------------------
(* Waiting for the backend *)

\* move_on_after: the deadline passes; a task that sleeps for nothing is woken by it,
\* one that was already woken looks first.
Interruptible(p) == call[p].at \in {"loading", "napping"} \/ (call[p].at = "asleep" /\ p \notin woken)
Expire(p) ==
    /\ call[p].at \in {"loading", "napping", "asleep", "rpc"} /\ p \notin expired
    /\ expired' = expired \cup {p}
    /\ IF Interruptible(p) /\ ~(backend = "memory" /\ call[p].at = "loading")
       THEN Ends(p, "timeout")
       ELSE UNCHANGED <<call, answer>>
    /\ Kept
    /\ UNCHANGED <<results, listening, woken, queue, inhand, finished, reports>>

\* wait() looks at the result, and returns a terminal one.
AnyState(state) == state # "none"
Complete(state) == state \in Terminal
Returns(p) == Ends(p, results[p])

\* InMemoryResultBackend.wait: load, then the event of the task, without giving up
\* the event loop in between.
LooksInMemory(p) ==
    /\ backend = "memory"
    /\ call[p].at = "loading" \/ (call[p].at = "asleep" /\ p \in woken)
    /\ woken' = woken \ {p}
    /\ IF Complete(results[p])
       THEN Returns(p) /\ UNCHANGED listening
       ELSE IF p \in expired
       THEN Ends(p, "timeout") /\ listening' = listening \cup {p}
       ELSE Goes(p, "asleep") /\ listening' = listening \cup {p}
    /\ Kept
    /\ UNCHANGED <<results, expired, queue, inhand, finished, reports>>

\* RedisResultBackend.wait: polls, and raises once the client is gone.
LooksInRedis(p) ==
    /\ backend = "redis" /\ call[p].at = "loading"
    /\ IF ~Linked THEN Ends(p, "error")
       ELSE IF Complete(results[p]) THEN Returns(p)
       ELSE Goes(p, "napping")
    /\ Kept /\ UNCHANGED waitVars

PollsAgain(p) ==
    /\ call[p].at = "napping"
    /\ Goes(p, "loading")
    /\ Kept /\ UNCHANGED waitVars

-----------------------------------------------------------------------------
(* Waiting for an RPC reply *)

\* request_sync takes a worker thread, connects, declares its queue and publishes.
RpcBegins(p) ==
    /\ call[p].at = "asking" /\ FreeThread
    /\ \/ Goes(p, "rpc") /\ sent' = sent \cup {p}
       \/ Ends(p, "error") /\ UNCHANGED sent
    /\ queue' = [queue EXCEPT ![p] = <<>>]
    /\ UNCHANGED <<lifeVars, open, holder, calls,
                   results, listening, woken, expired, inhand, finished, reports>>

RpcEnds(p, how) == Ends(p, how) /\ inhand' = [inhand EXCEPT ![p] = "none"]
                   /\ queue' = [queue EXCEPT ![p] = <<>>]

\* One turn of the loop: the deadline first, then the reply in hand -- a terminal one
\* of this task is returned, any other acknowledged -- then drain_events, which brings
\* the next reply or raises with the connection.
Matches(kind) == kind \in Terminal
RpcTurn(p) ==
    /\ call[p].at = "rpc"
    /\ \/ p \in expired /\ RpcEnds(p, "timeout")
       \/ /\ p \notin expired /\ inhand[p] # "none"
          /\ IF Matches(inhand[p]) THEN RpcEnds(p, inhand[p])
             ELSE IF inhand[p] = "broken" THEN RpcEnds(p, "error")
             ELSE inhand' = [inhand EXCEPT ![p] = "none"] /\ UNCHANGED <<call, answer, queue>>
       \/ /\ p \notin expired /\ inhand[p] = "none"
          /\ \/ /\ queue[p] # <<>>
                /\ inhand' = [inhand EXCEPT ![p] = Head(queue[p])]
                /\ queue' = [queue EXCEPT ![p] = Tail(@)]
                /\ UNCHANGED <<call, answer>>
             \/ RpcEnds(p, "error")
    /\ Kept
    /\ UNCHANGED <<results, listening, woken, expired, finished, reports>>

-----------------------------------------------------------------------------
\* What the event loop and the worker threads do by themselves.
LifeProceeds == (LifeGoesOn /\ UNCHANGED waitVars) \/ Closing
CallProceeds(p) ==
    \/ CallGoesOn(p) /\ UNCHANGED waitVars
    \/ LooksInMemory(p) \/ LooksInRedis(p) \/ PollsAgain(p) \/ RpcBegins(p) \/ RpcTurn(p)

Next ==
    \/ (Connect \/ Stop) /\ UNCHANGED waitVars
    \/ LifeProceeds
    \/ \E p \in Callers : NewCall(p) \/ Report(p) \/ CallProceeds(p) \/ Expire(p)

Spec == Init /\ [][Next]_vars

\* The event loop and the worker threads go on, and deadlines pass; nobody need call,
\* and no task need be executed.
FairSpec ==
    /\ Spec
    /\ WF_vars(LifeProceeds)
    /\ \A p \in Callers : WF_vars(CallProceeds(p)) /\ WF_vars(Expire(p))

-----------------------------------------------------------------------------
(* Properties *)

\* request() returns only a terminal outcome that was reported for its own task after
\* it was called -- never progress, another task's reply or an earlier result --
\* whichever way it waits (ResultRequest).
Promise == INSTANCE ResultRequest WITH
    asking <- {p \in Callers : call[p].op = "request"},
    reply  <- [p \in Callers |-> IF answer[p] \in Terminal \cup Progress
                                 THEN answer[p] ELSE "raised"]
ImplementsRequest == Promise!Spec

\* InMemoryResultBackend.wait times out only if no terminal result was recorded: a
\* result stored at any point between its look and its sleep wakes it, as one stored
\* just before the deadline does.  (Not across a disconnect, which drops the event.)
InTimeIsReturned ==
    [][\A p \in Callers :
          backend = "memory" /\ answer[p] # "timeout" /\ answer'[p] = "timeout"
              /\ wired = call[p].has
          => results[p] \notin Terminal]_vars

\* Every publish, request, ping, start and stop returns, however few worker threads
\* there are and whoever holds them: a request without a reply gives its thread back.
CallsReturn ==
    /\ \A p \in Callers : []<>(call[p].at = "idle")
    /\ []<>(life \in {"on", "off"})
=============================================================================
