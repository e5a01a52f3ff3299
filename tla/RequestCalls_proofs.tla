------------------------ MODULE RequestCalls_proofs -------------------------
(***************************************************************************)
(* Theorems about RequestCalls, for every value of its constants: any      *)
(* number of callers and worker threads, with every backend.  RequestCalls *)
(* implements ResultRequest: whichever way a request waits, it returns an  *)
(* outcome of its own task.                                                *)
(***************************************************************************)
EXTENDS RequestCalls, TLAPS

-----------------------------------------------------------------------------
(* The invariant *)

CallRecords == [op : {"none", "publish", "request", "ping"}, at : Places,
                has : 0..MaxConnects, lock : 0..MaxConnects]
Publishing == {"building", "locking", "queued", "writing"}
Waiting == {"loading", "asleep", "napping", "asking", "rpc"}

Shape ==
    /\ backend \in {"none", "memory", "redis"}
    /\ connects \in 0..MaxConnects /\ (life = "connecting" => connects < MaxConnects)
    /\ wired \in {0, connects} /\ pinged \in {0, connects}
    /\ call \in [Callers -> CallRecords]
    /\ holder \in [Connections -> Callers \cup {Nobody}]
    /\ DOMAIN answer = Callers /\ DOMAIN results = Callers

\* What a call has read is a connection that was made, and a lock.
Reads ==
    \A p \in Callers :
        /\ call[p].has <= connects /\ call[p].lock <= connects
        /\ call[p].at \in Publishing \cup Waiting => call[p].has # 0 /\ call[p].lock # 0

\* A caller in the critical section is the holder of its lock.
Held == \A p \in Callers : call[p].at \in {"queued", "writing"} => holder[call[p].lock] = p

\* Once the producer has given its connection up, only a new start has one.
Unwired == life \in {"disconnecting", "closing", "closed", "off", "connecting"} => wired = 0

\* Who waits where.
Ways ==
    \A p \in Callers :
        /\ call[p].at = "asleep" => backend = "memory"
        /\ call[p].at = "napping" => backend = "redis"
        /\ call[p].at \in {"asking", "rpc"} => backend = "none"

\* A sleeper nobody has woken is listening, and has missed nothing, as long as the
\* broker it called is up.
Awake ==
    \A p \in Callers :
        call[p].at = "asleep" /\ p \notin woken /\ wired = call[p].has
        => p \in listening /\ results[p] \notin Terminal

CallInv == Shape /\ Reads /\ Held /\ Unwired /\ Ways /\ Awake

LEMMA CallInit == Init => CallInv
BY WriteAssumption
   DEF Init, WriteInit, CallInv, Shape, CallRecords, Reads, Held, Unwired, Ways, Awake, NoCall,
       Places, Connections, Publishing, Waiting

-----------------------------------------------------------------------------
(* Steps of start() and stop() *)

LEMMA LifeKeeps ==
    ASSUME CallInv, ((Connect \/ Stop \/ LifeGoesOn) /\ UNCHANGED waitVars) \/ Closing
    PROVE  CallInv'
<1> USE WriteAssumption DEF CallInv, Shape, Reads, Held, Unwired, Ways, Awake, waitVars, callVars,
                            Publishing, Waiting
<1>1. CASE (Connect \/ Stop) /\ UNCHANGED waitVars
  BY <1>1 DEF Connect, Stop
<1>2. CASE Connected /\ UNCHANGED waitVars
  BY <1>2 DEF Connected, Wire, CallRecords
<1>3. CASE (Disconnect \/ Close \/ Forget) /\ UNCHANGED waitVars
  BY <1>3 DEF Disconnect, Close, Forget, CallRecords
<1>4. CASE Closing
  BY <1>4 DEF Closing, Closed, CallRecords
<1> QED BY <1>1, <1>2, <1>3, <1>4 DEF LifeGoesOn

-----------------------------------------------------------------------------
(* Steps of a call *)

\* Most steps leave the locks alone and change the place and the answer of one caller.
Frame == UNCHANGED <<lifeVars, holder>> /\ DOMAIN answer' = Callers /\ DOMAIN results' = Callers

\* What others wait for is as it was, or they are woken.
Undisturbed(p) ==
    \A q \in Callers \ {p} :
       q \notin woken' => /\ q \notin woken
                          /\ q \in listening => q \in listening'
                          /\ results'[q] = results[q]

LEMMA MoveKeeps ==
    ASSUME CallInv, NEW p \in Callers, NEW r \in CallRecords, Frame, Undisturbed(p),
           call' = [call EXCEPT ![p] = r],
           r.has <= connects, r.lock <= connects,
           r.at \in Publishing \cup Waiting => r.has # 0 /\ r.lock # 0,
           r.at \in {"queued", "writing"} =>
              r.lock = call[p].lock /\ call[p].at \in {"queued", "writing"},
           r.at = "napping" => backend = "redis",
           r.at \in {"asking", "rpc"} => backend = "none",
           r.at # "asleep"
    PROVE  CallInv'
<1>1. Shape'
  BY DEF CallInv, Shape, Frame, lifeVars
<1>2. Reads'
  BY DEF CallInv, Shape, Reads, Frame, lifeVars
<1>3. Held'
  BY DEF CallInv, Shape, Held, Frame, lifeVars
<1>4. Unwired' /\ Ways'
  BY DEF CallInv, Shape, Unwired, Ways, Frame, lifeVars
<1>5. Awake'
  BY DEF CallInv, Shape, Awake, Frame, Undisturbed, lifeVars
<1> QED BY <1>1, <1>2, <1>3, <1>4, <1>5 DEF CallInv

LEMMA EndsKeeps ==
    ASSUME CallInv, NEW p \in Callers, NEW how, Ends(p, how), Frame, Undisturbed(p)
    PROVE  CallInv'
<1>1. NoCall \in CallRecords /\ NoCall.at = "idle" /\ NoCall.has = 0 /\ NoCall.lock = 0
  BY WriteAssumption DEF NoCall, CallRecords, Places
<1>2. connects >= 0
  BY WriteAssumption DEF CallInv, Shape
<1> QED BY <1>1, <1>2, MoveKeeps DEF Ends, Publishing, Waiting

LEMMA GoesKeeps ==
    ASSUME CallInv, NEW p \in Callers, NEW where \in Places, Goes(p, where), Frame, Undisturbed(p),
           call[p].at \in Publishing \cup Waiting \/ where \notin Publishing \cup Waiting,
           where \in {"queued", "writing"} => call[p].at \in {"queued", "writing"},
           where = "napping" => backend = "redis",
           where \in {"asking", "rpc"} => backend = "none",
           where # "asleep"
    PROVE  CallInv'
<1> DEFINE r == [call[p] EXCEPT !.at = where]
<1>1. call[p] \in CallRecords
  BY DEF CallInv, Shape
<1>2. /\ r \in CallRecords /\ r.at = where /\ r.has = call[p].has /\ r.lock = call[p].lock
  BY <1>1 DEF CallRecords
<1>3. call' = [call EXCEPT ![p] = r]
  BY DEF Goes
<1>4. /\ call[p].has <= connects /\ call[p].lock <= connects
      /\ where \in Publishing \cup Waiting => call[p].has # 0 /\ call[p].lock # 0
  BY DEF CallInv, Reads
<1> HIDE DEF r
<1> QED BY <1>2, <1>3, <1>4, MoveKeeps

LEMMA NewCallKeeps == ASSUME CallInv, NEW p \in Callers, NewCall(p) PROVE CallInv'
<1>1. Frame /\ Undisturbed(p)
  BY DEF NewCall, Call, Ping, Ends, Frame, Undisturbed, CallInv, Shape, lifeVars
<1>2. ASSUME NEW what \in {"publish", "request"}, Call(p, what) PROVE CallInv'
  <2>1. CASE wired = 0
    BY <1>1, <1>2, <2>1, EndsKeeps DEF Call
  <2>2. CASE wired # 0
    <3> DEFINE r == [op |-> what, at |-> IF Suspends THEN "building" ELSE AfterBuild(what),
                     has |-> wired, lock |-> connects]
    <3>1. r.at \in {"building", "locking", "asking"} /\ (r.at = "asking" => backend = "none")
      BY DEF AfterBuild
    <3>2. wired = connects /\ connects \in 1..MaxConnects
      BY <2>2, WriteAssumption DEF CallInv, Shape
    <3>3. r \in CallRecords
      BY <3>1, <3>2, WriteAssumption DEF CallRecords, Places
    <3>4. call' = [call EXCEPT ![p] = r]
      BY <1>2, <2>2 DEF Call
    <3>5. r.has <= connects /\ r.lock <= connects /\ r.has # 0 /\ r.lock # 0
      BY <3>2, WriteAssumption
    <3> HIDE DEF r
    <3>6. r.at \notin {"queued", "writing", "napping", "rpc", "asleep"}
      BY <3>1
    <3> QED BY <1>1, <3>1, <3>3, <3>4, <3>5, <3>6, MoveKeeps
  <2> QED BY <2>1, <2>2
<1>3. CASE Ping(p)
  <2>1. CASE Ends(p, "dead")
    BY <1>1, <2>1, EndsKeeps
  <2>2. CASE ~Ends(p, "dead")
    <3> DEFINE r == [op |-> "ping", at |-> "pinging", has |-> pinged, lock |-> 0]
    <3>1. r \in CallRecords /\ r.at = "pinging" /\ r.has <= connects /\ r.lock <= connects
      BY WriteAssumption DEF CallRecords, Places, CallInv, Shape
    <3>2. call' = [call EXCEPT ![p] = r]
      BY <1>3, <2>2 DEF Ping
    <3> HIDE DEF r
    <3> QED BY <1>1, <3>1, <3>2, MoveKeeps DEF Publishing, Waiting
  <2> QED BY <2>1, <2>2
<1> QED BY <1>2, <1>3 DEF NewCall

LEMMA WriteKeeps ==
    ASSUME CallInv, NEW p \in Callers, UNCHANGED waitVars,
           Built(p) \/ Write(p) \/ PingTimesOut(p) \/ Check(p) \/ Checked(p)
    PROVE  CallInv'
<1>1. Undisturbed(p) /\ Frame
  BY DEF Built, Write, PingTimesOut, Check, Checked, Goes, Ends, Frame, Undisturbed, waitVars,
         CallInv, Shape, lifeVars
<1>2. CASE Built(p)
  <2> DEFINE r == [call[p] EXCEPT !.at = AfterBuild(call[p].op), !.lock = connects]
  <2>1. AfterBuild(call[p].op) \in {"locking", "asking"}
        /\ (AfterBuild(call[p].op) = "asking" => backend = "none")
    BY DEF AfterBuild
  <2>2. call[p] \in CallRecords /\ connects \in 0..MaxConnects
    BY DEF CallInv, Shape
  <2>3. r \in CallRecords /\ r.at = AfterBuild(call[p].op) /\ r.lock = connects
        /\ r.has = call[p].has
    BY <2>1, <2>2 DEF CallRecords, Places
  <2>4. call' = [call EXCEPT ![p] = r]
    BY <1>2 DEF Built
  <2>5. call[p].has # 0 /\ call[p].has <= connects /\ connects # 0 /\ connects <= connects
    BY <1>2, <2>2, WriteAssumption DEF CallInv, Reads, Built, Publishing, CallRecords
  <2> HIDE DEF r
  <2>6. r.at \in {"locking", "asking"} /\ (r.at = "asking" => backend = "none")
    BY <2>1, <2>3
  <2>7. r.at \notin {"queued", "writing", "napping", "rpc", "asleep"}
    BY <2>6
  <2> QED BY <1>1, <2>3, <2>4, <2>5, <2>6, <2>7, MoveKeeps
<1>3. CASE Write(p)
  BY <1>1, <1>3, GoesKeeps DEF Write, Places, Publishing, Waiting
<1>4. CASE PingTimesOut(p) \/ Checked(p)
  BY <1>1, <1>4, EndsKeeps DEF PingTimesOut, Checked
<1>5. CASE Check(p)
  BY <1>1, <1>5, GoesKeeps DEF Check, Places, Publishing, Waiting
<1> QED BY <1>2, <1>3, <1>4, <1>5

\* Only the next two steps touch a lock: nobody holds the one that is taken, and its
\* holder is the one that releases it.
LEMMA AcquireKeeps ==
    ASSUME CallInv, NEW p \in Callers, UNCHANGED waitVars, Acquire(p)
    PROVE  CallInv'
<1> DEFINE r == [call[p] EXCEPT !.at = "queued"]
<1>1. call[p] \in CallRecords /\ call[p].at = "locking"
  BY DEF CallInv, Shape, Acquire
<1>2. r \in CallRecords /\ r.at = "queued" /\ r.has = call[p].has /\ r.lock = call[p].lock
  BY <1>1 DEF CallRecords, Places
<1>3. call' = [call EXCEPT ![p] = r]
  BY DEF Acquire, Goes
<1>4. call[p].lock \in Connections /\ call[p].has # 0
  BY <1>1, WriteAssumption DEF CallInv, Reads, CallRecords, Connections, Publishing
<1> HIDE DEF r
<1>5. Shape'
  BY <1>2, <1>3, <1>4 DEF CallInv, Shape, Acquire, Goes, lifeVars, waitVars
<1>6. Reads'
  BY <1>1, <1>2, <1>3 DEF CallInv, Shape, Reads, Acquire, Publishing, Waiting, lifeVars
<1>7. Held'
  BY <1>2, <1>3, <1>4, WriteAssumption DEF CallInv, Shape, Held, Acquire, MayAcquire, Nobody
<1>8. Unwired' /\ Ways'
  BY <1>2, <1>3 DEF CallInv, Shape, Unwired, Ways, Acquire, lifeVars
<1>9. Awake'
  BY <1>2, <1>3 DEF CallInv, Shape, Awake, Acquire, lifeVars, waitVars
<1> QED BY <1>5, <1>6, <1>7, <1>8, <1>9 DEF CallInv

LEMMA WrittenKeeps ==
    ASSUME CallInv, NEW p \in Callers, UNCHANGED waitVars, Written(p)
    PROVE  CallInv'
<1>1. call[p] \in CallRecords /\ call[p].at = "writing"
  BY DEF CallInv, Shape, Written
<1>2. PICK r \in CallRecords :
         /\ call' = [call EXCEPT ![p] = r]
         /\ \/ r.at = "loading" /\ r.has = call[p].has /\ r.lock = call[p].lock
            \/ r.at = "idle" /\ r.has = 0 /\ r.lock = 0
  <2>1. [call[p] EXCEPT !.at = "loading"] \in CallRecords
    BY <1>1 DEF CallRecords, Places
  <2>2. CASE Goes(p, "loading")
    BY <1>1, <2>1, <2>2 DEF Goes, CallRecords
  <2>3. NoCall \in CallRecords /\ NoCall.at = "idle" /\ NoCall.has = 0 /\ NoCall.lock = 0
    BY WriteAssumption DEF NoCall, CallRecords, Places
  <2>4. CASE Ends(p, "ok") \/ Ends(p, "error")
    BY <2>3, <2>4 DEF Ends
  <2> QED BY <2>2, <2>4 DEF Written
<1>3. call[p].has # 0 /\ call[p].lock # 0 /\ call[p].has <= connects /\ call[p].lock <= connects
  BY <1>1 DEF CallInv, Reads, Publishing
<1>4. Shape'
  <2>1. DOMAIN answer' = Callers
    BY DEF CallInv, Shape, Written, Goes, Ends
  <2>2. holder' \in [Connections -> Callers \cup {Nobody}]
    BY DEF CallInv, Shape, Written, Released
  <2> QED BY <1>2, <2>1, <2>2 DEF CallInv, Shape, Written, lifeVars, waitVars
<1>5. Reads'
  BY <1>2, <1>3, WriteAssumption DEF CallInv, Shape, Reads, Written, Publishing, Waiting, lifeVars
<1>6. Held'
  BY <1>1, <1>2, WriteAssumption
     DEF CallInv, Shape, Reads, Held, Written, Released, Publishing, CallRecords, Connections
<1>7. Unwired' /\ Ways'
  BY <1>2 DEF CallInv, Shape, Unwired, Ways, Written, lifeVars
<1>8. Awake'
  BY <1>2 DEF CallInv, Shape, Awake, Written, lifeVars, waitVars
<1> QED BY <1>4, <1>5, <1>6, <1>7, <1>8 DEF CallInv

LEMMA WaitKeeps ==
    ASSUME CallInv, NEW p \in Callers,
           LooksInRedis(p) \/ PollsAgain(p) \/ RpcBegins(p) \/ RpcTurn(p) \/ Expire(p)
    PROVE  CallInv'
<1>1. DOMAIN answer' = Callers
  BY DEF LooksInRedis, Returns, PollsAgain, RpcBegins, RpcTurn, RpcEnds, Expire, Goes, Ends,
         waitVars, CallInv, Shape
<1>2. Frame /\ Undisturbed(p)
  BY <1>1 DEF LooksInRedis, PollsAgain, RpcBegins, RpcTurn, Expire, Kept, Frame, Undisturbed,
              lifeVars, waitVars, CallInv, Shape
<1>3. ASSUME NEW how, Ends(p, how) PROVE CallInv'
  BY <1>2, <1>3, EndsKeeps
<1>4. CASE LooksInRedis(p)
  <2>1. CASE Goes(p, "napping")
    BY <1>2, <1>4, <2>1, GoesKeeps DEF LooksInRedis, Places, Publishing, Waiting
  <2> QED BY <1>3, <1>4, <2>1 DEF LooksInRedis, Returns
<1>5. CASE PollsAgain(p)
  BY <1>2, <1>5, GoesKeeps DEF PollsAgain, Places, Publishing, Waiting
<1>6. CASE RpcBegins(p)
  <2>1. CASE Goes(p, "rpc")
    <3>1. backend = "none"
      BY <1>6 DEF RpcBegins, CallInv, Ways
    <3> QED BY <1>2, <1>6, <2>1, <3>1, GoesKeeps DEF RpcBegins, Places, Publishing, Waiting
  <2> QED BY <1>3, <1>6, <2>1 DEF RpcBegins
<1>7. ASSUME call' = call PROVE CallInv'
  <2>1. Shape' /\ Reads' /\ Held' /\ Unwired' /\ Ways'
    BY <1>2, <1>7 DEF CallInv, Shape, Reads, Held, Unwired, Ways, Frame, lifeVars
  <2>2. UNCHANGED <<results, listening, woken>>
    BY DEF LooksInRedis, PollsAgain, RpcBegins, RpcTurn, Expire, waitVars
  <2>3. Awake'
    BY <1>2, <1>7, <2>2 DEF CallInv, Awake, Frame, lifeVars
  <2> QED BY <2>1, <2>3 DEF CallInv
<1>8. CASE RpcTurn(p)
  BY <1>3, <1>7, <1>8 DEF RpcTurn, RpcEnds
<1>9. CASE Expire(p)
  BY <1>3, <1>7, <1>9 DEF Expire
<1> QED BY <1>4, <1>5, <1>6, <1>8, <1>9

\* The look and the sleep are one step.
LEMMA LookKeeps == ASSUME CallInv, NEW p \in Callers, LooksInMemory(p) PROVE CallInv'
<1>1. Frame
  BY DEF LooksInMemory, Returns, Goes, Ends, Kept, Frame, lifeVars, CallInv, Shape
<1>2. Undisturbed(p)
  BY DEF LooksInMemory, Undisturbed
<1>3. CASE Ends(p, results[p]) \/ Ends(p, "timeout")
  BY <1>1, <1>2, <1>3, EndsKeeps
<1>4. CASE ~Complete(results[p]) /\ Goes(p, "asleep")
  <2> DEFINE r == [call[p] EXCEPT !.at = "asleep"]
  <2>1. call[p] \in CallRecords /\ call[p].at \in {"loading", "asleep"}
    BY DEF LooksInMemory, CallInv, Shape
  <2>2. r \in CallRecords /\ r.at = "asleep" /\ r.has = call[p].has /\ r.lock = call[p].lock
    BY <2>1 DEF CallRecords, Places
  <2>3. call' = [call EXCEPT ![p] = r]
    BY <1>4 DEF Goes
  <2> HIDE DEF r
  <2>4. Shape'
    BY <1>1, <2>2, <2>3 DEF CallInv, Shape, Frame, lifeVars
  <2>5. Reads' /\ Held'
    BY <1>1, <2>1, <2>2, <2>3 DEF CallInv, Shape, Reads, Held, Frame, lifeVars, Publishing, Waiting
  <2>6. Unwired' /\ Ways'
    BY <1>1, <2>2, <2>3 DEF CallInv, Shape, Unwired, Ways, Frame, lifeVars, LooksInMemory
  <2>7. Awake'
    BY <1>1, <1>4, <2>3 DEF CallInv, Shape, Awake, Frame, lifeVars, LooksInMemory, Complete, Ends
  <2> QED BY <2>4, <2>5, <2>6, <2>7 DEF CallInv
<1> QED BY <1>3, <1>4 DEF LooksInMemory, Returns

\* A report between a sleep and the next look wakes the sleeper.
LEMMA ReportKeeps == ASSUME CallInv, NEW p \in Callers, Report(p) PROVE CallInv'
<1>1. Shape' /\ Reads' /\ Held' /\ Unwired' /\ Ways'
  BY DEF Report, Store, Reply, CallInv, Shape, Reads, Held, Unwired, Ways, writeVars, lifeVars, callVars
<1>2. Awake'
  <2>1. CASE backend = "none"
    BY <2>1 DEF Report, Reply, CallInv, Awake, writeVars, lifeVars, callVars
  <2>2. CASE backend = "memory"
    BY <2>2 DEF Report, Store, Wakes, CallInv, Shape, Awake, writeVars, lifeVars, callVars
  <2>3. CASE backend = "redis"
    BY <2>3 DEF Report, CallInv, Ways, Awake, writeVars, lifeVars, callVars
  <2> QED BY <2>1, <2>2, <2>3 DEF CallInv, Shape
<1> QED BY <1>1, <1>2 DEF CallInv

LEMMA CallStep == CallInv /\ [Next]_vars => CallInv'
<1> SUFFICES ASSUME CallInv, [Next]_vars PROVE CallInv'
  OBVIOUS
<1>1. CASE ((Connect \/ Stop) /\ UNCHANGED waitVars) \/ LifeProceeds
  BY <1>1, LifeKeeps DEF LifeProceeds
<1>2. ASSUME NEW p \in Callers, NewCall(p) \/ Report(p) \/ CallProceeds(p) \/ Expire(p)
      PROVE  CallInv'
  BY <1>2, NewCallKeeps, WriteKeeps, AcquireKeeps, WrittenKeeps, WaitKeeps, LookKeeps, ReportKeeps
     DEF CallProceeds, CallGoesOn
<1>3. CASE UNCHANGED vars
  BY <1>3 DEF vars, writeVars, lifeVars, callVars, waitVars, CallInv, Shape, Reads, Held,
              Unwired, Ways, Awake
<1> QED BY <1>1, <1>2, <1>3 DEF Next

-----------------------------------------------------------------------------
(* What is left of the types: who holds a lock, is woken, or has a reply in hand *)

\* A caller that holds a lock is inside its critical section.
Holders ==
    \A c \in Connections : holder[c] # Nobody =>
        call[holder[c]].at \in {"queued", "writing"} /\ call[holder[c]].lock = c

\* Who is woken sleeps, and who has a reply in hand runs the loop of request_sync.
Sleepers == woken \subseteq {p \in Callers : call[p].at = "asleep"}
Hands == \A p \in Callers : inhand[p] # "none" => call[p].at = "rpc"

Counts ==
    /\ backend \in Backends /\ calls \in 0..MaxCalls /\ reports \in 0..MaxReports
    /\ life \in {"off", "connecting", "on", "stopping", "disconnecting", "closing", "closed"}
    /\ sent \subseteq Callers /\ listening \subseteq Callers /\ expired \subseteq Callers

Boxes ==
    /\ open \in [Connections -> BOOLEAN]
    /\ results \in [Callers -> Terminal \cup Progress \cup {"none"}]
    /\ finished \in [Callers -> SUBSET Terminal]
    /\ queue \in [Callers -> Seq(Replies)]
    /\ inhand \in [Callers -> Replies \cup {"none"}]

AnswersTyped == answer \in [Callers -> Answers]

Typed == Holders /\ Sleepers /\ Hands /\ Counts /\ Boxes /\ AnswersTyped

LEMMA TypedInit == Init => Typed
BY WriteAssumption, StateAssumption
   DEF Init, WriteInit, Typed, Holders, Sleepers, Hands, Counts, Boxes, AnswersTyped, Answers, Replies

LEMMA CountsKept == CallInv /\ Typed /\ Next => Counts'
<1> SUFFICES ASSUME CallInv, Typed, Next PROVE Counts'
  OBVIOUS
<1> USE WriteAssumption, StateAssumption DEF Typed, Counts, waitVars, writeVars, lifeVars, callVars
<1>1. CASE ((Connect \/ Stop) /\ UNCHANGED waitVars) \/ LifeProceeds
  BY <1>1 DEF Connect, Stop, LifeProceeds, LifeGoesOn, Connected, Disconnect, Close, Forget,
              Closing, Closed
<1>2. ASSUME NEW p \in Callers, NewCall(p) \/ Report(p) PROVE Counts'
  BY <1>2 DEF NewCall, Call, Ping, Report, Reply, Store
<1>3. ASSUME NEW p \in Callers, CallProceeds(p) PROVE Counts'
  BY <1>3 DEF CallProceeds, CallGoesOn, Built, Acquire, Write, Written, PingTimesOut, Check, Checked,
              LooksInMemory, LooksInRedis, PollsAgain, RpcBegins, RpcTurn, Kept
<1>4. ASSUME NEW p \in Callers, Expire(p) PROVE Counts'
  BY <1>4 DEF Expire, Kept
<1> QED BY <1>1, <1>2, <1>3, <1>4 DEF Next

LEMMA BoxesKept == CallInv /\ Typed /\ Next => Boxes'
<1> SUFFICES ASSUME CallInv, Typed, Next PROVE Boxes'
  OBVIOUS
<1> USE WriteAssumption, StateAssumption DEF Typed, Boxes, waitVars, writeVars, lifeVars, callVars
<1>1. CASE ((Connect \/ Stop) /\ UNCHANGED waitVars) \/ LifeProceeds
  BY <1>1 DEF Connect, Stop, LifeProceeds, LifeGoesOn, Connected, Disconnect, Close, Forget,
              Closing, Closed
<1>2. ASSUME NEW p \in Callers, NewCall(p) PROVE Boxes'
  BY <1>2 DEF NewCall, Call, Ping
<1>3. ASSUME NEW p \in Callers, Report(p) PROVE Boxes'
  <2>1. PICK kind \in Replies :
           /\ finished' = [finished EXCEPT ![p] = @ \cup ({kind} \cap Terminal)]
           /\ IF backend = "none" THEN Reply(p, kind)
              ELSE kind \in Terminal \cup Progress /\ Store(p, kind)
    BY <1>3 DEF Report
  <2>2. UNCHANGED <<open, inhand>> /\ finished' \in [Callers -> SUBSET Terminal]
    BY <1>3, <2>1 DEF Report, Reply, Store
  <2>3. CASE backend = "none"
    <3>1. Append(queue[p], kind) \in Seq(Replies)
      BY <2>1
    <3>2. queue' \in [Callers -> Seq(Replies)]
      BY <2>1, <2>3, <3>1 DEF Reply
    <3> QED BY <2>1, <2>2, <2>3, <3>2 DEF Reply
  <2>4. CASE backend # "none"
    <3>1. queue' = queue /\ results' = [results EXCEPT ![p] = kind]
          /\ kind \in Terminal \cup Progress
      BY <1>3, <2>1, <2>4 DEF Report, Store
    <3> QED BY <2>2, <3>1
  <2> QED BY <2>3, <2>4
<1>4. ASSUME NEW p \in Callers, CallGoesOn(p), UNCHANGED waitVars PROVE Boxes'
  BY <1>4 DEF CallGoesOn, Built, Acquire, Write, Written, PingTimesOut, Check, Checked
<1>5. ASSUME NEW p \in Callers, LooksInMemory(p) \/ LooksInRedis(p) \/ PollsAgain(p) \/ Expire(p)
      PROVE  Boxes'
  BY <1>5 DEF LooksInMemory, LooksInRedis, PollsAgain, Expire, Kept
<1>6. ASSUME NEW p \in Callers, RpcBegins(p) PROVE Boxes'
  BY <1>6 DEF RpcBegins
<1>7. ASSUME NEW p \in Callers, RpcTurn(p) PROVE Boxes'
  <2>1. UNCHANGED <<open, results, finished>>
    BY <1>7 DEF RpcTurn, Kept
  <2>2. CASE \E how \in Answers \cup Replies : RpcEnds(p, how)
    BY <2>1, <2>2 DEF RpcEnds
  <2>3. CASE queue' = queue /\ inhand' = [inhand EXCEPT ![p] = "none"]
    BY <2>1, <2>3
  <2>4. CASE /\ queue[p] # <<>> /\ inhand' = [inhand EXCEPT ![p] = Head(queue[p])]
             /\ queue' = [queue EXCEPT ![p] = Tail(@)]
    <3>1. queue[p] \in Seq(Replies) /\ queue[p] # <<>>
      BY <2>4
    <3>2. Head(queue[p]) \in Replies /\ Tail(queue[p]) \in Seq(Replies)
      BY <3>1
    <3> QED BY <2>1, <2>4, <3>2
  <2> QED BY <1>7, <2>2, <2>3, <2>4 DEF RpcTurn, Answers
<1> QED BY <1>1, <1>2, <1>3, <1>4, <1>5, <1>6, <1>7 DEF Next, CallProceeds

LEMMA AnswersKept == CallInv /\ Typed /\ Next => AnswersTyped'
<1> SUFFICES ASSUME CallInv, Typed, Next PROVE AnswersTyped'
  OBVIOUS
<1> USE DEF Typed, AnswersTyped
<1>1. ASSUME NEW p \in Callers, NEW how \in Answers, Ends(p, how) PROVE AnswersTyped'
  BY <1>1 DEF Ends
<1>2. ASSUME NEW p \in Callers, NewCall(p) PROVE AnswersTyped'
  BY <1>1, <1>2 DEF NewCall, Call, Ping, Answers
<1>3. ASSUME NEW p \in Callers, CallGoesOn(p) PROVE AnswersTyped'
  BY <1>1, <1>3 DEF CallGoesOn, Built, Acquire, Write, Written, PingTimesOut, Check, Checked, Goes, Answers
<1>4. ASSUME NEW p \in Callers, LooksInMemory(p) \/ LooksInRedis(p) \/ PollsAgain(p) \/ Expire(p)
      PROVE  AnswersTyped'
  BY <1>1, <1>4 DEF LooksInMemory, LooksInRedis, PollsAgain, Expire, Returns, Complete, Goes, Answers
<1>5. ASSUME NEW p \in Callers, RpcBegins(p) \/ RpcTurn(p) PROVE AnswersTyped'
  BY <1>1, <1>5 DEF RpcBegins, RpcTurn, RpcEnds, Matches, Goes, Answers
<1>6. CASE \/ ((Connect \/ Stop) /\ UNCHANGED waitVars) \/ LifeProceeds
           \/ \E p \in Callers : Report(p)
  BY <1>6 DEF Connect, Stop, LifeProceeds, LifeGoesOn, Connected, Disconnect, Close, Forget,
              Closing, Closed, Report, writeVars, callVars
<1> QED BY <1>2, <1>3, <1>4, <1>5, <1>6 DEF Next, CallProceeds

\* A call keeps its lock from Acquire to Written: no other step moves its holder.
LEMMA HoldersKept == CallInv /\ Typed /\ Next => Holders'
<1> SUFFICES ASSUME CallInv, Typed, Next PROVE Holders'
  OBVIOUS
<1>1. ASSUME NEW p \in Callers, holder' = holder, call[p].at \notin {"queued", "writing"},
             \A q \in Callers \ {p} : call'[q] = call[q]
      PROVE  Holders'
  <2>1. \A c \in Connections : holder[c] # Nobody => holder[c] \in Callers \ {p}
    BY <1>1 DEF CallInv, Shape, Typed, Holders
  <2> QED BY <1>1, <2>1 DEF Typed, Holders
<1>2. CASE call' = call /\ holder' = holder
  BY <1>2 DEF Typed, Holders
<1>3. CASE \E p \in Callers : NewCall(p)
  BY <1>1, <1>3 DEF NewCall, Call, Ping, Ends, CallInv, Shape
<1>4. CASE \E p \in Callers : Built(p) \/ PingTimesOut(p) \/ Check(p) \/ Checked(p)
  BY <1>1, <1>4 DEF Built, PingTimesOut, Check, Checked, Goes, Ends, CallInv, Shape
<1>5. CASE \E p \in Callers : LooksInMemory(p) \/ LooksInRedis(p) \/ PollsAgain(p) \/ RpcBegins(p)
  BY <1>1, <1>5 DEF LooksInMemory, LooksInRedis, PollsAgain, RpcBegins, Returns, Kept, Goes, Ends,
                    CallInv, Shape
<1>6. CASE \E p \in Callers : RpcTurn(p) \/ Expire(p)
  BY <1>1, <1>2, <1>6 DEF RpcTurn, RpcEnds, Expire, Kept, Ends, CallInv, Shape
<1>7. ASSUME NEW p \in Callers, Acquire(p) PROVE Holders'
  <2>1. /\ holder' = [holder EXCEPT ![call[p].lock] = p] /\ call[p].at = "locking"
        /\ \A q \in Callers : call'[q].lock = call[q].lock
        /\ \A q \in Callers : call'[q].at = IF q = p THEN "queued" ELSE call[q].at
    BY <1>7 DEF Acquire, Goes, CallInv, Shape, CallRecords
  <2> QED BY <2>1, WriteAssumption DEF CallInv, Shape, Typed, Holders, Nobody
<1>8. ASSUME NEW p \in Callers, Write(p) PROVE Holders'
  <2>1. /\ holder' = holder
        /\ \A q \in Callers : call'[q].lock = call[q].lock
        /\ \A q \in Callers : call'[q].at = IF q = p THEN "writing" ELSE call[q].at
    BY <1>8 DEF Write, Goes, CallInv, Shape, CallRecords
  <2> QED BY <2>1, WriteAssumption DEF CallInv, Shape, Typed, Holders, Nobody
<1>9. ASSUME NEW p \in Callers, Written(p) PROVE Holders'
  <2>1. /\ holder' = [holder EXCEPT ![call[p].lock] = Nobody] /\ holder[call[p].lock] = p
        /\ \A q \in Callers \ {p} : call'[q] = call[q]
    BY <1>9 DEF Written, Released, Goes, Ends, CallInv, Shape, Held
  <2>2. \A c \in Connections : holder'[c] # Nobody => holder'[c] = holder[c] /\ holder[c] # p
    BY <2>1 DEF CallInv, Shape, Typed, Holders
  <2> QED BY <2>1, <2>2 DEF CallInv, Shape, Typed, Holders
<1>10. CASE \/ ((Connect \/ Stop) /\ UNCHANGED waitVars) \/ LifeProceeds
            \/ \E p \in Callers : Report(p)
  BY <1>2, <1>10 DEF Connect, Stop, LifeProceeds, LifeGoesOn, Connected, Disconnect, Close, Forget,
                     Closing, Closed, Report, writeVars, callVars
<1> QED BY <1>3, <1>4, <1>5, <1>6, <1>7, <1>8, <1>9, <1>10 DEF Next, CallProceeds, CallGoesOn

\* A sleeper that is woken looks before it goes anywhere else; a reply in hand goes
\* with the call it answers.
LEMMA SleepersAndHandsKept == CallInv /\ Typed /\ Next => Sleepers' /\ Hands'
<1> SUFFICES ASSUME CallInv, Typed, Next PROVE Sleepers' /\ Hands'
  OBVIOUS
<1>1. ASSUME NEW p \in Callers, UNCHANGED <<woken, inhand>>, p \notin woken, inhand[p] = "none",
             \A q \in Callers \ {p} : call'[q] = call[q]
      PROVE  Sleepers' /\ Hands'
  BY <1>1 DEF Typed, Sleepers, Hands
<1>2. ASSUME NEW p \in Callers, call[p].at \notin {"asleep", "rpc"}
      PROVE  p \notin woken /\ inhand[p] = "none"
  BY <1>2 DEF Typed, Sleepers, Hands
<1>3. CASE call' = call /\ UNCHANGED <<woken, inhand>>
  BY <1>3 DEF Typed, Sleepers, Hands
<1>4. CASE \E p \in Callers : NewCall(p)
  BY <1>1, <1>2, <1>4 DEF NewCall, Call, Ping, Ends, CallInv, Shape
<1>5. CASE \E p \in Callers : CallGoesOn(p) /\ UNCHANGED waitVars
  BY <1>1, <1>2, <1>5 DEF CallGoesOn, Built, Acquire, Write, Written, PingTimesOut, Check, Checked,
                          Goes, Ends, waitVars, CallInv, Shape
<1>6. CASE \E p \in Callers : LooksInRedis(p) \/ PollsAgain(p) \/ RpcBegins(p)
  BY <1>1, <1>2, <1>6 DEF LooksInRedis, PollsAgain, RpcBegins, Returns, Kept, Goes, Ends, waitVars,
                          CallInv, Shape
<1>7. ASSUME NEW p \in Callers, LooksInMemory(p) PROVE Sleepers' /\ Hands'
  <2>1. /\ woken' = woken \ {p} /\ inhand' = inhand
        /\ \A q \in Callers \ {p} : call'[q] = call[q]
    BY <1>7 DEF LooksInMemory, Returns, Goes, Ends, CallInv, Shape
  <2>2. inhand[p] = "none"
    BY <1>7 DEF LooksInMemory, Typed, Hands
  <2> QED BY <2>1, <2>2 DEF Typed, Sleepers, Hands
<1>8. ASSUME NEW p \in Callers, RpcTurn(p) PROVE Sleepers' /\ Hands'
  <2>1. p \notin woken /\ woken' = woken
    BY <1>8 DEF RpcTurn, Typed, Sleepers
  <2>2. \A q \in Callers \ {p} : call'[q] = call[q] /\ inhand'[q] = inhand[q]
    BY <1>8 DEF RpcTurn, RpcEnds, Ends, CallInv, Shape, Typed, Boxes
  <2>3. inhand'[p] # "none" => call'[p].at = "rpc"
    BY <1>8 DEF RpcTurn, RpcEnds, Ends, Typed, Boxes
  <2> QED BY <2>1, <2>2, <2>3 DEF Typed, Sleepers, Hands
<1>9. ASSUME NEW p \in Callers, Expire(p) PROVE Sleepers' /\ Hands'
  <2>1. CASE call' = call
    BY <1>3, <1>9, <2>1 DEF Expire
  <2>2. CASE call' # call
    <3>1. Interruptible(p) /\ Ends(p, "timeout") /\ UNCHANGED <<woken, inhand>>
      BY <1>9, <2>2 DEF Expire
    <3>2. p \notin woken /\ inhand[p] = "none"
      BY <3>1 DEF Interruptible, Typed, Sleepers, Hands
    <3> QED BY <1>1, <3>1, <3>2 DEF Ends, CallInv, Shape
  <2> QED BY <2>1, <2>2
<1>10. ASSUME NEW p \in Callers, Report(p) PROVE Sleepers' /\ Hands'
  <2>1. call' = call /\ inhand' = inhand
    BY <1>10 DEF Report, Reply, Store, writeVars, callVars
  <2>2. woken' \subseteq woken \cup {q \in Callers : call[q].at = "asleep"}
    BY <1>10 DEF Report, Reply, Store
  <2> QED BY <2>1, <2>2 DEF Typed, Sleepers, Hands
<1>11. CASE ((Connect \/ Stop) /\ UNCHANGED waitVars) \/ LifeProceeds
  BY <1>3, <1>11 DEF Connect, Stop, LifeProceeds, LifeGoesOn, Connected, Disconnect, Close, Forget,
                     Closing, Closed, waitVars, callVars
<1> QED BY <1>4, <1>5, <1>6, <1>7, <1>8, <1>9, <1>10, <1>11 DEF Next, CallProceeds

LEMMA TypedStep == CallInv /\ Typed /\ [Next]_vars => Typed'
<1> SUFFICES ASSUME CallInv, Typed, [Next]_vars PROVE Typed'
  OBVIOUS
<1>1. CASE Next
  BY <1>1, CountsKept, BoxesKept, AnswersKept, HoldersKept, SleepersAndHandsKept DEF Typed
<1>2. CASE UNCHANGED vars
  BY <1>2 DEF vars, writeVars, lifeVars, callVars, waitVars, Typed, Holders, Sleepers, Hands,
              Counts, Boxes, AnswersTyped
<1> QED BY <1>1, <1>2

-----------------------------------------------------------------------------
(* Theorems *)

\* The state is what its declarations say.  Beyond the shapes: every lock that is held
\* is held by a call inside its critical section, so no way a publication can end keeps
\* a lock; only a sleeper is ever marked as woken, so a deadline that cuts a sleep short
\* loses no result; and a reply taken from a reply queue is dropped with its request.
THEOREM RequestTypes == Spec => []TypeOK
<1>1. CallInv /\ Typed => TypeOK
  BY DEF CallInv, Shape, CallRecords, Typed, Holders, Sleepers, Hands, Counts, Boxes, AnswersTyped,
         TypeOK, WriteTypeOK
<1> QED BY CallInit, CallStep, TypedInit, TypedStep, <1>1, PTL DEF Spec

\* Each connection is written to by one publication at a time, however many callers and
\* threads there are and however often the broker is restarted.
THEOREM WritesAlone == Spec => []OneWriter
<1>1. CallInv => OneWriter
  BY DEF CallInv, Held, OneWriter, Writing
<1> QED BY CallInit, CallStep, <1>1, PTL DEF Spec

\* A caller whose broker is up times out of the memory backend only without a result:
\* no report falls between its look at the result and its sleep.
THEOREM NoLostWakeup == Spec => InTimeIsReturned
<1>1. CallInv /\ [Next]_vars =>
        [\A p \in Callers :
            backend = "memory" /\ answer[p] # "timeout" /\ answer'[p] = "timeout"
                /\ wired = call[p].has
            => results[p] \notin Terminal]_vars
  <2> SUFFICES ASSUME CallInv, Next, NEW p \in Callers, backend = "memory",
                      answer[p] # "timeout", answer'[p] = "timeout", wired = call[p].has
               PROVE  results[p] \notin Terminal
    OBVIOUS
  <2>1. CASE \E q \in Callers : q # p /\ (NewCall(q) \/ Report(q) \/ CallProceeds(q) \/ Expire(q))
    <3> answer'[p] = answer[p]
      BY <2>1 DEF NewCall, Call, Ping, Report, writeVars, callVars, CallProceeds, CallGoesOn, Built, Acquire,
                  Write, Written, PingTimesOut, Check, Checked, LooksInMemory, LooksInRedis,
                  PollsAgain, RpcBegins, RpcTurn, RpcEnds, Expire, Returns, Goes, Ends, waitVars,
                  CallInv, Shape
    <3> QED OBVIOUS
  <2>2. CASE ((Connect \/ Stop) /\ UNCHANGED waitVars) \/ LifeProceeds
    BY <2>2 DEF Connect, Stop, LifeProceeds, LifeGoesOn, Connected, Disconnect, Close, Forget, Closing,
                Closed, callVars
  <2>3. p \in DOMAIN answer
    BY DEF CallInv, Shape
  <2>4. CASE NewCall(p) \/ Report(p)
    BY <2>3, <2>4 DEF NewCall, Call, Ping, Ends, Report, writeVars, callVars
  <2>5. CASE CallGoesOn(p)
    BY <2>3, <2>5 DEF CallGoesOn, Built, Acquire, Write, Written, PingTimesOut, Check, Checked, Goes, Ends
  <2>6. CASE LooksInMemory(p)
    <3>1. CASE Complete(results[p])
      <4>1. answer'[p] = results[p]
        BY <2>3, <2>6, <3>1 DEF LooksInMemory, Returns, Ends
      <4> QED BY <3>1, <4>1, StateAssumption DEF Complete
    <3>2. CASE ~Complete(results[p])
      BY <3>2 DEF Complete
    <3> QED BY <3>1, <3>2
  <2>7. CASE LooksInRedis(p) \/ PollsAgain(p) \/ RpcBegins(p) \/ RpcTurn(p)
    BY <2>3, <2>7 DEF LooksInRedis, PollsAgain, RpcBegins, RpcTurn, CallInv, Ways, Goes
  <2>8. CASE Expire(p)
    <3>1. Interruptible(p) /\ call[p].at # "loading"
      BY <2>3, <2>8 DEF Expire
    <3>2. call[p].at = "asleep" /\ p \notin woken
      BY <3>1 DEF Interruptible, CallInv, Ways
    <3> QED BY <3>2 DEF CallInv, Awake
  <2> QED BY <2>1, <2>2, <2>4, <2>5, <2>6, <2>7, <2>8 DEF Next, CallProceeds
<1> QED BY CallInit, CallStep, <1>1, PTL DEF Spec, InTimeIsReturned

-----------------------------------------------------------------------------
(* RequestCalls implements ResultRequest: the invariant *)

Maps ==
    /\ finished \in [Callers -> SUBSET Terminal]
    /\ DOMAIN queue = Callers /\ DOMAIN inhand = Callers

\* Of one caller: a call in progress has no answer yet, and only a request waits;
Proper(p) ==
    /\ call[p].at = "idle" => call[p].op = "none"
    /\ call[p].at # "idle" => answer[p] = "none"
    /\ call[p].at \in Waiting => call[p].op = "request"

\* a reply queue is there only while it is read;
Quiet(p) == call[p].at # "rpc" => queue[p] = <<>> /\ inhand[p] = "none"

\* and a terminal state, wherever it is kept, was reported since the call.
Earned(p) ==
    /\ results[p] \in Terminal => results[p] \in finished[p]
    /\ inhand[p] \in Terminal => inhand[p] \in finished[p]
    /\ queue[p] \in Seq(Replies)
    /\ \A i \in 1..Len(queue[p]) : queue[p][i] \in Terminal => queue[p][i] \in finished[p]

Asks(p) == Proper(p) /\ Quiet(p) /\ Earned(p)
AskInv == Maps /\ \A p \in Callers : Asks(p)

\* A step of one caller leaves the others alone.
Alone(p) ==
    \A q \in Callers \ {p} :
       /\ call'[q] = call[q] /\ answer'[q] = answer[q] /\ results'[q] = results[q]
       /\ inhand'[q] = inhand[q] /\ queue'[q] = queue[q] /\ finished'[q] = finished[q]

LEMMA AskInit == Init => AskInv
<1> SUFFICES ASSUME Init PROVE AskInv
  OBVIOUS
<1>1. Maps
  BY DEF Init, Maps
<1>2. ASSUME NEW p \in Callers PROVE Asks(p)
  <2>1. Proper(p)
    BY DEF Init, WriteInit, NoCall, Proper, Waiting
  <2>2. Quiet(p)
    BY DEF Init, Quiet
  <2>3. Earned(p)
    BY StateAssumption DEF Init, Earned
  <2> QED BY <2>1, <2>2, <2>3 DEF Asks
<1> QED BY <1>1, <1>2 DEF AskInv

LEMMA OneKeeps ==
    ASSUME AskInv, NEW p \in Callers, Alone(p), Maps', Asks(p)'
    PROVE  AskInv'
<1>1. ASSUME NEW q \in Callers PROVE Asks(q)'
  BY <1>1 DEF AskInv, Asks, Proper, Quiet, Earned, Alone
<1> QED BY <1>1 DEF AskInv

-----------------------------------------------------------------------------
(* Steps of a call *)

\* What a step is for the one who waits: a step of ResultRequest, or none.
Answered == [Promise!Next]_(Promise!vars)

\* A call that goes on is still asking,
LEMMA StillAsking ==
    ASSUME CallInv, NEW p \in Callers, NEW r, call' = [call EXCEPT ![p] = r], r.op = call[p].op,
           UNCHANGED <<answer, finished>>
    PROVE  Answered
<1>1. \A q \in Callers : call'[q].op = call[q].op
  BY DEF CallInv, Shape
<1> QED BY <1>1 DEF Answered, Promise!vars

\* and one that ends returns what was reported for it, or raises.
LEMMA Returned ==
    ASSUME CallInv, AskInv, NEW p \in Callers, NEW how, Ends(p, how), call[p].at # "idle",
           UNCHANGED finished,
           \/ how \notin Terminal \cup Progress
           \/ how \in finished[p] /\ call[p].op = "request"
    PROVE  Answered
<1>1. /\ call' = [call EXCEPT ![p] = NoCall] /\ NoCall.op = "none"
      /\ answer' = [answer EXCEPT ![p] = how] /\ DOMAIN answer = Callers /\ DOMAIN call = Callers
  BY DEF Ends, NoCall, CallInv, Shape
<1>2. answer[p] = "none" /\ "none" \notin Terminal \cup Progress /\ finished[p] \subseteq Terminal
  BY StateAssumption DEF AskInv, Asks, Proper, Maps
<1> DEFINE Seen(a) == IF a \in Terminal \cup Progress THEN a ELSE "raised"
<1>3. [q \in Callers |-> Seen(answer'[q])]
      = [[q \in Callers |-> Seen(answer[q])] EXCEPT ![p] = Seen(how)]
  BY <1>1
<1>4. CASE call[p].op = "request"
  <2>1. {q \in Callers : call'[q].op = "request"} = {q \in Callers : call[q].op = "request"} \ {p}
    BY <1>1
  <2>2. Seen(how) \in finished[p] \cup {"raised"}
    BY <1>2
  <2> HIDE DEF Seen
  <2>3. [q \in Callers |-> Seen(answer'[q])]
        \in {[[q \in Callers |-> Seen(answer[q])] EXCEPT ![p] = s] : s \in finished[p] \cup {"raised"}}
    BY <1>3, <2>2
  <2> USE DEF Seen
  <2>4. Promise!Return(p)
    BY <1>4, <2>1, <2>3 DEF Promise!Return
  <2> QED BY <2>4 DEF Answered, Promise!Next
<1>5. CASE call[p].op # "request"
  <2>1. {q \in Callers : call'[q].op = "request"} = {q \in Callers : call[q].op = "request"}
    BY <1>1, <1>5
  <2>2. [q \in Callers |-> Seen(answer'[q])] = [q \in Callers |-> Seen(answer[q])]
    BY <1>1, <1>2, <1>5
  <2> QED BY <2>1, <2>2 DEF Answered, Promise!vars
<1> QED BY <1>4, <1>5

\* A call that goes on, or ends, with the results and replies as they are.
LEMMA GoesOn ==
    ASSUME CallInv, AskInv, NEW p \in Callers, NEW where \in Places \ {"idle", "rpc"}, Goes(p, where),
           call[p].at \notin {"idle", "rpc"}, where \in Waiting => call[p].op = "request",
           UNCHANGED <<results, queue, inhand, finished>>
    PROVE  AskInv' /\ Answered
<1>1. call' = [call EXCEPT ![p].at = where] /\ answer' = answer
  BY DEF Goes
<1>2. call[p] \in CallRecords /\ DOMAIN call = Callers
  BY DEF CallInv, Shape
<1>3. PICK r \in CallRecords : /\ call' = [call EXCEPT ![p] = r]
                               /\ r.at = where /\ r.op = call[p].op
  <2>1. [call[p] EXCEPT !.at = where] \in CallRecords
    BY <1>2 DEF CallRecords
  <2> QED BY <1>1, <1>2, <2>1 DEF CallRecords
<1>4. Alone(p)
  BY <1>1, <1>2 DEF Alone
<1>5. Asks(p)'
  BY <1>1, <1>2, <1>3 DEF AskInv, Asks, Proper, Quiet, Earned
<1>6. Answered
  BY <1>1, <1>3, StillAsking
<1> QED BY <1>4, <1>5, <1>6, OneKeeps DEF AskInv, Maps

LEMMA ItEnds ==
    ASSUME CallInv, AskInv, NEW p \in Callers, NEW how, Ends(p, how), call[p].at \notin {"idle", "rpc"},
           UNCHANGED <<results, queue, inhand, finished>>,
           \/ how \notin Terminal \cup Progress
           \/ how \in finished[p] /\ call[p].op = "request"
    PROVE  AskInv' /\ Answered
<1>1. call'[p] = NoCall
  BY DEF Ends, CallInv, Shape
<1>2. Alone(p)
  BY DEF Alone, Ends, CallInv, Shape
<1>3. Asks(p)'
  BY <1>1 DEF AskInv, Asks, Proper, Quiet, Earned, NoCall, Waiting
<1>4. Answered
  BY Returned
<1> QED BY <1>2, <1>3, <1>4, OneKeeps DEF AskInv, Maps

LEMMA CallAsks == ASSUME CallInv, AskInv, NEW p \in Callers, NewCall(p) PROVE AskInv' /\ Answered
<1>1. call[p].at = "idle" /\ call[p].op = "none" /\ queue[p] = <<>> /\ inhand[p] = "none"
      /\ DOMAIN call = Callers /\ DOMAIN answer = Callers /\ DOMAIN results = Callers
  BY DEF NewCall, Call, Ping, AskInv, Asks, Proper, Quiet, CallInv, Shape
<1>2. PICK r, how :
         /\ call' = [call EXCEPT ![p] = r] /\ answer' = [answer EXCEPT ![p] = how]
         /\ how \in {"none", "refused", "dead"}
         /\ \/ r.at = "idle" /\ r.op = "none"
            \/ how = "none" /\ r.at \in {"building", "locking", "pinging"}
            \/ how = "none" /\ r.at = "asking" /\ r.op = "request"
  <2>1. CASE Ends(p, "refused") \/ Ends(p, "dead")
    <3>1. NoCall.at = "idle" /\ NoCall.op = "none"
      BY DEF NoCall
    <3> QED BY <2>1, <3>1 DEF Ends
  <2>2. ASSUME NEW what \in {"publish", "request"}, Call(p, what), wired # 0
        PROVE  \E r : /\ call' = [call EXCEPT ![p] = r] /\ answer' = [answer EXCEPT ![p] = "none"]
                      /\ \/ r.at \in {"building", "locking"}
                         \/ r.at = "asking" /\ r.op = "request"
    <3> DEFINE r == [op |-> what, at |-> IF Suspends THEN "building" ELSE AfterBuild(what),
                     has |-> wired, lock |-> connects]
    <3>1. r.at \in {"building", "locking"} \/ (r.at = "asking" /\ r.op = "request")
      BY DEF AfterBuild
    <3>2. call' = [call EXCEPT ![p] = r] /\ answer' = [answer EXCEPT ![p] = "none"]
      BY <2>2 DEF Call
    <3> HIDE DEF r
    <3> QED BY <3>1, <3>2
  <2>3. CASE Ping(p) /\ ~Ends(p, "dead")
    <3> DEFINE r == [op |-> "ping", at |-> "pinging", has |-> pinged, lock |-> 0]
    <3>1. r.at = "pinging"
      OBVIOUS
    <3>2. call' = [call EXCEPT ![p] = r] /\ answer' = [answer EXCEPT ![p] = "none"]
      BY <2>3 DEF Ping
    <3> HIDE DEF r
    <3> QED BY <3>1, <3>2
  <2> QED BY <2>1, <2>2, <2>3 DEF NewCall, Call
<1>3. /\ results' = [results EXCEPT ![p] = "none"] /\ finished' = [finished EXCEPT ![p] = {}]
      /\ UNCHANGED <<queue, inhand>>
  BY DEF NewCall
<1>4. Maps' /\ Alone(p)
  BY <1>1, <1>2, <1>3 DEF AskInv, Maps, Alone
<1>5. Asks(p)'
  <2>1. Proper(p)'
    BY <1>1, <1>2 DEF Proper, Waiting
  <2>2. Quiet(p)'
    BY <1>1, <1>3 DEF Quiet
  <2>3. results'[p] = "none" /\ inhand'[p] = "none" /\ queue'[p] = <<>>
    BY <1>1, <1>3
  <2>4. Earned(p)'
    BY <2>3, StateAssumption DEF Earned
  <2> QED BY <2>1, <2>2, <2>4 DEF Asks
<1>6. Promise!Ask(p)
  <2> DEFINE Seen(a) == IF a \in Terminal \cup Progress THEN a ELSE "raised"
             Asking == {q \in Callers : call[q].op = "request"}
  <2>1. Asking' \in {Asking, Asking \cup {p}} /\ p \notin Asking
    BY <1>1, <1>2
  <2>2. Seen(how) = "raised"
    BY <1>2, StateAssumption
  <2>3. [q \in Callers |-> Seen(answer'[q])]
        = [[q \in Callers |-> Seen(answer[q])] EXCEPT ![p] = "raised"]
    BY <1>1, <1>2, <2>2
  <2> QED BY <1>3, <2>1, <2>3 DEF Promise!Ask
<1> QED BY <1>4, <1>5, <1>6, OneKeeps DEF Answered, Promise!Next

LEMMA ReportAsks == ASSUME CallInv, AskInv, NEW p \in Callers, Report(p) PROVE AskInv' /\ Answered
<1>1. PICK kind \in Replies :
         /\ finished' = [finished EXCEPT ![p] = @ \cup ({kind} \cap Terminal)]
         /\ \/ Reply(p, kind)
            \/ Store(p, kind)
  BY DEF Report
<1>2. UNCHANGED <<call, answer>> /\ DOMAIN results = Callers
  BY DEF Report, writeVars, callVars, CallInv, Shape
<1>3. Maps' /\ Alone(p) /\ finished[p] \subseteq finished'[p]
      /\ (kind \in Terminal => kind \in finished'[p])
  BY <1>1, <1>2 DEF AskInv, Maps, Alone, Reply, Store
<1>4. Asks(p)'
  <2>1. Proper(p)'
    BY <1>2 DEF AskInv, Asks, Proper
  <2>2. Quiet(p)'
    BY <1>1, <1>2 DEF AskInv, Maps, Asks, Quiet, Reply, Store
  <2>3. (results[p] \in Terminal => results[p] \in finished[p])
        /\ (inhand[p] \in Terminal => inhand[p] \in finished[p]) /\ inhand' = inhand
    BY <1>1 DEF AskInv, Asks, Earned, Reply, Store
  <2>4. results'[p] \in {results[p], kind}
    BY <1>1, <1>2 DEF Reply, Store
  <2>5. queue[p] \in Seq(Replies) /\ queue'[p] \in {queue[p], Append(queue[p], kind)}
    BY <1>1 DEF AskInv, Maps, Asks, Earned, Reply, Store
  <2>6. \A i \in 1..Len(queue[p]) : queue[p][i] \in Terminal => queue[p][i] \in finished'[p]
    BY <1>3 DEF AskInv, Asks, Earned
  <2>7. /\ queue'[p] \in Seq(Replies)
        /\ \A i \in 1..Len(queue'[p]) : queue'[p][i] \in Terminal => queue'[p][i] \in finished'[p]
    <3>1. CASE queue'[p] = queue[p]
      BY <2>5, <2>6, <3>1
    <3>2. CASE queue'[p] = Append(queue[p], kind)
      BY <1>3, <2>5, <2>6, <3>2
    <3> QED BY <2>5, <3>1, <3>2
  <2>8. Earned(p)'
    BY <1>3, <2>3, <2>4, <2>7 DEF Earned
  <2> QED BY <2>1, <2>2, <2>8 DEF Asks
<1>5. Promise!Finish
  BY <1>1, <1>2, <1>3 DEF Promise!Finish, Maps, Alone, AskInv
<1> QED BY <1>3, <1>4, <1>5, OneKeeps DEF Answered, Promise!Next

LEMMA WriteAsks ==
    ASSUME CallInv, AskInv, NEW p \in Callers, CallGoesOn(p), UNCHANGED waitVars
    PROVE  AskInv' /\ Answered
<1>1. UNCHANGED <<results, queue, inhand, finished>>
  BY DEF waitVars
<1>2. {"ok", "error", "alive", "dead"} \cap (Terminal \cup Progress) = {}
  BY StateAssumption
<1>3. CASE Built(p)
  <2> DEFINE where == AfterBuild(call[p].op)
             r == [call[p] EXCEPT !.at = where, !.lock = connects]
  <2>1. call[p] \in CallRecords /\ DOMAIN call = Callers /\ connects \in 0..MaxConnects
    BY DEF CallInv, Shape
  <2>2. where \in {"locking", "asking"} /\ (where = "asking" => call[p].op = "request")
    BY DEF AfterBuild
  <2>3. r.at = where /\ r.op = call[p].op
    BY <2>1 DEF CallRecords
  <2>4. call' = [call EXCEPT ![p] = r] /\ UNCHANGED answer /\ call[p].at = "building"
    BY <1>3 DEF Built
  <2> HIDE DEF r, where
  <2>5. Alone(p)
    BY <1>1, <2>1, <2>4 DEF Alone
  <2>6. Asks(p)'
    BY <1>1, <2>1, <2>2, <2>3, <2>4 DEF AskInv, Asks, Proper, Quiet, Earned, Waiting
  <2>7. Answered
    BY <1>1, <2>3, <2>4, StillAsking
  <2> QED BY <1>1, <2>5, <2>6, <2>7, OneKeeps DEF AskInv, Maps
<1>4. CASE Acquire(p) \/ Write(p) \/ Check(p)
  BY <1>1, <1>4, GoesOn DEF Acquire, Write, Check, Places, Waiting
<1>5. CASE PingTimesOut(p) \/ Checked(p)
  BY <1>1, <1>2, <1>5, ItEnds DEF PingTimesOut, Checked
<1>6. CASE Written(p)
  <2>1. CASE call[p].op = "request" /\ Goes(p, "loading")
    BY <1>1, <1>6, <2>1, GoesOn DEF Written, Places
  <2>2. CASE Ends(p, "ok") \/ Ends(p, "error")
    BY <1>1, <1>2, <1>6, <2>2, ItEnds DEF Written
  <2> QED BY <1>6, <2>1, <2>2 DEF Written
<1> QED BY <1>3, <1>4, <1>5, <1>6 DEF CallGoesOn

\* What a backend has recorded is an outcome of this task.
LEMMA BackendAsks ==
    ASSUME CallInv, AskInv, NEW p \in Callers, LooksInMemory(p) \/ LooksInRedis(p) \/ PollsAgain(p)
    PROVE  AskInv' /\ Answered
<1>1. /\ UNCHANGED <<results, queue, inhand, finished>>
      /\ call[p].at \in {"loading", "asleep", "napping"} /\ call[p].op = "request"
  BY DEF LooksInMemory, LooksInRedis, PollsAgain, waitVars, AskInv, Asks, Proper, Waiting
<1>2. {"error", "timeout"} \cap (Terminal \cup Progress) = {}
  BY StateAssumption
<1>3. CASE Complete(results[p]) /\ Ends(p, results[p])
  <2>1. results[p] \in finished[p]
    BY <1>3 DEF Complete, AskInv, Asks, Earned
  <2> QED BY <1>1, <1>3, <2>1, ItEnds
<1>4. CASE Ends(p, "timeout") \/ Ends(p, "error")
  BY <1>1, <1>2, <1>4, ItEnds
<1>5. CASE Goes(p, "asleep") \/ Goes(p, "napping") \/ Goes(p, "loading")
  BY <1>1, <1>5, GoesOn DEF Places
<1> QED BY <1>3, <1>4, <1>5 DEF LooksInMemory, LooksInRedis, PollsAgain, Returns

\* What an RPC reply says of this task is an outcome of it.
LEMMA RpcAsks ==
    ASSUME CallInv, AskInv, NEW p \in Callers, RpcBegins(p) \/ RpcTurn(p)
    PROVE  AskInv' /\ Answered
<1>1. /\ UNCHANGED <<results, finished>> /\ call[p].at \in {"asking", "rpc"}
      /\ call[p].op = "request" /\ DOMAIN call = Callers /\ DOMAIN answer = Callers
      /\ call[p] \in CallRecords
  BY DEF RpcBegins, RpcTurn, Kept, AskInv, Asks, Proper, Waiting, CallInv, Shape
<1>2. {"error", "timeout"} \cap (Terminal \cup Progress) = {}
  BY StateAssumption
<1>3. Maps' /\ DOMAIN queue = Callers /\ DOMAIN inhand = Callers
  BY <1>1 DEF RpcBegins, RpcTurn, RpcEnds, AskInv, Maps
<1>4. Alone(p)
  BY <1>1, <1>3 DEF RpcBegins, RpcTurn, RpcEnds, Alone, Goes, Ends
<1>5. CASE RpcBegins(p)
  <2>1. queue'[p] = <<>> /\ inhand'[p] = "none" /\ results'[p] = results[p]
    BY <1>1, <1>3, <1>5 DEF RpcBegins, AskInv, Asks, Quiet
  <2>2. Earned(p)'
    BY <1>1, <2>1, StateAssumption DEF AskInv, Asks, Earned
  <2>3. CASE Goes(p, "rpc")
    <3> DEFINE r == [call[p] EXCEPT !.at = "rpc"]
    <3>1. r.at = "rpc" /\ r.op = "request"
      BY <1>1 DEF CallRecords
    <3>2. call' = [call EXCEPT ![p] = r] /\ answer' = answer
      BY <2>3 DEF Goes
    <3> HIDE DEF r
    <3>3. Answered
      BY <1>1, <3>1, <3>2, StillAsking
    <3>4. Proper(p)' /\ Quiet(p)'
      BY <1>1, <3>1, <3>2 DEF AskInv, Asks, Proper, Quiet
    <3> QED BY <1>3, <1>4, <2>2, <3>3, <3>4, OneKeeps DEF Asks
  <2>4. CASE Ends(p, "error")
    <3>1. Proper(p)' /\ Quiet(p)'
      BY <1>1, <2>1, <2>4 DEF Ends, NoCall, Proper, Quiet, Waiting
    <3> QED BY <1>1, <1>2, <1>3, <1>4, <2>2, <2>4, <3>1, OneKeeps, Returned DEF Asks
  <2> QED BY <1>5, <2>3, <2>4 DEF RpcBegins
<1>6. ASSUME NEW how, RpcEnds(p, how), how \notin Terminal \cup Progress \/ how \in finished[p]
      PROVE  AskInv' /\ Answered
  <2>1. queue'[p] = <<>> /\ inhand'[p] = "none" /\ call'[p] = NoCall
    BY <1>1, <1>3, <1>6 DEF RpcEnds, Ends
  <2>2. Asks(p)'
    BY <1>1, <2>1, StateAssumption DEF AskInv, Asks, Proper, Quiet, Earned, NoCall, Waiting
  <2>3. Answered
    BY <1>1, <1>6, Returned DEF RpcEnds
  <2> QED BY <1>3, <1>4, <2>2, <2>3, OneKeeps
<1>7. ASSUME call[p].at = "rpc", UNCHANGED <<call, answer>>,
             queue'[p] \in Seq(Replies),
             \A i \in 1..Len(queue'[p]) : queue'[p][i] \in Terminal => queue'[p][i] \in finished[p],
             inhand'[p] \in Terminal => inhand'[p] \in finished[p]
      PROVE  AskInv' /\ Answered
  <2>1. Asks(p)'
    BY <1>1, <1>7 DEF AskInv, Asks, Proper, Quiet, Earned
  <2>2. Answered
    BY <1>1, <1>7 DEF Answered, Promise!vars
  <2> QED BY <1>3, <1>4, <2>1, <2>2, OneKeeps
<1>8. CASE RpcTurn(p)
  <2>1. /\ inhand[p] \in Terminal => inhand[p] \in finished[p]
        /\ queue[p] \in Seq(Replies)
        /\ \A i \in 1..Len(queue[p]) : queue[p][i] \in Terminal => queue[p][i] \in finished[p]
    BY DEF AskInv, Asks, Earned
  <2>2. CASE RpcEnds(p, "timeout") \/ RpcEnds(p, "error")
    BY <1>2, <1>6, <2>2
  <2>3. CASE Matches(inhand[p]) /\ RpcEnds(p, inhand[p])
    BY <1>6, <2>1, <2>3 DEF Matches
  <2>4. CASE inhand' = [inhand EXCEPT ![p] = "none"] /\ UNCHANGED <<call, answer, queue>>
    BY <1>3, <1>7, <1>8, <2>1, <2>4, StateAssumption DEF RpcTurn
  <2>5. CASE /\ queue[p] # <<>> /\ UNCHANGED <<call, answer>>
             /\ inhand' = [inhand EXCEPT ![p] = Head(queue[p])]
             /\ queue' = [queue EXCEPT ![p] = Tail(@)]
    <3> DEFINE q == queue[p]
    <3>1. q \in Seq(Replies) /\ q # <<>> /\ inhand'[p] = Head(q) /\ queue'[p] = Tail(q)
      BY <1>3, <2>1, <2>5
    <3> HIDE DEF q
    <3>2. /\ Len(q) >= 1 /\ Head(q) = q[1] /\ Tail(q) \in Seq(Replies)
          /\ Len(Tail(q)) = Len(q) - 1
          /\ \A i \in 1..Len(Tail(q)) : Tail(q)[i] = q[i + 1]
      BY <3>1
    <3> USE DEF q
    <3>3. \A i \in 1..Len(queue'[p]) : queue'[p][i] \in Terminal => queue'[p][i] \in finished[p]
      BY <2>1, <3>1, <3>2
    <3>4. inhand'[p] \in Terminal => inhand'[p] \in finished'[p]
      BY <1>1, <2>1, <3>1, <3>2
    <3> QED BY <1>7, <1>8, <2>5, <3>1, <3>2, <3>3, <3>4 DEF RpcTurn
  <2> QED BY <1>8, <2>2, <2>3, <2>4, <2>5 DEF RpcTurn
<1> QED BY <1>5, <1>8

LEMMA ExpireAsks ==
    ASSUME CallInv, AskInv, NEW p \in Callers, Expire(p)
    PROVE  AskInv' /\ Answered
<1>1. UNCHANGED <<results, queue, inhand, finished>> /\ "timeout" \notin Terminal \cup Progress
  BY StateAssumption DEF Expire
<1>2. CASE Ends(p, "timeout") /\ Interruptible(p)
  BY <1>1, <1>2, ItEnds DEF Interruptible
<1>3. CASE UNCHANGED <<call, answer>>
  BY <1>1, <1>3 DEF AskInv, Maps, Asks, Proper, Quiet, Earned, Answered, Promise!vars
<1> QED BY <1>2, <1>3 DEF Expire

\* start() and stop() answer nobody, and record nothing.
LEMMA LifeAsks ==
    ASSUME CallInv, AskInv, ((Connect \/ Stop) /\ UNCHANGED waitVars) \/ LifeProceeds
    PROVE  AskInv' /\ Answered
<1>1. UNCHANGED <<call, answer, queue, inhand, finished>>
  BY DEF Connect, Stop, LifeProceeds, LifeGoesOn, Connected, Disconnect, Close, Forget, Closing,
         Closed, callVars, waitVars
<1>2. \A p \in Callers : results'[p] \in {results[p], "none"}
  BY DEF Connect, Stop, LifeProceeds, LifeGoesOn, Closing, waitVars
<1>3. AskInv'
  BY <1>1, <1>2, StateAssumption DEF AskInv, Maps, Asks, Proper, Quiet, Earned
<1> QED BY <1>1, <1>3 DEF Answered, Promise!vars

LEMMA AskStep == CallInv /\ AskInv /\ [Next]_vars => AskInv' /\ Answered
<1> SUFFICES ASSUME CallInv, AskInv, [Next]_vars PROVE AskInv' /\ Answered
  OBVIOUS
<1>1. CASE ((Connect \/ Stop) /\ UNCHANGED waitVars) \/ LifeProceeds
  BY <1>1, LifeAsks
<1>2. ASSUME NEW p \in Callers, NewCall(p) \/ Report(p) \/ CallProceeds(p) \/ Expire(p)
      PROVE  AskInv' /\ Answered
  BY <1>2, CallAsks, ReportAsks, WriteAsks, BackendAsks, RpcAsks, ExpireAsks DEF CallProceeds
<1>3. CASE UNCHANGED vars
  BY <1>3 DEF vars, writeVars, callVars, waitVars, AskInv, Maps, Asks, Proper, Quiet, Earned,
              Answered, Promise!vars
<1> QED BY <1>1, <1>2, <1>3 DEF Next

-----------------------------------------------------------------------------
\* request() keeps its promise with every backend and without one: it returns only a
\* terminal outcome reported for its own task since it was called, or raises.
THEOREM RequestsKeepTheirPromise == Spec => ImplementsRequest
<1>1. Init => Promise!Init
  BY StateAssumption DEF Init, WriteInit, NoCall, Promise!Init
<1>2. CallInv /\ AskInv /\ [Next]_vars => AskInv' /\ [Promise!Next]_(Promise!vars)
  BY AskStep DEF Answered
<1> QED BY CallInit, AskInit, CallStep, <1>1, <1>2, PTL DEF Spec, ImplementsRequest, Promise!Spec
=============================================================================
