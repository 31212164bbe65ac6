---------------------------- MODULE SingleFlight ----------------------------
(***************************************************************************)
(* server/singleflight.py: SingleFlightGroup.execute for one key.          *)
(*                                                                         *)
(* Keys never share state (a flight, a lock and a data blob per key), so   *)
(* one key is modelled, called by the requests Req of the gateway          *)
(* processes Proc.  A flight is named by the request that opened it.  Each *)
(* await of the coroutine is a label of pc; what runs between two awaits   *)
(* is one action.  The process-local asyncio lock is never held across an  *)
(* await, so the sections it guards are atomic and it needs no state.      *)
(***************************************************************************)
EXTENDS Naturals, FiniteSets

CONSTANTS
  Proc,          \* gateway processes (replicas) that share one Redis
  Req,           \* calls of execute() for the key
  home,          \* the process each call is made in
  NoOne,         \* no request: no flight open, lock free
  Pending,       \* a future, reply or blob that has no value yet
  Distributed,   \* TRUE: a Redis client is attached
  RedisFaults,   \* TRUE: a Redis call may fail (_redis_call then returns None)
  LeaseMayLapse, \* TRUE: a holder may outlive the TTL of its lock key
  Crashes        \* processes that may die

ASSUME FlightAssumption ==
  /\ home \in [Req -> Proc]
  /\ NoOne \notin Req
  /\ Pending \notin [ok : BOOLEAN, by : Req]
  /\ Distributed \in BOOLEAN
  /\ RedisFaults \in BOOLEAN
  /\ LeaseMayLapse \in BOOLEAN
  /\ Crashes \subseteq Proc

VARIABLES
  pc,       \* the await each call is at
  flight,   \* _flights[key] of each process: the request that opened it
  joined,   \* the flight each call belongs to
  future,   \* FlightCall.future of the flight each request opened
  result,   \* local: what fn() returned, not yet delivered
  reply,    \* what execute() returned; Pending when it raised TimeoutError
  lock,     \* Redis lock_key: who took it (the code stores "locked")
  data,     \* Redis data_key: the blob of the last published execution
  lapsed,   \* history: holders whose lock key expired under them
  before    \* history: the calls that were over when each call began

vars == <<pc, flight, joined, future, result, reply, lock, data, lapsed, before>>

Result == [ok : BOOLEAN, by : Req]

Label == {"idle", "follow", "lock", "fetch", "publish", "release",
          "poll", "exists", "recheck", "promote", "pfetch", "ppublish",
          "prelease", "fallback", "done", "dead"}

\* Labels at which a call owns the open flight of its process.
Leading == Label \ {"idle", "follow", "done", "dead"}

\* Labels at which the upstream function runs, and those of the calls that
\* took the Redis lock for it.
Executing == {"fetch", "pfetch", "fallback"}
UnderLock == {"fetch", "publish", "release", "pfetch", "ppublish", "prelease"}

Init ==
  /\ pc = [r \in Req |-> "idle"]
  /\ flight = [p \in Proc |-> NoOne]
  /\ joined = [r \in Req |-> NoOne]
  /\ future = [r \in Req |-> Pending]
  /\ result = [r \in Req |-> Pending]
  /\ reply = [r \in Req |-> Pending]
  /\ lock = NoOne
  /\ data = Pending
  /\ lapsed = {}
  /\ before = [r \in Req |-> {}]

Goto(r, label) == pc' = [pc EXCEPT ![r] = label]

\* Whether a Redis call takes effect, and whether its caller learns so.
RedisCall == {c \in [done : BOOLEAN, told : BOOLEAN] :
                /\ c.told => c.done
                /\ ~RedisFaults => c.told}

----------------------------------------------------------------------------
(* Process-local coalescing *)

\* The gate: the first call opens the flight, the others follow it.
Arrive(r) ==
  LET open == flight[home[r]] IN
  /\ pc[r] = "idle"
  /\ before' = [before EXCEPT ![r] = {s \in Req : pc[s] \in {"done", "dead"}}]
  /\ IF open = NoOne
       THEN /\ flight' = [flight EXCEPT ![home[r]] = r]
            /\ joined' = [joined EXCEPT ![r] = r]
            /\ Goto(r, IF Distributed THEN "lock" ELSE "fetch")
       ELSE /\ joined' = [joined EXCEPT ![r] = open]
            /\ Goto(r, "follow")
            /\ UNCHANGED flight
  /\ UNCHANGED <<future, result, reply, lock, data, lapsed>>

FollowerReturns(r) ==
  /\ pc[r] = "follow"
  /\ future[joined[r]] # Pending
  /\ reply' = [reply EXCEPT ![r] = future[joined[r]]]
  /\ Goto(r, "done")
  /\ UNCHANGED <<flight, joined, future, result, lock, data, lapsed, before>>

\* Mutants: a follower that times out runs the function itself; or waits
\* without a deadline.
FollowerTimesOut_RunsItself(r) ==
  /\ pc[r] = "follow"
  /\ future[joined[r]] = Pending
  /\ Goto(r, "fallback")
  /\ UNCHANGED <<flight, joined, future, result, reply, lock, data, lapsed, before>>
FollowerTimesOut_Never(r) == pc[r] = "follow" /\ FALSE /\ UNCHANGED vars

\* wait_for() expires; shield() keeps the flight's future alive.
FollowerTimesOut(r) ==
  /\ pc[r] = "follow"
  /\ future[joined[r]] = Pending
  /\ Goto(r, "done")
  /\ UNCHANGED <<flight, joined, future, result, reply, lock, data, lapsed, before>>

\* The call that opened the flight returns or raises res, hands it to its
\* followers unless the code path forgets to, and closes the flight.
Resolve(r, res) == future' = [future EXCEPT ![r] = res]
\* Mutants: the finally block is dropped; or leaves the future in _flights.
CloseFlight_Dropped(r) == UNCHANGED flight
CloseFlight_KeepsFuture(r) == flight' = [flight EXCEPT ![home[r]] = Pending]

CloseFlight(r) ==
  flight' = IF flight[home[r]] = r
            THEN [flight EXCEPT ![home[r]] = NoOne] ELSE flight
Leave(r, res) ==
  /\ reply' = [reply EXCEPT ![r] = res]
  /\ CloseFlight(r)
  /\ Goto(r, "done")

----------------------------------------------------------------------------
(* The upstream function *)

\* Mutants: no set_exception when fn() raises; the flight closed before the
\* result is published.
FetchEnds_NoSetException(r) ==
  /\ pc[r] = "fetch"
  /\ \E ok \in BOOLEAN :
       LET res == [ok |-> ok, by |-> r] IN
       /\ result' = [result EXCEPT ![r] = res]
       /\ IF Distributed
            THEN Goto(r, "publish") /\ UNCHANGED <<future, reply, flight>>
            ELSE /\ IF ok THEN Resolve(r, res) ELSE UNCHANGED future
                 /\ Leave(r, res)
  /\ UNCHANGED <<joined, lock, data, lapsed, before>>
FetchEnds_ClosesEarly(r) ==
  /\ pc[r] = "fetch"
  /\ \E ok \in BOOLEAN : result' = [result EXCEPT ![r] = [ok |-> ok, by |-> r]]
  /\ CloseFlight(r)
  /\ Goto(r, "publish")
  /\ UNCHANGED <<joined, future, reply, lock, data, lapsed, before>>

\* fn() of a leader returns or raises.  Without Redis the call ends here.
FetchEnds(r) ==
  /\ pc[r] = "fetch"
  /\ \E ok \in BOOLEAN :
       LET res == [ok |-> ok, by |-> r] IN
       /\ result' = [result EXCEPT ![r] = res]
       /\ IF Distributed
            THEN Goto(r, "publish") /\ UNCHANGED <<future, reply, flight>>
            ELSE Resolve(r, res) /\ Leave(r, res)
  /\ UNCHANGED <<joined, lock, data, lapsed, before>>

\* fn() of a follower promoted after the lock vanished.  When it raises,
\* the future of the flight is not completed.
PromotedFetchEnds(r) ==
  /\ pc[r] = "pfetch"
  /\ \E ok \in BOOLEAN :
       /\ result' = [result EXCEPT ![r] = [ok |-> ok, by |-> r]]
       /\ Goto(r, IF ok THEN "ppublish" ELSE "prelease")
  /\ UNCHANGED <<flight, joined, future, reply, lock, data, lapsed, before>>

\* Mutant: the fallback returns without set_result.
FallbackEnds_Forgets(r) ==
  /\ pc[r] = "fallback"
  /\ \E ok \in BOOLEAN :
       LET res == [ok |-> ok, by |-> r] IN
       /\ result' = [result EXCEPT ![r] = res]
       /\ Leave(r, res)
  /\ UNCHANGED <<joined, future, lock, data, lapsed, before>>

\* fn() after the poll deadline, without the lock.  Same on a raise.
FallbackEnds(r) ==
  /\ pc[r] = "fallback"
  /\ \E ok \in BOOLEAN :
       LET res == [ok |-> ok, by |-> r] IN
       /\ result' = [result EXCEPT ![r] = res]
       /\ IF ok THEN Resolve(r, res) ELSE UNCHANGED future
       /\ Leave(r, res)
  /\ UNCHANGED <<joined, lock, data, lapsed, before>>

----------------------------------------------------------------------------
(* Redis leader *)

\* Mutant: SET without NX.
TryLock_NoNX(r, won, lost) ==
  \E c \in RedisCall :
    /\ lock' = IF c.done THEN r ELSE lock
    /\ Goto(r, IF c.told THEN won ELSE lost)

\* SET lock_key NX EX: only an answer "acquired" makes a leader; a refusal
\* and a failed call (None) both make a poller.
TryLock(r, won, lost) ==
  \E c \in RedisCall :
    /\ lock' = IF c.done /\ lock = NoOne THEN r ELSE lock
    /\ Goto(r, IF c.told /\ lock = NoOne THEN won ELSE lost)

\* Mutant: data_key is looked at before the lock is tried.
Acquire_BlobFirst(r) ==
  /\ pc[r] = "lock"
  /\ IF data # Pending THEN Goto(r, "poll") /\ UNCHANGED lock
                       ELSE TryLock(r, "fetch", "poll")
  /\ UNCHANGED <<flight, joined, future, result, reply, data, lapsed, before>>

Acquire(r) ==
  /\ pc[r] = "lock"
  /\ TryLock(r, "fetch", "poll")
  /\ UNCHANGED <<flight, joined, future, result, reply, data, lapsed, before>>

\* SET data_key: the payload, or the error blob when fn() raised.
PublishResult(r) ==
  \E c \in RedisCall : data' = IF c.done THEN result[r] ELSE data

Publish(r) ==
  /\ pc[r] = "publish"
  /\ PublishResult(r)
  /\ Goto(r, "release")
  /\ UNCHANGED <<flight, joined, future, result, reply, lock, lapsed, before>>

\* DELETE lock_key, whoever holds it by now.
DeleteLock(r) ==
  \E c \in RedisCall : lock' = IF c.done THEN NoOne ELSE lock

\* Mutant: the future is completed with what Redis holds.
Release_ReadsBack(r) ==
  /\ pc[r] = "release"
  /\ DeleteLock(r)
  /\ Resolve(r, data)
  /\ Leave(r, result[r])
  /\ UNCHANGED <<joined, result, data, lapsed, before>>

Release(r) ==
  /\ pc[r] = "release"
  /\ DeleteLock(r)
  /\ Resolve(r, result[r])
  /\ Leave(r, result[r])
  /\ UNCHANGED <<joined, result, data, lapsed, before>>

----------------------------------------------------------------------------
(* Redis follower: poll, promote, fall back *)

\* A blob was read: parse it, complete the future with it and return.
Receive(r) ==
  /\ data # Pending
  /\ Resolve(r, data)
  /\ Leave(r, data)

\* GET data_key at the head of the poll loop, before the deadline.
Poll(r) ==
  /\ pc[r] = "poll"
  /\ \/ Receive(r)
     \/ /\ data = Pending \/ RedisFaults
        /\ Goto(r, "exists")
        /\ UNCHANGED <<future, reply, flight>>
  /\ UNCHANGED <<joined, result, lock, data, lapsed, before>>

\* EXISTS lock_key; a failed call reads as "no lock".
CheckLock(r) ==
  /\ pc[r] = "exists"
  /\ \/ lock # NoOne /\ Goto(r, "poll")
     \/ (lock = NoOne \/ RedisFaults) /\ Goto(r, "recheck")
  /\ UNCHANGED <<flight, joined, future, result, reply, lock, data, lapsed, before>>

\* GET data_key again, 50 ms later.
Recheck(r) ==
  /\ pc[r] = "recheck"
  /\ \/ Receive(r)
     \/ /\ data = Pending \/ RedisFaults
        /\ Goto(r, "promote")
        /\ UNCHANGED <<future, reply, flight>>
  /\ UNCHANGED <<joined, result, lock, data, lapsed, before>>

Promote(r) ==
  /\ pc[r] = "promote"
  /\ TryLock(r, "pfetch", "poll")
  /\ UNCHANGED <<flight, joined, future, result, reply, data, lapsed, before>>

\* A promoted leader completes its future before it deletes the lock.
PromotedPublish(r) ==
  /\ pc[r] = "ppublish"
  /\ PublishResult(r)
  /\ Resolve(r, result[r])
  /\ Goto(r, "prelease")
  /\ UNCHANGED <<flight, joined, result, reply, lock, lapsed, before>>

PromotedRelease(r) ==
  /\ pc[r] = "prelease"
  /\ DeleteLock(r)
  /\ Leave(r, result[r])
  /\ UNCHANGED <<joined, future, result, data, lapsed, before>>

\* The poll loop runs out of timeout_seconds.
PollTimesOut(r) ==
  /\ pc[r] = "poll"
  /\ Goto(r, "fallback")
  /\ UNCHANGED <<flight, joined, future, result, reply, lock, data, lapsed, before>>

----------------------------------------------------------------------------
(* Time and failures *)

\* The lock key reaches its TTL: its holder died, never deleted it (a lost
\* DELETE, a lost answer to SET) or is still busy with a slow upstream.
LockExpires ==
  /\ lock # NoOne
  /\ LeaseMayLapse \/ pc[lock] \notin UnderLock
  /\ lock' = NoOne
  /\ lapsed' = IF pc[lock] \in UnderLock THEN lapsed \union {lock} ELSE lapsed
  /\ UNCHANGED <<pc, flight, joined, future, result, reply, data, before>>

DataExpires ==
  /\ data # Pending
  /\ data' = Pending
  /\ UNCHANGED <<pc, flight, joined, future, result, reply, lock, lapsed, before>>

\* A process dies with its calls and its _flights; Redis keeps its keys.
Crash(p) ==
  /\ p \in Crashes
  /\ \E r \in Req : home[r] = p /\ pc[r] \notin {"idle", "done", "dead"}
  /\ pc' = [r \in Req |-> IF home[r] = p /\ pc[r] \notin {"idle", "done"}
                          THEN "dead" ELSE pc[r]]
  /\ flight' = [flight EXCEPT ![p] = NoOne]
  /\ UNCHANGED <<joined, future, result, reply, lock, data, lapsed, before>>

----------------------------------------------------------------------------
LocalStep(r) == Arrive(r) \/ FollowerReturns(r) \/ FollowerTimesOut(r)
LeaderStep(r) == FetchEnds(r) \/ Acquire(r) \/ Publish(r) \/ Release(r)
PollStep(r) == Poll(r) \/ CheckLock(r) \/ Recheck(r) \/ Promote(r)
PromotedStep(r) == \/ PromotedFetchEnds(r) \/ PromotedPublish(r)
                   \/ PromotedRelease(r) \/ FallbackEnds(r)

Next ==
  \/ \E r \in Req : \/ LocalStep(r) \/ LeaderStep(r) \/ PollStep(r)
                    \/ PromotedStep(r) \/ PollTimesOut(r)
  \/ \E p \in Proc : Crash(p)
  \/ LockExpires
  \/ DataExpires

Spec == Init /\ [][Next]_vars

\* Every coroutine that can run is resumed by its event loop (weak fairness
\* of a call's steps); fn() is bounded by the HTTP client's timeouts.  The
\* poll deadline is compared with a clock on every turn of a loop that sleeps
\* at least 50 ms, so a call that keeps polling reaches it (strong fairness).
Fairness ==
  \A r \in Req :
    /\ WF_vars(FollowerReturns(r) \/ FollowerTimesOut(r))
    /\ WF_vars(LeaderStep(r) \/ PollStep(r) \/ PromotedStep(r))
    /\ SF_vars(PollTimesOut(r))

FairSpec == Spec /\ Fairness

----------------------------------------------------------------------------
(* Properties *)

TypeOK ==
  /\ pc \in [Req -> Label]
  /\ flight \in [Proc -> Req \union {NoOne}]
  /\ joined \in [Req -> Req \union {NoOne}]
  /\ future \in [Req -> Result \union {Pending}]
  /\ result \in [Req -> Result \union {Pending}]
  /\ reply \in [Req -> Result \union {Pending}]
  /\ lock \in Req \union {NoOne}
  /\ data \in Result \union {Pending}
  /\ lapsed \subseteq Req
  /\ before \in [Req -> SUBSET Req]

\* Prevents cache stampedes inside a process: whatever Redis does, and
\* however leaders change, two calls made in one process never run the
\* upstream function at the same time (the _flights gate of execute).
OneExecutionPerProcess ==
  \A r, s \in Req :
    pc[r] \in Executing /\ pc[s] \in Executing /\ home[r] = home[s] => r = s

\* The calls that coalesced onto one flight and got a result got the same
\* one, the leader's own included, even when the leader was promoted, read a
\* blob of another process or fell back (every path of execute that returns
\* after set_result).
FlightsAgree ==
  \A r, s \in Req :
    /\ joined[r] = joined[s]
    /\ reply[r] # Pending /\ reply[s] # Pending
    => reply[r] = reply[s]

\* A leader that obtained an answer never leaves a follower of its flight
\* waiting for it: only a failure can orphan a flight (set_result on every
\* successful path of execute).
NoAnswerWithheld ==
  \A r \in Req :
    pc[r] = "follow" /\ future[joined[r]] = Pending
      => \/ flight[home[r]] = joined[r]
         \/ reply[joined[r]] # Pending /\ ~reply[joined[r]].ok

\* Leader exceptions reach the followers: nobody waits on a future that no
\* call in progress will complete (set_exception on the failing paths).
NoOrphanedFollower ==
  \A r \in Req :
    pc[r] = "follow" /\ future[joined[r]] = Pending
      => pc[joined[r]] \in Leading

\* "is_leader is False if it coalesced onto an already in-flight execution":
\* no call is answered with the result of a call that was over before it was
\* made (an entry left in _flights, or in Redis under data_key).
FreshAnswers ==
  \A r \in Req : reply[r] # Pending => reply[r].by \notin before[r]

\* Until a lock outlives its TTL under a busy holder, each call that
\* executes as distributed leader holds the Redis lock, so the replicas have
\* one such execution between them (SET NX, promotion, unconditional DELETE).
LeadersHoldTheLock ==
  lapsed = {} => \A r \in Req : pc[r] \in UnderLock /\ Distributed => lock = r

\* Every call in a process that stays up returns or raises: a leader that
\* fails, dies in another process or never publishes blocks nobody for ever.
EveryCallEnds ==
  \A r \in Req : pc[r] \notin {"idle", "done", "dead"} ~> pc[r] \in {"done", "dead"}

----------------------------------------------------------------------------
(* SingleFlight implements FlightPromise *)

PhaseOf(label) == IF label = "idle" THEN "new"
                  ELSE IF label \in {"done", "dead"} THEN "over" ELSE "waiting"
phase == [r \in Req |-> PhaseOf(pc[r])]

\* An exception of a leader that its flight never learns of is no answer.
answer == [r \in Req |-> IF joined[r] # NoOne /\ future[joined[r]] # Pending
                         THEN reply[r] ELSE Pending]

FP == INSTANCE FlightPromise WITH group <- joined, outcome <- future

\* execute() keeps the promise of FlightPromise: flights of a process never
\* overlap, have one outcome, and every answer is its flight's.
PromiseKept == FP!Spec
=============================================================================
