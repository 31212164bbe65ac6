------------------------ MODULE SingleFlight_proofs ------------------------
(***************************************************************************)
(* Theorems about SingleFlight for every number of processes, calls and    *)
(* every setting of its switches.                                          *)
(***************************************************************************)
EXTENDS SingleFlight, TLAPS

----------------------------------------------------------------------------
(* The inductive invariant, by part *)

\* The open flight of a process is exactly the call that leads in it.
LeaderOwnsFlight ==
  /\ \A r \in Req : pc[r] \in Leading => flight[home[r]] = r
  /\ \A p \in Proc : flight[p] # NoOne => /\ home[flight[p]] = p
                                          /\ pc[flight[p]] \in Leading

\* Calls join flights of their own process, and leaders lead their own.
Membership ==
  \A r \in Req :
    /\ pc[r] = "idle" => joined[r] = NoOne
    /\ pc[r] # "idle" => /\ joined[r] \in Req
                         /\ home[joined[r]] = home[r]
                         /\ joined[joined[r]] = joined[r]
    /\ pc[r] \in Leading => joined[r] = r
    /\ pc[r] = "follow" => joined[r] # r

\* A future is completed once, by a leader that is about to leave.
Completion ==
  \A r \in Req :
    /\ pc[r] \in {"idle"} \union (Leading \ {"prelease"}) => future[r] = Pending
    /\ pc[r] \in {"publish", "release", "ppublish", "prelease"} => result[r] # Pending
    /\ pc[r] = "prelease" => \/ future[r] = result[r]
                             \/ future[r] = Pending /\ ~result[r].ok

\* What a call returned is its flight's outcome, or the failure of a leader.
Replies ==
  \A r \in Req :
    reply[r] # Pending =>
      /\ pc[r] = "done"
      /\ \/ reply[r] = future[joined[r]]
         \/ joined[r] = r /\ future[r] = Pending /\ ~reply[r].ok

IInv ==
  /\ TypeOK
  /\ LeaderOwnsFlight
  /\ Membership
  /\ Completion
  /\ Replies
  /\ NoAnswerWithheld
  /\ LeadersHoldTheLock

----------------------------------------------------------------------------
(* Every action preserves the invariant *)

\* A new call opens a flight only where none is open, or joins the open one.
LEMMA ArrivePreserves ==
  ASSUME IInv, NEW r \in Req, Arrive(r)
  PROVE  IInv'
<1> USE FlightAssumption DEF IInv, TypeOK, Result, Label, Leading
<1>0. /\ pc[r] = "idle"
      /\ before' = [before EXCEPT ![r] = {s \in Req : pc[s] \in {"done", "dead"}}]
      /\ UNCHANGED <<future, result, reply, lock, data, lapsed>>
  BY DEF Arrive
<1>1. CASE flight[home[r]] = NoOne
  <2>0. /\ flight' = [flight EXCEPT ![home[r]] = r]
        /\ joined' = [joined EXCEPT ![r] = r]
        /\ \E l \in {"lock", "fetch"} : pc' = [pc EXCEPT ![r] = l]
    BY <1>1 DEF Arrive, Goto
  <2>1. TypeOK'
    BY <1>0, <2>0
  <2>2. LeaderOwnsFlight'
    BY <1>0, <1>1, <2>0 DEF LeaderOwnsFlight
  <2>3. Membership'
    BY <1>0, <2>0 DEF Membership
  <2>4. Completion'
    BY <1>0, <2>0 DEF Completion
  <2>5. Replies'
    BY <1>0, <2>0 DEF Replies, Membership
  <2>6. NoAnswerWithheld'
    <3> SUFFICES ASSUME NEW s \in Req, pc'[s] = "follow",
                        future'[joined'[s]] = Pending
                 PROVE  \/ flight'[home[s]] = joined'[s]
                        \/ reply'[joined'[s]] # Pending /\ ~reply'[joined'[s]].ok
      BY DEF NoAnswerWithheld
    <3>1. s # r /\ pc[s] = "follow" /\ joined'[s] = joined[s] /\ joined[s] \in Req
      BY <1>0, <2>0 DEF Membership
    <3>2. \/ flight[home[s]] = joined[s]
          \/ reply[joined[s]] # Pending /\ ~reply[joined[s]].ok
      BY <1>0, <3>1 DEF NoAnswerWithheld
    <3> QED BY <1>0, <1>1, <2>0, <3>1, <3>2
  <2>7. LeadersHoldTheLock'
    <3>1. pc'[r] \notin UnderLock \/ ~Distributed
      BY <1>0, <1>1 DEF Arrive, Goto, UnderLock
    <3> QED BY <1>0, <2>0, <3>1 DEF LeadersHoldTheLock
  <2> QED BY <2>1, <2>2, <2>3, <2>4, <2>5, <2>6, <2>7 DEF IInv
<1>2. CASE flight[home[r]] # NoOne
  <2>0. /\ joined' = [joined EXCEPT ![r] = flight[home[r]]]
        /\ pc' = [pc EXCEPT ![r] = "follow"]
        /\ UNCHANGED flight
    BY <1>2 DEF Arrive, Goto
  <2>00. flight[home[r]] \in Req /\ home[r] \in Proc
    BY <1>2
  <2>1. TypeOK'
    BY <1>0, <2>0, <2>00
  <2>2. LeaderOwnsFlight'
    BY <1>0, <1>2, <2>0 DEF LeaderOwnsFlight
  <2>3. Membership'
    <3>1. LET g == flight[home[r]] IN /\ pc[g] \in Leading /\ home[g] = home[r]
                                      /\ joined[g] = g /\ g # r
      BY <1>0, <1>2, <2>00 DEF LeaderOwnsFlight, Membership
    <3> QED BY <1>0, <2>0, <2>00, <3>1 DEF Membership
  <2>4. Completion'
    BY <1>0, <2>0 DEF Completion
  <2>5. Replies'
    BY <1>0, <2>0, <2>00 DEF Replies, Membership
  <2>6. NoAnswerWithheld'
    BY <1>0, <2>0, <2>00 DEF NoAnswerWithheld
  <2>7. LeadersHoldTheLock'
    BY <1>0, <2>0 DEF LeadersHoldTheLock, UnderLock
  <2> QED BY <2>1, <2>2, <2>3, <2>4, <2>5, <2>6, <2>7 DEF IInv
<1> QED BY <1>1, <1>2

\* A follower returns the value its future holds; nothing else moves.
LEMMA FollowerReturnsPreserves ==
  ASSUME IInv, NEW r \in Req, FollowerReturns(r)
  PROVE  IInv'
<1> USE FlightAssumption DEF IInv, TypeOK, Result, Label, Leading, FollowerReturns, Goto
<1>1. TypeOK'
  BY DEF Membership, Completion
<1>2. LeaderOwnsFlight'
  BY DEF LeaderOwnsFlight
<1>3. Membership'
  BY DEF Membership, LeaderOwnsFlight
<1>4. Completion'
  BY DEF Completion, Membership
<1>5. Replies'
  BY DEF Replies, Membership, Completion, LeaderOwnsFlight
<1>6. NoAnswerWithheld'
  BY DEF NoAnswerWithheld, LeaderOwnsFlight, Membership, Completion, Replies
<1>7. LeadersHoldTheLock'
  BY DEF LeadersHoldTheLock, UnderLock
<1> QED BY <1>1, <1>2, <1>3, <1>4, <1>5, <1>6, <1>7 DEF IInv

\* A follower that times out leaves the flight to its leader.
LEMMA FollowerTimesOutPreserves ==
  ASSUME IInv, NEW r \in Req, FollowerTimesOut(r)
  PROVE  IInv'
<1> USE FlightAssumption DEF IInv, TypeOK, Result, Label, Leading, FollowerTimesOut, Goto
<1>1. TypeOK'
  BY DEF Membership, Completion
<1>2. LeaderOwnsFlight'
  BY DEF LeaderOwnsFlight
<1>3. Membership'
  BY DEF Membership, LeaderOwnsFlight
<1>4. Completion'
  BY DEF Completion, Membership
<1>5. Replies'
  BY DEF Replies, Membership, Completion, LeaderOwnsFlight
<1>6. NoAnswerWithheld'
  BY DEF NoAnswerWithheld, LeaderOwnsFlight, Membership, Completion, Replies
<1>7. LeadersHoldTheLock'
  BY DEF LeadersHoldTheLock, UnderLock
<1> QED BY <1>1, <1>2, <1>3, <1>4, <1>5, <1>6, <1>7 DEF IInv

\* The end of fn() closes a local flight together with its future.
LEMMA FetchEndsPreserves ==
  ASSUME IInv, NEW r \in Req, FetchEnds(r)
  PROVE  IInv'
<1> USE FlightAssumption DEF IInv, TypeOK, Result, Label, Leading
<1>0. PICK ok \in BOOLEAN :
         /\ result' = [result EXCEPT ![r] = [ok |-> ok, by |-> r]]
         /\ IF Distributed
              THEN Goto(r, "publish") /\ UNCHANGED <<future, reply, flight>>
              ELSE Resolve(r, [ok |-> ok, by |-> r]) /\ Leave(r, [ok |-> ok, by |-> r])
  BY DEF FetchEnds
<1>00. pc[r] = "fetch" /\ UNCHANGED <<joined, lock, data, lapsed, before>>
  BY DEF FetchEnds
<1>1. CASE Distributed
  <2>0. pc' = [pc EXCEPT ![r] = "publish"] /\ UNCHANGED <<future, reply, flight>>
    BY <1>0, <1>1 DEF Goto
  <2>1. TypeOK'
    BY <1>0, <1>00, <2>0
  <2>2. LeaderOwnsFlight'
    BY <1>00, <2>0 DEF LeaderOwnsFlight
  <2>3. Membership'
    BY <1>00, <2>0 DEF Membership
  <2>4. Completion'
    BY <1>0, <1>00, <2>0 DEF Completion
  <2>5. Replies'
    BY <1>00, <2>0 DEF Replies
  <2>6. NoAnswerWithheld'
    BY <1>00, <2>0 DEF NoAnswerWithheld
  <2>7. LeadersHoldTheLock'
    BY <1>00, <2>0 DEF LeadersHoldTheLock, UnderLock
  <2> QED BY <2>1, <2>2, <2>3, <2>4, <2>5, <2>6, <2>7 DEF IInv
<1>2. CASE ~Distributed
  <2> DEFINE res == [ok |-> ok, by |-> r]
  <2>a. res \in Result /\ res # Pending
    BY DEF Result
  <2>0. /\ pc' = [pc EXCEPT ![r] = "done"]
        /\ future' = [future EXCEPT ![r] = res]
        /\ reply' = [reply EXCEPT ![r] = res]
        /\ flight' = [flight EXCEPT ![home[r]] = NoOne]
    BY <1>0, <1>00, <1>2 DEF Goto, Resolve, Leave, CloseFlight, LeaderOwnsFlight
  <2> HIDE DEF res
  <2>1. TypeOK'
    BY <1>0, <1>00, <2>0, <2>a
  <2>2. LeaderOwnsFlight'
    BY <1>00, <2>0 DEF LeaderOwnsFlight
  <2>3. Membership'
    BY <1>00, <2>0 DEF Membership
  <2>4. Completion'
    BY <1>0, <1>00, <2>0, <2>a DEF Completion
  <2>5. Replies'
    BY <1>00, <2>0, <2>a DEF Replies, Membership, Completion
  <2>6. NoAnswerWithheld'
    <3> SUFFICES ASSUME NEW s \in Req, pc'[s] = "follow",
                        future'[joined'[s]] = Pending
                 PROVE  \/ flight'[home[s]] = joined'[s]
                        \/ reply'[joined'[s]] # Pending /\ ~reply'[joined'[s]].ok
      BY DEF NoAnswerWithheld
    <3>1. s # r /\ pc[s] = "follow" /\ joined[s] \in Req /\ joined[s] # r
      BY <1>00, <2>0, <2>a DEF Membership
    <3>2. \/ flight[home[s]] = joined[s]
          \/ reply[joined[s]] # Pending /\ ~reply[joined[s]].ok
      BY <1>00, <2>0, <3>1 DEF NoAnswerWithheld
    <3>3. flight[home[r]] = r /\ home[s] \in Proc
      BY <1>00 DEF LeaderOwnsFlight
    <3> QED BY <1>00, <2>0, <3>1, <3>2, <3>3
  <2>7. LeadersHoldTheLock'
    BY <1>2 DEF LeadersHoldTheLock
  <2> QED BY <2>1, <2>2, <2>3, <2>4, <2>5, <2>6, <2>7 DEF IInv
<1> QED BY <1>1, <1>2

\* SET NX makes a holder only of a free lock.
LEMMA AcquirePreserves ==
  ASSUME IInv, NEW r \in Req, Acquire(r)
  PROVE  IInv'
<1> USE FlightAssumption DEF IInv, TypeOK, Result, Label, Leading, Acquire, TryLock, Goto, RedisCall
<1>1. TypeOK'
  BY DEF Membership, Completion
<1>2. LeaderOwnsFlight'
  BY DEF LeaderOwnsFlight
<1>3. Membership'
  BY DEF Membership, LeaderOwnsFlight
<1>4. Completion'
  BY DEF Completion, Membership
<1>5. Replies'
  BY DEF Replies, Membership, Completion, LeaderOwnsFlight
<1>6. NoAnswerWithheld'
  BY DEF NoAnswerWithheld, LeaderOwnsFlight, Membership, Completion, Replies
<1>7. LeadersHoldTheLock'
  BY DEF LeadersHoldTheLock, UnderLock
<1> QED BY <1>1, <1>2, <1>3, <1>4, <1>5, <1>6, <1>7 DEF IInv

\* Publishing writes data_key, which no part of the invariant reads but its type.
LEMMA PublishPreserves ==
  ASSUME IInv, NEW r \in Req, Publish(r)
  PROVE  IInv'
<1> USE FlightAssumption DEF IInv, TypeOK, Result, Label, Leading, Publish, PublishResult, Goto, RedisCall
<1>1. TypeOK'
  BY DEF Membership, Completion
<1>2. LeaderOwnsFlight'
  BY DEF LeaderOwnsFlight
<1>3. Membership'
  BY DEF Membership, LeaderOwnsFlight
<1>4. Completion'
  BY DEF Completion, Membership
<1>5. Replies'
  BY DEF Replies, Membership, Completion, LeaderOwnsFlight
<1>6. NoAnswerWithheld'
  BY DEF NoAnswerWithheld, LeaderOwnsFlight, Membership, Completion, Replies
<1>7. LeadersHoldTheLock'
  BY DEF LeadersHoldTheLock, UnderLock
<1> QED BY <1>1, <1>2, <1>3, <1>4, <1>5, <1>6, <1>7 DEF IInv

\* A leader that deletes the lock completes and closes its flight in the same step.
LEMMA ReleasePreserves ==
  ASSUME IInv, NEW r \in Req, Release(r)
  PROVE  IInv'
<1> USE FlightAssumption DEF IInv, TypeOK, Result, Label, Leading, Release, DeleteLock, Resolve, Leave, CloseFlight, Goto, RedisCall
<1>1. TypeOK'
  BY DEF Membership, Completion
<1>2. LeaderOwnsFlight'
  BY DEF LeaderOwnsFlight
<1>3. Membership'
  BY DEF Membership, LeaderOwnsFlight
<1>4. Completion'
  BY DEF Completion, Membership
<1>5. Replies'
  BY DEF Replies, Membership, Completion, LeaderOwnsFlight
<1>6. NoAnswerWithheld'
  BY DEF NoAnswerWithheld, LeaderOwnsFlight, Membership, Completion, Replies
<1>7. LeadersHoldTheLock'
  BY DEF LeadersHoldTheLock, UnderLock
<1> QED BY <1>1, <1>2, <1>3, <1>4, <1>5, <1>6, <1>7 DEF IInv

\* A poller that reads a blob completes its flight with it.
LEMMA PollPreserves ==
  ASSUME IInv, NEW r \in Req, Poll(r)
  PROVE  IInv'
<1> USE FlightAssumption DEF IInv, TypeOK, Result, Label, Leading, Poll, Receive, Resolve, Leave, CloseFlight, Goto
<1>1. TypeOK'
  BY DEF Membership, Completion
<1>2. LeaderOwnsFlight'
  BY DEF LeaderOwnsFlight
<1>3. Membership'
  BY DEF Membership, LeaderOwnsFlight
<1>4. Completion'
  BY DEF Completion, Membership
<1>5. Replies'
  BY DEF Replies, Membership, Completion, LeaderOwnsFlight
<1>6. NoAnswerWithheld'
  BY DEF NoAnswerWithheld, LeaderOwnsFlight, Membership, Completion, Replies
<1>7. LeadersHoldTheLock'
  BY DEF LeadersHoldTheLock, UnderLock
<1> QED BY <1>1, <1>2, <1>3, <1>4, <1>5, <1>6, <1>7 DEF IInv

\* EXISTS changes nothing but the label.
LEMMA CheckLockPreserves ==
  ASSUME IInv, NEW r \in Req, CheckLock(r)
  PROVE  IInv'
<1> USE FlightAssumption DEF IInv, TypeOK, Result, Label, Leading, CheckLock, Goto
<1>1. TypeOK'
  BY DEF Membership, Completion
<1>2. LeaderOwnsFlight'
  BY DEF LeaderOwnsFlight
<1>3. Membership'
  BY DEF Membership, LeaderOwnsFlight
<1>4. Completion'
  BY DEF Completion, Membership
<1>5. Replies'
  BY DEF Replies, Membership, Completion, LeaderOwnsFlight
<1>6. NoAnswerWithheld'
  BY DEF NoAnswerWithheld, LeaderOwnsFlight, Membership, Completion, Replies
<1>7. LeadersHoldTheLock'
  BY DEF LeadersHoldTheLock, UnderLock
<1> QED BY <1>1, <1>2, <1>3, <1>4, <1>5, <1>6, <1>7 DEF IInv

\* The second GET acts as the first.
LEMMA RecheckPreserves ==
  ASSUME IInv, NEW r \in Req, Recheck(r)
  PROVE  IInv'
<1> USE FlightAssumption DEF IInv, TypeOK, Result, Label, Leading, Recheck, Receive, Resolve, Leave, CloseFlight, Goto
<1>1. TypeOK'
  BY DEF Membership, Completion
<1>2. LeaderOwnsFlight'
  BY DEF LeaderOwnsFlight
<1>3. Membership'
  BY DEF Membership, LeaderOwnsFlight
<1>4. Completion'
  BY DEF Completion, Membership
<1>5. Replies'
  BY DEF Replies, Membership, Completion, LeaderOwnsFlight
<1>6. NoAnswerWithheld'
  BY DEF NoAnswerWithheld, LeaderOwnsFlight, Membership, Completion, Replies
<1>7. LeadersHoldTheLock'
  BY DEF LeadersHoldTheLock, UnderLock
<1> QED BY <1>1, <1>2, <1>3, <1>4, <1>5, <1>6, <1>7 DEF IInv

\* Promotion takes the lock by the same SET NX.
LEMMA PromotePreserves ==
  ASSUME IInv, NEW r \in Req, Promote(r)
  PROVE  IInv'
<1> USE FlightAssumption DEF IInv, TypeOK, Result, Label, Leading, Promote, TryLock, Goto, RedisCall
<1>1. TypeOK'
  BY DEF Membership, Completion
<1>2. LeaderOwnsFlight'
  BY DEF LeaderOwnsFlight
<1>3. Membership'
  BY DEF Membership, LeaderOwnsFlight
<1>4. Completion'
  BY DEF Completion, Membership
<1>5. Replies'
  BY DEF Replies, Membership, Completion, LeaderOwnsFlight
<1>6. NoAnswerWithheld'
  BY DEF NoAnswerWithheld, LeaderOwnsFlight, Membership, Completion, Replies
<1>7. LeadersHoldTheLock'
  BY DEF LeadersHoldTheLock, UnderLock
<1> QED BY <1>1, <1>2, <1>3, <1>4, <1>5, <1>6, <1>7 DEF IInv

\* A promoted fn() leaves its result for the next steps.
LEMMA PromotedFetchEndsPreserves ==
  ASSUME IInv, NEW r \in Req, PromotedFetchEnds(r)
  PROVE  IInv'
<1> USE FlightAssumption DEF IInv, TypeOK, Result, Label, Leading, PromotedFetchEnds, Goto
<1>1. TypeOK'
  BY DEF Membership, Completion
<1>2. LeaderOwnsFlight'
  BY DEF LeaderOwnsFlight
<1>3. Membership'
  BY DEF Membership, LeaderOwnsFlight
<1>4. Completion'
  BY DEF Completion, Membership
<1>5. Replies'
  BY DEF Replies, Membership, Completion, LeaderOwnsFlight
<1>6. NoAnswerWithheld'
  BY DEF NoAnswerWithheld, LeaderOwnsFlight, Membership, Completion, Replies
<1>7. LeadersHoldTheLock'
  BY DEF LeadersHoldTheLock, UnderLock
<1> QED BY <1>1, <1>2, <1>3, <1>4, <1>5, <1>6, <1>7 DEF IInv

\* A promoted leader completes its future while it still holds the lock.
LEMMA PromotedPublishPreserves ==
  ASSUME IInv, NEW r \in Req, PromotedPublish(r)
  PROVE  IInv'
<1> USE FlightAssumption DEF IInv, TypeOK, Result, Label, Leading, PromotedPublish, PublishResult, Resolve, Goto, RedisCall
<1>1. TypeOK'
  BY DEF Membership, Completion
<1>2. LeaderOwnsFlight'
  BY DEF LeaderOwnsFlight
<1>3. Membership'
  BY DEF Membership, LeaderOwnsFlight
<1>4. Completion'
  BY DEF Completion, Membership
<1>5. Replies'
  BY DEF Replies, Membership, Completion, LeaderOwnsFlight
<1>6. NoAnswerWithheld'
  BY DEF NoAnswerWithheld, LeaderOwnsFlight, Membership, Completion, Replies
<1>7. LeadersHoldTheLock'
  BY DEF LeadersHoldTheLock, UnderLock
<1> QED BY <1>1, <1>2, <1>3, <1>4, <1>5, <1>6, <1>7 DEF IInv

\* A promoted leader that succeeded leaves with the value of its future.
LEMMA PromotedReleasePreserves ==
  ASSUME IInv, NEW r \in Req, PromotedRelease(r)
  PROVE  IInv'
<1> USE FlightAssumption DEF IInv, TypeOK, Result, Label, Leading, PromotedRelease, DeleteLock, Leave, CloseFlight, Goto, RedisCall
<1>1. TypeOK'
  BY DEF Membership, Completion
<1>2. LeaderOwnsFlight'
  BY DEF LeaderOwnsFlight
<1>3. Membership'
  BY DEF Membership, LeaderOwnsFlight
<1>4. Completion'
  BY DEF Completion, Membership
<1>5. Replies'
  BY DEF Replies, Membership, Completion, LeaderOwnsFlight
<1>6. NoAnswerWithheld'
  BY DEF NoAnswerWithheld, LeaderOwnsFlight, Membership, Completion, Replies
<1>7. LeadersHoldTheLock'
  BY DEF LeadersHoldTheLock, UnderLock
<1> QED BY <1>1, <1>2, <1>3, <1>4, <1>5, <1>6, <1>7 DEF IInv

\* A fallback that succeeds completes its flight, one that raises does not.
LEMMA FallbackEndsPreserves ==
  ASSUME IInv, NEW r \in Req, FallbackEnds(r)
  PROVE  IInv'
<1> USE FlightAssumption DEF IInv, TypeOK, Result, Label, Leading
<1>0. PICK ok \in BOOLEAN :
         /\ result' = [result EXCEPT ![r] = [ok |-> ok, by |-> r]]
         /\ IF ok THEN Resolve(r, [ok |-> ok, by |-> r]) ELSE UNCHANGED future
         /\ Leave(r, [ok |-> ok, by |-> r])
  BY DEF FallbackEnds
<1> DEFINE res == [ok |-> ok, by |-> r]
<1>a. res \in Result /\ res # Pending /\ res.ok = ok
  BY DEF Result
<1>1. /\ pc[r] = "fallback"
      /\ result' = [result EXCEPT ![r] = res]
      /\ pc' = [pc EXCEPT ![r] = "done"]
      /\ reply' = [reply EXCEPT ![r] = res]
      /\ flight' = [flight EXCEPT ![home[r]] = NoOne]
      /\ ok => future' = [future EXCEPT ![r] = res]
      /\ ~ok => UNCHANGED future
      /\ UNCHANGED <<joined, lock, data, lapsed, before>>
  BY <1>0 DEF FallbackEnds, Goto, Resolve, Leave, CloseFlight, LeaderOwnsFlight
<1> HIDE DEF res
<1>2. future[r] = Pending /\ joined[r] = r /\ flight[home[r]] = r /\ home[r] \in Proc
  BY <1>1 DEF Completion, Membership, LeaderOwnsFlight
<1>3. TypeOK'
  BY <1>0, <1>1, <1>a
<1>4. LeaderOwnsFlight'
  BY <1>1 DEF LeaderOwnsFlight
<1>5. Membership'
  BY <1>1 DEF Membership
<1>6. Completion'
  BY <1>0, <1>1, <1>2, <1>a DEF Completion
<1>7. Replies'
  <2>1. CASE ok
    BY <1>1, <1>2, <1>a, <2>1 DEF Replies, Membership
  <2>2. CASE ~ok
    BY <1>1, <1>2, <1>a, <2>2 DEF Replies, Membership
  <2> QED BY <2>1, <2>2
<1>8. NoAnswerWithheld'
  <2> SUFFICES ASSUME NEW s \in Req, pc'[s] = "follow",
                      future'[joined'[s]] = Pending
               PROVE  \/ flight'[home[s]] = joined'[s]
                      \/ reply'[joined'[s]] # Pending /\ ~reply'[joined'[s]].ok
    BY DEF NoAnswerWithheld
  <2>1. s # r /\ pc[s] = "follow" /\ joined[s] \in Req /\ home[s] \in Proc
    BY <1>1 DEF Membership
  <2>2. CASE joined[s] = r
    BY <1>0, <1>1, <1>a, <2>1, <2>2
  <2>3. CASE joined[s] # r
    <3>1. future[joined[s]] = Pending
      BY <1>0, <1>1, <2>1, <2>3
    <3>2. \/ flight[home[s]] = joined[s]
          \/ reply[joined[s]] # Pending /\ ~reply[joined[s]].ok
      BY <2>1, <3>1 DEF NoAnswerWithheld
    <3> QED BY <1>1, <1>2, <2>1, <2>3, <3>2
  <2> QED BY <2>2, <2>3
<1>9. LeadersHoldTheLock'
  BY <1>1 DEF LeadersHoldTheLock, UnderLock
<1> QED BY <1>3, <1>4, <1>5, <1>6, <1>7, <1>8, <1>9 DEF IInv

\* Falling back needs no lock and touches none.
LEMMA PollTimesOutPreserves ==
  ASSUME IInv, NEW r \in Req, PollTimesOut(r)
  PROVE  IInv'
<1> USE FlightAssumption DEF IInv, TypeOK, Result, Label, Leading, PollTimesOut, Goto
<1>1. TypeOK'
  BY DEF Membership, Completion
<1>2. LeaderOwnsFlight'
  BY DEF LeaderOwnsFlight
<1>3. Membership'
  BY DEF Membership, LeaderOwnsFlight
<1>4. Completion'
  BY DEF Completion, Membership
<1>5. Replies'
  BY DEF Replies, Membership, Completion, LeaderOwnsFlight
<1>6. NoAnswerWithheld'
  BY DEF NoAnswerWithheld, LeaderOwnsFlight, Membership, Completion, Replies
<1>7. LeadersHoldTheLock'
  BY DEF LeadersHoldTheLock, UnderLock
<1> QED BY <1>1, <1>2, <1>3, <1>4, <1>5, <1>6, <1>7 DEF IInv

\* A crash ends every call of the process and forgets its flight.
LEMMA CrashPreserves ==
  ASSUME IInv, NEW p \in Proc, Crash(p)
  PROVE  IInv'
<1> USE FlightAssumption DEF IInv, TypeOK, Result, Label, Leading, Crash
<1>1. TypeOK'
  BY DEF Membership, Completion
<1>2. LeaderOwnsFlight'
  BY DEF LeaderOwnsFlight
<1>3. Membership'
  BY DEF Membership, LeaderOwnsFlight
<1>4. Completion'
  BY DEF Completion, Membership
<1>5. Replies'
  BY DEF Replies, Membership, Completion, LeaderOwnsFlight
<1>6. NoAnswerWithheld'
  BY DEF NoAnswerWithheld, LeaderOwnsFlight, Membership, Completion, Replies
<1>7. LeadersHoldTheLock'
  BY DEF LeadersHoldTheLock, UnderLock
<1> QED BY <1>1, <1>2, <1>3, <1>4, <1>5, <1>6, <1>7 DEF IInv

\* An expiry under a holder is remembered in lapsed.
LEMMA LockExpiresPreserves ==
  ASSUME IInv, LockExpires
  PROVE  IInv'
<1> USE FlightAssumption DEF IInv, TypeOK, Result, Label, Leading, LockExpires
<1>1. TypeOK'
  BY DEF Membership, Completion
<1>2. LeaderOwnsFlight'
  BY DEF LeaderOwnsFlight
<1>3. Membership'
  BY DEF Membership, LeaderOwnsFlight
<1>4. Completion'
  BY DEF Completion, Membership
<1>5. Replies'
  BY DEF Replies, Membership, Completion, LeaderOwnsFlight
<1>6. NoAnswerWithheld'
  BY DEF NoAnswerWithheld, LeaderOwnsFlight, Membership, Completion, Replies
<1>7. LeadersHoldTheLock'
  BY DEF LeadersHoldTheLock, UnderLock
<1> QED BY <1>1, <1>2, <1>3, <1>4, <1>5, <1>6, <1>7 DEF IInv

\* The expiry of the blob changes data alone.
LEMMA DataExpiresPreserves ==
  ASSUME IInv, DataExpires
  PROVE  IInv'
<1> USE FlightAssumption DEF IInv, TypeOK, Result, Label, Leading, DataExpires
<1>1. TypeOK'
  BY DEF Membership, Completion
<1>2. LeaderOwnsFlight'
  BY DEF LeaderOwnsFlight
<1>3. Membership'
  BY DEF Membership, LeaderOwnsFlight
<1>4. Completion'
  BY DEF Completion, Membership
<1>5. Replies'
  BY DEF Replies, Membership, Completion, LeaderOwnsFlight
<1>6. NoAnswerWithheld'
  BY DEF NoAnswerWithheld, LeaderOwnsFlight, Membership, Completion, Replies
<1>7. LeadersHoldTheLock'
  BY DEF LeadersHoldTheLock, UnderLock
<1> QED BY <1>1, <1>2, <1>3, <1>4, <1>5, <1>6, <1>7 DEF IInv


\* No flight is open at the start.
LEMMA InitIInv == Init => IInv
<1> USE FlightAssumption DEF Init, Label, Leading
<1>1. Init => TypeOK
  BY DEF TypeOK
<1>2. Init => LeaderOwnsFlight /\ Membership /\ Completion /\ Replies
  BY DEF LeaderOwnsFlight, Membership, Completion, Replies
<1>3. Init => NoAnswerWithheld /\ LeadersHoldTheLock
  BY DEF NoAnswerWithheld, LeadersHoldTheLock, UnderLock
<1> QED BY <1>1, <1>2, <1>3 DEF IInv

\* A stuttering step keeps the invariant.
LEMMA StutterIInv == IInv /\ UNCHANGED vars => IInv'
BY DEF IInv, vars, TypeOK, LeaderOwnsFlight, Membership, Completion, Replies,
       NoAnswerWithheld, LeadersHoldTheLock

\* The invariant is inductive.
LEMMA NextIInv == IInv /\ [Next]_vars => IInv'
<1> SUFFICES ASSUME IInv, Next PROVE IInv'
  BY StutterIInv
<1>1. ASSUME NEW r \in Req, LocalStep(r) PROVE IInv'
  BY <1>1, ArrivePreserves, FollowerReturnsPreserves, FollowerTimesOutPreserves
     DEF LocalStep
<1>2. ASSUME NEW r \in Req, LeaderStep(r) PROVE IInv'
  BY <1>2, FetchEndsPreserves, AcquirePreserves, PublishPreserves, ReleasePreserves
     DEF LeaderStep
<1>3. ASSUME NEW r \in Req, PollStep(r) PROVE IInv'
  BY <1>3, PollPreserves, CheckLockPreserves, RecheckPreserves, PromotePreserves
     DEF PollStep
<1>4. ASSUME NEW r \in Req, PromotedStep(r) PROVE IInv'
  BY <1>4, PromotedFetchEndsPreserves, PromotedPublishPreserves,
     PromotedReleasePreserves, FallbackEndsPreserves DEF PromotedStep
<1> QED BY <1>1, <1>2, <1>3, <1>4, PollTimesOutPreserves, CrashPreserves,
           LockExpiresPreserves, DataExpiresPreserves DEF Next

----------------------------------------------------------------------------
(* Safety *)

\* The invariant holds in every reachable state.
THEOREM Invariance == Spec => []IInv
BY InitIInv, NextIInv, PTL DEF Spec

\* Every variable keeps its type, whatever Redis answers and whoever dies.
THEOREM TypeCorrect == Spec => []TypeOK
BY Invariance, PTL DEF IInv

\* Two calls of one process never run the upstream function together.
THEOREM LocalExclusion == Spec => []OneExecutionPerProcess
<1>1. IInv => OneExecutionPerProcess
  BY DEF IInv, LeaderOwnsFlight, OneExecutionPerProcess, Executing, Leading, Label
<1> QED BY <1>1, Invariance, PTL

\* The calls of one flight that get a result get the same one.
THEOREM Agreement == Spec => []FlightsAgree
<1>1. IInv => FlightsAgree
  <2> SUFFICES ASSUME IInv, NEW r \in Req, NEW s \in Req, joined[r] = joined[s],
                      reply[r] # Pending, reply[s] # Pending
               PROVE  reply[r] = reply[s]
    BY DEF FlightsAgree
  <2>1. \/ reply[r] = future[joined[r]]
        \/ joined[r] = r /\ future[r] = Pending
    BY DEF IInv, Replies
  <2>2. \/ reply[s] = future[joined[s]]
        \/ joined[s] = s /\ future[s] = Pending
    BY DEF IInv, Replies
  <2> QED BY <2>1, <2>2
<1> QED BY <1>1, Invariance, PTL

\* A leader that obtained an answer has handed it to its followers.
THEOREM NothingWithheld == Spec => []NoAnswerWithheld
BY Invariance, PTL DEF IInv

\* While no lock has lapsed the distributed leader is the holder of the lock.
THEOREM LeaseExclusion == Spec => []LeadersHoldTheLock
BY Invariance, PTL DEF IInv

----------------------------------------------------------------------------
(* One process, no Redis client attached *)

\* Without Redis a leader is only ever at its fetch; a follower's flight is
\* decided or led; a result carries the name of the flight it came from, and
\* nobody joins the flight of a call that was over.
LocalFlights ==
  /\ \A r \in Req : pc[r] \in {"idle", "follow", "fetch", "done", "dead"}
  /\ NoOrphanedFollower
  /\ \A r \in Req : future[r] # Pending => future[r].by = r
  /\ \A r \in Req : reply[r] # Pending => reply[r].by = joined[r]
  /\ \A r \in Req : joined[r] \notin before[r]

\* Every step of a group without Redis keeps its flights led and their
\* answers their own.
LEMMA LocalFlightsNext ==
  ASSUME ~Distributed, IInv, IInv', LocalFlights, [Next]_vars
  PROVE  LocalFlights'
<1> USE FlightAssumption DEF IInv, TypeOK
<1>1. ASSUME NEW r \in Req, Arrive(r) PROVE LocalFlights'
  <2>1. /\ pc[r] = "idle" /\ joined[r] = NoOne
        /\ before' = [before EXCEPT ![r] = {s \in Req : pc[s] \in {"done", "dead"}}]
        /\ UNCHANGED <<future, reply>>
    BY <1>1 DEF Arrive, Membership
  <2>2. PICK g \in Req, l \in {"fetch", "follow"} :
          /\ joined' = [joined EXCEPT ![r] = g] /\ pc' = [pc EXCEPT ![r] = l]
          /\ \/ g = r /\ l = "fetch"
             \/ g = flight[home[r]] /\ g # NoOne /\ l = "follow"
    BY <1>1 DEF Arrive, Goto
  <2>3. pc[g] \in {"idle", "fetch"} /\ (g # r => pc[g] = "fetch")
    BY <2>1, <2>2 DEF LeaderOwnsFlight, LocalFlights, Leading
  <2>4. reply[r] = Pending
    BY <2>1 DEF Replies
  <2>5. \A s \in Req \ {r} : pc'[s] = pc[s] /\ joined'[s] = joined[s]
    BY <2>2
  <2>6. pc'[r] = l /\ joined'[r] = g
    BY <2>2
  <2>7. NoOrphanedFollower'
    <3> SUFFICES ASSUME NEW s \in Req, pc'[s] = "follow", future'[joined'[s]] = Pending
                 PROVE  pc'[joined'[s]] \in Leading
      BY DEF NoOrphanedFollower
    <3>1. CASE s = r
      <4>1. l = "follow" /\ g # r
        BY <2>1, <2>2, <2>3, <2>6, <3>1 DEF LeaderOwnsFlight, Leading
      <4> QED BY <2>3, <2>5, <2>6, <3>1, <4>1 DEF Leading, Label
    <3>2. CASE s # r
      <4>1. pc[s] = "follow" /\ joined'[s] = joined[s] /\ joined[s] \in Req
        BY <2>5, <3>2 DEF Membership
      <4>2. pc[joined[s]] \in Leading
        BY <2>1, <4>1 DEF LocalFlights, NoOrphanedFollower
      <4>3. joined[s] # r
        BY <2>1, <4>2 DEF Leading
      <4> QED BY <2>5, <4>1, <4>2, <4>3
    <3> QED BY <3>1, <3>2
  <2>8. \A s \in Req : pc'[s] \in {"idle", "follow", "fetch", "done", "dead"}
    BY <2>5, <2>6 DEF LocalFlights
  <2>9. \A s \in Req : reply'[s] # Pending => reply'[s].by = joined'[s]
    BY <2>1, <2>4, <2>5 DEF LocalFlights
  <2>10. \A s \in Req : joined'[s] \notin before'[s]
    <3>1. before'[r] = {s \in Req : pc[s] \in {"done", "dead"}}
      BY <2>1
    <3>2. g \notin before'[r]
      BY <2>3, <3>1
    <3>3. \A s \in Req \ {r} : before'[s] = before[s]
      BY <2>1
    <3> QED BY <2>5, <2>6, <3>2, <3>3 DEF LocalFlights
  <2> QED BY <2>1, <2>7, <2>8, <2>9, <2>10 DEF LocalFlights
<1>2. ASSUME NEW r \in Req, FollowerReturns(r) \/ FollowerTimesOut(r)
      PROVE  LocalFlights'
  <2>1. /\ pc[r] = "follow" /\ pc' = [pc EXCEPT ![r] = "done"]
        /\ UNCHANGED <<joined, future, before>> /\ joined[r] \in Req
    BY <1>2 DEF FollowerReturns, FollowerTimesOut, Goto, Membership
  <2>2. \/ reply' = reply
        \/ future[joined[r]] # Pending /\ reply' = [reply EXCEPT ![r] = future[joined[r]]]
    BY <1>2 DEF FollowerReturns, FollowerTimesOut
  <2>3. NoOrphanedFollower'
    BY <2>1 DEF LocalFlights, NoOrphanedFollower, Leading, Membership
  <2>4. \A s \in Req : reply'[s] # Pending => reply'[s].by = joined'[s]
    BY <2>1, <2>2 DEF LocalFlights
  <2>5. \A s \in Req : pc'[s] \in {"idle", "follow", "fetch", "done", "dead"}
    BY <2>1 DEF LocalFlights
  <2> QED BY <2>1, <2>3, <2>4, <2>5 DEF LocalFlights
<1>3. ASSUME NEW r \in Req, FetchEnds(r) PROVE LocalFlights'
  <2>1. PICK ok \in BOOLEAN :
          /\ Resolve(r, [ok |-> ok, by |-> r])
          /\ Leave(r, [ok |-> ok, by |-> r])
    BY <1>3 DEF FetchEnds
  <2> DEFINE res == [ok |-> ok, by |-> r]
  <2>a. res \in Result /\ res # Pending /\ res.by = r
    BY DEF Result
  <2>2. /\ pc[r] = "fetch" /\ pc' = [pc EXCEPT ![r] = "done"]
        /\ future' = [future EXCEPT ![r] = res]
        /\ reply' = [reply EXCEPT ![r] = res]
        /\ UNCHANGED <<joined, before>> /\ joined[r] = r
    BY <1>3, <2>1 DEF FetchEnds, Resolve, Leave, Goto, Membership, Leading, Label
  <2> HIDE DEF res
  <2>3. NoOrphanedFollower'
    BY <2>2, <2>a DEF LocalFlights, NoOrphanedFollower, Leading, Membership
  <2>4. \A s \in Req : reply'[s] # Pending => reply'[s].by = joined'[s]
    BY <2>2, <2>a DEF LocalFlights
  <2>5. \A s \in Req : future'[s] # Pending => future'[s].by = s
    BY <2>2, <2>a DEF LocalFlights
  <2>6. \A s \in Req : pc'[s] \in {"idle", "follow", "fetch", "done", "dead"}
    BY <2>2 DEF LocalFlights
  <2> QED BY <2>2, <2>3, <2>4, <2>5, <2>6 DEF LocalFlights
<1>4. ASSUME NEW p \in Proc, Crash(p) PROVE LocalFlights'
  <2>1. /\ \A r \in Req : pc'[r] = IF home[r] = p /\ pc[r] \notin {"idle", "done"}
                                   THEN "dead" ELSE pc[r]
        /\ UNCHANGED <<joined, future, reply, before>>
    BY <1>4 DEF Crash
  <2>2. NoOrphanedFollower'
    BY <2>1 DEF LocalFlights, NoOrphanedFollower, Membership
  <2> QED BY <2>1, <2>2 DEF LocalFlights
<1>5. CASE LockExpires \/ DataExpires \/ UNCHANGED vars
  BY <1>5 DEF LockExpires, DataExpires, vars, LocalFlights, NoOrphanedFollower
<1>6. \A r \in Req : LeaderStep(r) => FetchEnds(r)
  BY DEF LeaderStep, Acquire, Publish, Release, LocalFlights
<1>7. \A r \in Req : ~PollStep(r) /\ ~PromotedStep(r) /\ ~PollTimesOut(r)
  BY DEF PollStep, Poll, CheckLock, Recheck, Promote, PollTimesOut, PromotedStep,
         PromotedFetchEnds, PromotedPublish, PromotedRelease, FallbackEnds, LocalFlights
<1> QED BY <1>1, <1>2, <1>3, <1>4, <1>5, <1>6, <1>7 DEF Next, LocalStep

\* A group without Redis keeps its flights led and their answers their own.
LEMMA LocalInvariance ==
  ASSUME ~Distributed
  PROVE  Spec => []LocalFlights
<1>1. Init => LocalFlights
  BY FlightAssumption DEF Init, LocalFlights, NoOrphanedFollower
<1>2. IInv /\ IInv' /\ LocalFlights /\ [Next]_vars => LocalFlights'
  BY LocalFlightsNext
<1> QED BY <1>1, <1>2, Invariance, PTL DEF Spec

\* Without Redis nobody waits on a future that no call in progress will
\* complete: the leader of an open flight is running fn(), and whatever fn()
\* does, or the death of the process, ends the wait of every follower. Tasks
\* cancelled in fn() are not in the model.
THEOREM Answered == ~Distributed => (Spec => []NoOrphanedFollower)
<1> SUFFICES ASSUME ~Distributed PROVE Spec => []NoOrphanedFollower
  OBVIOUS
<1>1. LocalFlights => NoOrphanedFollower
  BY DEF LocalFlights
<1> QED BY <1>1, LocalInvariance, PTL

\* Without Redis no call is answered with the result of a call that was over
\* before it was made: an answer is its own flight's, and the entry of a
\* flight in _flights goes with the call that leads it.
THEOREM Fresh == ~Distributed => (Spec => []FreshAnswers)
<1> SUFFICES ASSUME ~Distributed PROVE Spec => []FreshAnswers
  OBVIOUS
<1>1. LocalFlights => FreshAnswers
  BY DEF LocalFlights, FreshAnswers
<1> QED BY <1>1, LocalInvariance, PTL

----------------------------------------------------------------------------
(* Refinement *)

\* The initial states of SingleFlight are initial states of the promise.
LEMMA PromiseInit == Init => FP!Init
BY DEF Init, FP!Init, phase, answer, PhaseOf

\* Moving one call to a label moves its phase.
LEMMA PhaseMoves ==
  ASSUME TypeOK, NEW r \in Req, NEW l \in Label, pc' = [pc EXCEPT ![r] = l]
  PROVE  phase' = [phase EXCEPT ![r] = PhaseOf(l)]
BY DEF TypeOK, phase

\* A step of a leader that leaves nothing behind but its label.
LEMMA LeaderStutters ==
  ASSUME IInv, NEW r \in Req, NEW l \in Leading, pc[r] \in Leading,
         pc' = [pc EXCEPT ![r] = l], UNCHANGED <<joined, future, reply>>
  PROVE  UNCHANGED FP!pvars
<1>1. phase' = [phase EXCEPT ![r] = PhaseOf(l)]
  BY PhaseMoves DEF IInv, Leading
<1>2. phase[r] = "waiting" /\ PhaseOf(l) = "waiting"
  BY DEF phase, PhaseOf, Leading
<1>3. phase' = phase
  BY <1>1, <1>2 DEF phase
<1> QED BY <1>3 DEF FP!pvars, answer

\* A leader completes its future, returns and closes its flight in one step.
LEMMA LeaderConcludes ==
  ASSUME IInv, NEW r \in Req, NEW res \in Result,
         pc[r] \in Leading \ {"prelease"},
         pc' = [pc EXCEPT ![r] = "done"],
         future' = [future EXCEPT ![r] = res],
         reply' = [reply EXCEPT ![r] = res],
         UNCHANGED joined
  PROVE  FP!Conclude(r)
<1> USE FlightAssumption DEF IInv, TypeOK
<1>1. future[r] = Pending /\ joined[r] = r /\ res # Pending
  BY DEF Completion, Membership, Result
<1>2. phase[r] = "waiting" /\ phase' = [phase EXCEPT ![r] = "over"]
  BY PhaseMoves DEF phase, PhaseOf, Leading, Label
<1>3. answer' = [answer EXCEPT ![r] = res]
  <2>1. answer'[r] = res
    BY <1>1 DEF answer
  <2>2. ASSUME NEW s \in Req, s # r PROVE answer'[s] = answer[s]
    <3>1. CASE joined[s] = r
      <4>1. reply[s] = Pending
        BY <1>1, <2>2, <3>1 DEF Replies, Result
      <4> QED BY <2>2, <3>1, <4>1 DEF answer
    <3>2. CASE joined[s] # r
      BY <2>2, <3>2 DEF answer
    <3> QED BY <3>1, <3>2
  <2> QED BY <2>1, <2>2 DEF answer
<1> QED BY <1>1, <1>2, <1>3 DEF FP!Conclude, FP!Open, FP!Result, Result

\* A new call begins in the promise: it joins or opens a flight.
LEMMA PromiseArrive ==
  ASSUME IInv, IInv', NEW r \in Req, Arrive(r)
  PROVE  FP!Begin(r)
<1> USE FlightAssumption DEF IInv, TypeOK
<1>1. pc[r] = "idle" /\ joined[r] = NoOne /\ UNCHANGED <<future, reply>>
  BY DEF Arrive, Membership
<1>2. PICK l \in {"lock", "fetch", "follow"} : pc' = [pc EXCEPT ![r] = l]
  BY DEF Arrive, Goto
<1>3. PICK g \in Req :
        /\ joined' = [joined EXCEPT ![r] = g]
        /\ \/ g = r /\ flight[home[r]] = NoOne
           \/ g = flight[home[r]] /\ g # NoOne
  BY DEF Arrive
<1>4. phase[r] = "new" /\ phase' = [phase EXCEPT ![r] = "waiting"]
  BY <1>1, <1>2, PhaseMoves DEF phase, PhaseOf, Label
<1>5. UNCHANGED answer
  <2>1. future[r] = Pending /\ reply[r] = Pending
    BY <1>1 DEF Completion, Replies
  <2>2. \A s \in Req : joined'[s] # joined[s] => s = r
    BY <1>3
  <2>3. \A s \in Req : answer'[s] = answer[s]
    BY <1>1, <1>3, <2>1, <2>2 DEF answer
  <2> QED BY <2>3 DEF answer
<1>6. home[g] = home[r]
  BY <1>1, <1>3 DEF LeaderOwnsFlight
<1>7. \/ FP!Open(g)
      \/ g = r /\ \A s \in Req : FP!Open(s) => home[s] # home[r]
  <2>1. CASE g = r /\ flight[home[r]] = NoOne
    <3>1. ASSUME NEW s \in Req, FP!Open(s) PROVE home[s] # home[r]
      <4>1. joined[s] = s /\ pc[s] \in Leading
        BY <3>1 DEF FP!Open, phase, PhaseOf, Membership, Label, Leading
      <4> QED BY <2>1, <4>1 DEF LeaderOwnsFlight
    <3> QED BY <2>1, <3>1
  <2>2. CASE g = flight[home[r]] /\ g # NoOne
    BY <2>2 DEF LeaderOwnsFlight, Membership, FP!Open, phase, PhaseOf, Leading
  <2> QED BY <1>3, <2>1, <2>2
<1> QED BY <1>1, <1>3, <1>4, <1>5, <1>6, <1>7 DEF FP!Begin

\* A follower answers with the outcome of its flight, or gives up.
LEMMA PromiseFollower ==
  ASSUME IInv, NEW r \in Req
  PROVE  /\ FollowerReturns(r) => FP!Answer(r)
         /\ FollowerTimesOut(r) => FP!GiveUp(r)
<1> USE FlightAssumption DEF IInv, TypeOK
<1>1. ASSUME FollowerReturns(r) PROVE FP!Answer(r)
  <2>1. /\ pc[r] = "follow" /\ pc' = [pc EXCEPT ![r] = "done"]
        /\ reply' = [reply EXCEPT ![r] = future[joined[r]]]
        /\ future[joined[r]] # Pending
        /\ UNCHANGED <<joined, future>>
        /\ joined[r] \in Req
    BY <1>1 DEF FollowerReturns, Goto, Membership
  <2>2. phase[r] = "waiting" /\ phase' = [phase EXCEPT ![r] = "over"]
    BY <2>1, PhaseMoves DEF phase, PhaseOf, Label
  <2>3. answer' = [answer EXCEPT ![r] = future[joined[r]]]
    BY <2>1 DEF answer
  <2> QED BY <2>1, <2>2, <2>3 DEF FP!Answer
<1>2. ASSUME FollowerTimesOut(r) PROVE FP!GiveUp(r)
  <2>1. /\ pc[r] = "follow" /\ pc' = [pc EXCEPT ![r] = "done"]
        /\ UNCHANGED <<joined, future, reply>>
        /\ future[joined[r]] = Pending
    BY <1>2 DEF FollowerTimesOut, Goto
  <2>2. phase[r] = "waiting" /\ phase' = [phase EXCEPT ![r] = "over"]
    BY <2>1, PhaseMoves DEF phase, PhaseOf, Label
  <2> QED BY <2>1, <2>2 DEF FP!GiveUp, answer
<1> QED BY <1>1, <1>2

\* A leader concludes its flight in one step, or stutters on the way.
LEMMA PromiseLeader ==
  ASSUME IInv, NEW r \in Req, LeaderStep(r)
  PROVE  [FP!Next]_FP!pvars
<1> USE FlightAssumption DEF IInv, TypeOK
<1>1. CASE FetchEnds(r)
  <2>1. CASE Distributed
    <3>1. pc[r] \in Leading /\ "publish" \in Leading
      BY <1>1 DEF FetchEnds, Leading, Label
    <3>2. pc' = [pc EXCEPT ![r] = "publish"] /\ UNCHANGED <<joined, future, reply>>
      BY <1>1, <2>1 DEF FetchEnds, Goto
    <3> QED BY <3>1, <3>2, LeaderStutters
  <2>2. CASE ~Distributed
    <3>1. pc[r] \in Leading \ {"prelease"}
      BY <1>1 DEF FetchEnds, Leading, Label
    <3>2. PICK ok \in BOOLEAN :
            /\ Resolve(r, [ok |-> ok, by |-> r]) /\ Leave(r, [ok |-> ok, by |-> r])
            /\ UNCHANGED joined
      BY <1>1, <2>2 DEF FetchEnds
    <3>3. [ok |-> ok, by |-> r] \in Result
      BY DEF Result
    <3>4. FP!Conclude(r)
      BY <3>1, <3>2, <3>3, LeaderConcludes DEF Resolve, Leave, Goto
    <3> QED BY <3>4 DEF FP!Next
  <2> QED BY <2>1, <2>2
<1>2. CASE Acquire(r)
  <2>1. pc[r] \in Leading /\ UNCHANGED <<joined, future, reply>>
    BY <1>2 DEF Acquire, Leading, Label
  <2>2. PICK l \in {"fetch", "poll"} : pc' = [pc EXCEPT ![r] = l]
    BY <1>2 DEF Acquire, TryLock, Goto
  <2>3. l \in Leading
    BY DEF Leading, Label
  <2> QED BY <2>1, <2>2, <2>3, LeaderStutters
<1>3. CASE Publish(r)
  <2>1. pc[r] \in Leading /\ "release" \in Leading
    BY <1>3 DEF Publish, Leading, Label
  <2>2. pc' = [pc EXCEPT ![r] = "release"] /\ UNCHANGED <<joined, future, reply>>
    BY <1>3 DEF Publish, Goto
  <2> QED BY <2>1, <2>2, LeaderStutters
<1>4. CASE Release(r)
  <2>1. pc[r] \in Leading \ {"prelease"} /\ UNCHANGED joined
    BY <1>4 DEF Release, Leading, Label
  <2>2. result[r] \in Result
    BY <1>4 DEF Release, Completion
  <2>3. FP!Conclude(r)
    BY <1>4, <2>1, <2>2, LeaderConcludes DEF Release, Resolve, Leave, Goto
  <2> QED BY <2>3 DEF FP!Next
<1> QED BY <1>1, <1>2, <1>3, <1>4 DEF LeaderStep

\* Reading a blob concludes the flight with it.
LEMMA PromiseReceive ==
  ASSUME IInv, NEW r \in Req, pc[r] \in {"poll", "recheck"}, Receive(r), UNCHANGED joined
  PROVE  FP!Conclude(r)
<1>1. pc[r] \in Leading \ {"prelease"}
  BY DEF Leading, Label
<1>2. data \in Result
  BY DEF Receive, IInv, TypeOK
<1> QED BY <1>1, <1>2, LeaderConcludes DEF Receive, Resolve, Leave, Goto

\* A poller concludes its flight with the blob it read, or stutters.
LEMMA PromisePoll ==
  ASSUME IInv, NEW r \in Req, PollStep(r) \/ PollTimesOut(r)
  PROVE  [FP!Next]_FP!pvars
<1>1. pc[r] \in Leading
  BY DEF PollStep, Poll, CheckLock, Recheck, Promote, PollTimesOut, Leading, Label
<1>2. ASSUME NEW l \in {"poll", "exists", "recheck", "promote", "pfetch", "fallback"},
             pc' = [pc EXCEPT ![r] = l], UNCHANGED <<joined, future, reply>>
      PROVE  UNCHANGED FP!pvars
  <2>1. l \in Leading
    BY DEF Leading, Label
  <2> QED BY <1>1, <1>2, <2>1, LeaderStutters
<1>3. CASE Poll(r)
  <2>1. CASE Receive(r)
    BY <1>3, <2>1, PromiseReceive DEF Poll, FP!Next
  <2>2. CASE ~Receive(r)
    BY <1>2, <1>3, <2>2 DEF Poll, Goto
  <2> QED BY <2>1, <2>2
<1>4. CASE CheckLock(r)
  BY <1>2, <1>4 DEF CheckLock, Goto
<1>5. CASE Recheck(r)
  <2>1. CASE Receive(r)
    BY <1>5, <2>1, PromiseReceive DEF Recheck, FP!Next
  <2>2. CASE ~Receive(r)
    BY <1>2, <1>5, <2>2 DEF Recheck, Goto
  <2> QED BY <2>1, <2>2
<1>6. CASE Promote(r)
  BY <1>2, <1>6 DEF Promote, TryLock, Goto
<1>7. CASE PollTimesOut(r)
  BY <1>2, <1>7 DEF PollTimesOut, Goto
<1> QED BY <1>3, <1>4, <1>5, <1>6, <1>7 DEF PollStep

\* A promoted leader decides before it answers; a fallback concludes or gives up.
LEMMA PromisePromoted ==
  ASSUME IInv, NEW r \in Req, PromotedStep(r)
  PROVE  [FP!Next]_FP!pvars
<1> USE FlightAssumption DEF IInv, TypeOK
<1>1. CASE PromotedFetchEnds(r)
  <2>1. PICK l \in {"ppublish", "prelease"} : pc' = [pc EXCEPT ![r] = l]
    BY <1>1 DEF PromotedFetchEnds, Goto
  <2>2. pc[r] \in Leading /\ l \in Leading /\ UNCHANGED <<joined, future, reply>>
    BY <1>1 DEF PromotedFetchEnds, Leading, Label
  <2> QED BY <2>1, <2>2, LeaderStutters
<1>2. CASE PromotedPublish(r)
  <2>1. /\ pc[r] = "ppublish" /\ pc' = [pc EXCEPT ![r] = "prelease"]
        /\ future' = [future EXCEPT ![r] = result[r]]
        /\ UNCHANGED <<joined, reply>>
    BY <1>2 DEF PromotedPublish, Resolve, Goto
  <2>2. future[r] = Pending /\ joined[r] = r /\ result[r] \in Result
    BY <2>1 DEF Completion, Membership, Leading, Label
  <2>3. phase' = phase /\ phase[r] = "waiting"
    <3>1. phase' = [phase EXCEPT ![r] = "waiting"] /\ phase[r] = "waiting"
      BY <2>1, PhaseMoves DEF PhaseOf, Label, phase
    <3> QED BY <3>1 DEF phase
  <2>4. answer' = answer
    <3>1. ASSUME NEW s \in Req PROVE answer'[s] = answer[s]
      <4>1. CASE joined[s] = r
        <5>1. reply[s] = Pending
          BY <2>1, <2>2, <4>1 DEF Replies, Result
        <5> QED BY <2>1, <4>1, <5>1 DEF answer
      <4>2. CASE joined[s] # r
        BY <2>1, <4>2 DEF answer
      <4> QED BY <4>1, <4>2
    <3> QED BY <3>1 DEF answer
  <2>5. FP!Decide(r)
    BY <2>1, <2>2, <2>3, <2>4 DEF FP!Decide, FP!Open, FP!Result, Result
  <2> QED BY <2>5 DEF FP!Next
<1>3. CASE PromotedRelease(r)
  <2>1. /\ pc[r] = "prelease" /\ pc' = [pc EXCEPT ![r] = "done"]
        /\ reply' = [reply EXCEPT ![r] = result[r]]
        /\ UNCHANGED <<joined, future>>
        /\ joined[r] = r
    BY <1>3 DEF PromotedRelease, Leave, Goto, Membership, Leading, Label
  <2>2. phase[r] = "waiting" /\ phase' = [phase EXCEPT ![r] = "over"]
    BY <2>1, PhaseMoves DEF phase, PhaseOf, Label
  <2>3. CASE future[r] = result[r]
    <3>1. result[r] # Pending
      BY <2>1 DEF Completion
    <3>2. answer' = [answer EXCEPT ![r] = result[r]]
      BY <2>1, <2>3, <3>1 DEF answer
    <3>3. FP!Answer(r)
      BY <2>1, <2>2, <2>3, <3>1, <3>2 DEF FP!Answer
    <3> QED BY <3>3 DEF FP!Next
  <2>4. CASE future[r] = Pending
    <3>1. answer' = answer
      BY <2>1, <2>4 DEF answer
    <3>2. FP!GiveUp(r)
      BY <2>1, <2>2, <2>4, <3>1 DEF FP!GiveUp
    <3> QED BY <3>2 DEF FP!Next
  <2> QED BY <2>1, <2>3, <2>4 DEF Completion
<1>4. CASE FallbackEnds(r)
  <2>1. PICK ok \in BOOLEAN :
          /\ IF ok THEN Resolve(r, [ok |-> ok, by |-> r]) ELSE UNCHANGED future
          /\ Leave(r, [ok |-> ok, by |-> r])
    BY <1>4 DEF FallbackEnds
  <2>2. pc[r] = "fallback" /\ UNCHANGED joined /\ pc' = [pc EXCEPT ![r] = "done"]
    BY <1>4, <2>1 DEF FallbackEnds, Leave, Goto
  <2>3. CASE ok
    <3>1. [ok |-> ok, by |-> r] \in Result
      BY DEF Result
    <3>2. pc[r] \in Leading \ {"prelease"}
      BY <2>2 DEF Leading, Label
    <3>3. FP!Conclude(r)
      BY <2>1, <2>2, <2>3, <3>1, <3>2, LeaderConcludes DEF Resolve, Leave, Goto
    <3> QED BY <3>3 DEF FP!Next
  <2>4. CASE ~ok
    <3>1. phase[r] = "waiting" /\ phase' = [phase EXCEPT ![r] = "over"]
      BY <2>2, PhaseMoves DEF phase, PhaseOf, Label
    <3>2. future[r] = Pending /\ joined[r] = r /\ UNCHANGED future
      BY <2>1, <2>2, <2>4 DEF Completion, Membership, Leading, Label
    <3>3. reply' = [reply EXCEPT ![r] = [ok |-> ok, by |-> r]]
      BY <2>1 DEF Leave
    <3>4. answer' = answer
      BY <2>2, <3>2, <3>3 DEF answer
    <3>5. FP!GiveUp(r)
      BY <3>1, <3>2, <3>4, <2>2 DEF FP!GiveUp
    <3> QED BY <3>5 DEF FP!Next
  <2> QED BY <2>3, <2>4
<1> QED BY <1>1, <1>2, <1>3, <1>4 DEF PromotedStep

\* Expiries stutter, and a crash is the death of a process.
LEMMA PromiseEnvironment ==
  ASSUME IInv
  PROVE  /\ \A p \in Proc : Crash(p) => FP!Die(p)
         /\ LockExpires \/ DataExpires => UNCHANGED FP!pvars
<1>1. ASSUME NEW p \in Proc, Crash(p) PROVE FP!Die(p)
  <2>1. UNCHANGED <<joined, future, reply>>
    BY <1>1 DEF Crash
  <2>2. \A r \in Req : phase'[r] = IF home[r] = p /\ phase[r] = "waiting"
                                   THEN "over" ELSE phase[r]
    BY <1>1 DEF Crash, phase, PhaseOf
  <2>3. phase' = [r \in Req |-> IF home[r] = p /\ phase[r] = "waiting"
                                THEN "over" ELSE phase[r]]
    BY <2>2 DEF phase
  <2> QED BY <2>1, <2>3 DEF FP!Die, answer
<1>2. LockExpires \/ DataExpires => UNCHANGED FP!pvars
  BY DEF LockExpires, DataExpires, FP!pvars, phase, answer
<1> QED BY <1>1, <1>2

\* Every behaviour of SingleFlight is one of FlightPromise.
THEOREM Refinement == Spec => PromiseKept
<1>1. IInv /\ IInv' /\ [Next]_vars => [FP!Next]_FP!pvars
  <2> SUFFICES ASSUME IInv, IInv', [Next]_vars PROVE [FP!Next]_FP!pvars
    OBVIOUS
  <2>1. ASSUME NEW r \in Req, LocalStep(r) PROVE FP!Next
    BY <2>1, PromiseArrive, PromiseFollower DEF LocalStep, FP!Next
  <2>2. CASE UNCHANGED vars
    BY <2>2 DEF vars, FP!pvars, phase, answer
  <2> QED BY <2>1, <2>2, PromiseLeader, PromisePoll, PromisePromoted,
             PromiseEnvironment DEF Next, FP!Next
<1> QED BY <1>1, PromiseInit, Invariance, PTL DEF Spec, FP!Spec, PromiseKept
=============================================================================
