--------------------------- MODULE Failover_proofs ---------------------------
(***************************************************************************)
(* Proofs about Failover, for any requests, providers, threshold and       *)
(* timeouts that FailoverAssumption allows.  The breaker does not depend   *)
(* on which candidates a request has: of call its invariant says only who  *)
(* is between incr and set.  The requests have one of their own.           *)
(***************************************************************************)
EXTENDS Failover, TLAPS

\* The breaker's part of TypeOK.
BreakerOK ==
  /\ redis \in BOOLEAN /\ raced \in [Provider -> BOOLEAN]
  /\ fails \in [Provider -> 0..Threshold]
  /\ failAge \in [Provider -> 0..Forever]
  /\ openAge \in [Provider -> 0..Closed]
  /\ DOMAIN call = Request

\* In memory a count has no TTL.
NoTtlInMemory == ~redis => \A p \in Provider : failAge[p] = Forever

\* A mark, or a failure about to set one, has a count to reopen the circuit,
\* and the count is no older than the mark: it expires later.
Armed(p) ==
  ~raced[p] =>
    /\ openAge[p] # Closed =>
         fails[p] = Threshold /\ (failAge[p] = Forever \/ failAge[p] <= openAge[p])
    /\ IsTripping(p) => fails[p] = Threshold /\ failAge[p] \in {0, Forever}

IInv == BreakerOK /\ NoTtlInMemory /\ \A p \in Provider : Armed(p)

\* A step after which nobody is between incr and set who was not before.
NobodyStartsTripping == \A p \in Provider : IsTripping(p)' => IsTripping(p)

----------------------------------------------------------------------------
\* The thresholds, as numbers.
LEMMA Numbers ==
  /\ Threshold \in Nat /\ Threshold > 0 /\ Timeout \in Nat /\ OpenTtl \in Nat /\ FailTtl \in Nat
  /\ Timeout < OpenTtl /\ OpenTtl < FailTtl
  /\ Closed = OpenTtl + 1 /\ Forever = FailTtl + 1
  BY FailoverAssumption DEF FailoverAssumption, Closed, Forever

\* An age that begins anew.
LEMMA Anew ==
  ASSUME NEW S, NEW n \in Nat, NEW f \in [S -> 0..n], NEW k
  PROVE  [f EXCEPT ![k] = 0] \in [S -> 0..n]
<1>1. 0 \in 0..n
  OBVIOUS
<1>2. ASSUME NEW x \in S PROVE [f EXCEPT ![k] = 0][x] \in 0..n
  BY <1>1
<1> QED  BY <1>2

\* The invariant holds at the start.
LEMMA InitIInv == Init => IInv
<1> SUFFICES ASSUME Init PROVE IInv
  OBVIOUS
<1>1. BreakerOK
  BY Numbers DEF Init, BreakerOK
<1>2. NoTtlInMemory
  BY DEF Init, NoTtlInMemory
<1>3. ASSUME NEW p \in Provider PROVE Armed(p)
  <2>1. ~IsTripping(p)
    BY DEF IsTripping, Init, Idle
  <2>2. openAge[p] = Closed
    BY DEF Init
  <2> QED  BY <2>1, <2>2 DEF Armed
<1> QED  BY <1>1, <1>2, <1>3 DEF IInv

\* A request that begins, goes on, ends or is told what comes next is not
\* between incr and set.
LEMMA IdleIsNoTrip == Idle.phase # "tripping"
  BY DEF Idle
LEMMA ChoosingIsNoTrip == ASSUME NEW l, NEW rest PROVE Choosing(l, rest).phase # "tripping"
  BY DEF Choosing
LEMMA CallingIsNoTrip ==
  ASSUME NEW l, NEW to, NEW rest PROVE Calling(l, to, rest).phase # "tripping"
  BY DEF Calling
LEMMA ToldIsNoTrip == ASSUME NEW c, NEW ok PROVE Told(c, ok).phase # "tripping"
  BY DEF Told, Idle, Choosing

\* Who changes one request into one that is not between incr and set starts
\* no trip.
LEMMA OneCall ==
  ASSUME NEW r \in Request, NEW c, DOMAIN call = Request,
         call' = [call EXCEPT ![r] = c], c.phase # "tripping"
  PROVE  NobodyStartsTripping /\ DOMAIN call' = Request
<1>1. \A q \in Request : q # r => call'[q] = call[q]
  OBVIOUS
<1>2. call'[r] = c
  OBVIOUS
<1> QED  BY <1>1, <1>2 DEF NobodyStartsTripping, IsTripping

\* A step that leaves the breaker alone.
LEMMA BreakerAlone ==
  ASSUME IInv, UNCHANGED <<redis, breaker>>, DOMAIN call' = Request, NobodyStartsTripping
  PROVE  IInv'
<1>1. BreakerOK'
  BY DEF IInv, BreakerOK, breaker
<1>2. NoTtlInMemory'
  BY DEF IInv, NoTtlInMemory, breaker
<1>3. ASSUME NEW p \in Provider PROVE Armed(p)'
  BY DEF IInv, Armed, NobodyStartsTripping, breaker
<1> QED  BY <1>1, <1>2, <1>3 DEF IInv

\* A success or a reset: whoever is between incr and set is remembered.
LEMMA ClearedKeeps ==
  ASSUME IInv, NEW P, Cleared(P), redis' = redis, DOMAIN call' = Request,
         NobodyStartsTripping
  PROVE  IInv'
<1>1. BreakerOK'
  <2>1. \A p : IsTripping(p) \in BOOLEAN
    BY DEF IsTripping
  <2>2. raced' \in [Provider -> BOOLEAN]
    BY <2>1 DEF IInv, BreakerOK, Cleared
  <2> QED  BY <2>2, Numbers DEF IInv, BreakerOK, Cleared
<1>2. NoTtlInMemory'
  BY DEF IInv, NoTtlInMemory, Cleared
<1>3. ASSUME NEW p \in Provider PROVE Armed(p)'
  <2>1. CASE p \in P
    <3>1. openAge'[p] = Closed /\ (raced'[p] <=> IsTripping(p))
      BY <2>1 DEF Cleared
    <3> QED  BY <3>1 DEF Armed, NobodyStartsTripping
  <2>2. CASE p \notin P
    <3>1. /\ fails'[p] = fails[p] /\ failAge'[p] = failAge[p]
          /\ openAge'[p] = openAge[p] /\ raced'[p] = raced[p]
      BY <2>2 DEF Cleared
    <3> QED  BY <3>1 DEF IInv, Armed, NobodyStartsTripping
  <2> QED  BY <2>1, <2>2
<1> QED  BY <1>1, <1>2, <1>3 DEF IInv

----------------------------------------------------------------------------
(* Steps *)

\* A chat completion begins.
LEMMA BeginChatStep ==
  ASSUME IInv, NEW r \in Request, NEW stream, NEW plan, BeginChat(r, stream, plan)
  PROVE  IInv'
<1>1. NobodyStartsTripping /\ DOMAIN call' = Request
  <2>1. PICK c : call' = [call EXCEPT ![r] = c] /\ c.phase # "tripping"
    BY ChoosingIsNoTrip DEF BeginChat
  <2> QED  BY <2>1, OneCall DEF IInv, BreakerOK
<1> QED  BY <1>1, BreakerAlone DEF BeginChat

\* A call of the messages route begins.
LEMMA BeginMessagesStep ==
  ASSUME IInv, NEW r \in Request, BeginMessages(r) PROVE IInv'
<1>1. NobodyStartsTripping /\ DOMAIN call' = Request
  <2>1. PICK c : call' = [call EXCEPT ![r] = c] /\ c.phase # "tripping"
    BY CallingIsNoTrip DEF BeginMessages
  <2> QED  BY <2>1, OneCall DEF IInv, BreakerOK
<1> QED  BY <1>1, BreakerAlone DEF BeginMessages

\* A candidate is called or passed over.
LEMMA ChooseStep == ASSUME IInv, NEW r \in Request, Choose(r) PROVE IInv'
<1> DEFINE rest == call[r].rest
           next == IF Available(Head(rest)) THEN Calling(call[r].layers, Head(rest), Tail(rest))
                   ELSE IF Len(rest) > 1 THEN Choosing(call[r].layers, Tail(rest))
                   ELSE Idle
<1>1. call' = [call EXCEPT ![r] = next]
  BY DEF Choose
<1>2. next.phase # "tripping"
  BY DEF Calling, Choosing, Idle
<1>3. NobodyStartsTripping /\ DOMAIN call' = Request
  <2> HIDE DEF next
  <2> QED  BY <1>1, <1>2, OneCall DEF IInv, BreakerOK
<1> QED  BY <1>3, BreakerAlone DEF Choose

\* An answer that says nothing of the provider is returned.
LEMMA RefuseStep == ASSUME IInv, NEW r \in Request, Refuse(r) PROVE IInv'
<1>1. NobodyStartsTripping /\ DOMAIN call' = Request
  BY OneCall, IdleIsNoTrip DEF Refuse, IInv, BreakerOK
<1> QED  BY <1>1, BreakerAlone DEF Refuse

\* A slot is free, or it holds what a request still has to try and to tell.
RequestOK(c) ==
  \/ c = Idle
  \/ /\ c.phase \in {"choosing", "calling", "recording", "tripping"}
     /\ c.layers \in 1..2 /\ c.rest \in Seq(Provider)
     /\ c.phase = "choosing" => c.rest # <<>>
     /\ c.phase # "choosing" => c.to \in Provider
     /\ c.phase = "recording" => c.ok \in BOOLEAN
     /\ c.phase = "tripping" => c.last \in BOOLEAN

\* A layer that raised after a success goes on recording, now a failure.
LEMMA FailedStays ==
  ASSUME NEW c, c.phase = "recording"
  PROVE  Failed(c).phase = "recording" /\ (RequestOK(c) => RequestOK(Failed(c)))
  BY DEF Failed, RequestOK, Idle

\* A success clears its provider, if Redis can be reached.
LEMMA SucceedStep == ASSUME IInv, NEW r \in Request, Succeed(r) PROVE IInv'
<1>1. NobodyStartsTripping /\ DOMAIN call' = Request
  <2>1. CASE call' = [call EXCEPT ![r] = Told(call[r], TRUE)]
    BY <2>1, OneCall, ToldIsNoTrip DEF IInv, BreakerOK
  <2>2. CASE call[r].phase = "recording" /\ call' = [call EXCEPT ![r] = Failed(call[r])]
    BY <2>2, OneCall, FailedStays DEF IInv, BreakerOK
  <2> QED  BY <2>1, <2>2 DEF Succeed
<1>2. CASE redis /\ down
  BY <1>1, <1>2, BreakerAlone DEF Succeed
<1>3. CASE ~(redis /\ down)
  BY <1>1, <1>3, ClearedKeeps DEF Succeed
<1> QED  BY <1>2, <1>3

\* A count that reaches the threshold is as fresh as can be.
LEMMA CountStep == ASSUME IInv, NEW r \in Request, Count(r) PROVE IInv'
<1> DEFINE to == call[r].to
<1>1. Counted(to) \in 0..Threshold \/ to \notin Provider
  BY Numbers DEF Counted, IInv, BreakerOK
<1>2. BreakerOK'
  <2>1. fails' \in [Provider -> 0..Threshold]
    BY <1>1 DEF Count, IInv, BreakerOK
  <2>2. failAge' \in [Provider -> 0..Forever]
    <3>1. failAge \in [Provider -> 0..Forever] /\ Forever \in Nat
      BY Numbers DEF IInv, BreakerOK
    <3>2. failAge' \in {failAge, [failAge EXCEPT ![to] = 0]}
      BY DEF Count
    <3> QED  BY <3>1, <3>2, Anew
  <2>3. raced' \in [Provider -> BOOLEAN]
    <3>1. raced' = [p \in Provider |-> IF p = to THEN raced[p] /\ Counted(to) < Threshold ELSE raced[p]]
      BY DEF Count, IInv, BreakerOK
    <3>2. \A p \in Provider : raced[p] \in BOOLEAN
      BY DEF IInv, BreakerOK
    <3> HIDE DEF to
    <3> QED  BY <3>1, <3>2
  <2> QED  BY <2>1, <2>2, <2>3 DEF Count, IInv, BreakerOK
<1>3. NoTtlInMemory'
  BY DEF Count, IInv, NoTtlInMemory
<1>4. ASSUME NEW p \in Provider, p # to PROVE Armed(p)'
  <2>1. /\ fails'[p] = fails[p] /\ failAge'[p] = failAge[p]
        /\ openAge'[p] = openAge[p] /\ raced'[p] = raced[p]
    BY <1>4 DEF Count, IInv, BreakerOK
  <2>2. IsTripping(p)' => IsTripping(p)
    <3>1. \A q \in Request : q # r => call'[q] = call[q]
      BY DEF Count
    <3>2. call'[r].phase = "tripping" => call'[r].to = to
      BY ToldIsNoTrip DEF Count, Tripping, IInv, BreakerOK
    <3> QED  BY <1>4, <3>1, <3>2 DEF IsTripping
  <2> QED  BY <2>1, <2>2 DEF IInv, Armed
<1>5. ASSUME NEW p \in Provider, p = to PROVE Armed(p)'
  <2>1. openAge'[p] = openAge[p] /\ openAge[p] \in 0..Closed
    BY DEF Count, IInv, BreakerOK
  <2>2. fails'[p] = Counted(p)
    BY <1>5 DEF Count, IInv, BreakerOK
  <2>3. failAge'[p] = IF redis THEN 0 ELSE Forever
    BY <1>5 DEF Count, IInv, BreakerOK, NoTtlInMemory
  <2>4. raced'[p] = (raced[p] /\ Counted(p) < Threshold)
    BY <1>5 DEF Count, IInv, BreakerOK
  <2>5. CASE Counted(p) = Threshold
    BY <2>1, <2>2, <2>3, <2>5, Numbers DEF Armed
  <2>6. CASE Counted(p) # Threshold
    <3>1. Counted(p) < Threshold /\ fails[p] # Threshold
      BY <2>6, Numbers DEF Counted, IInv, BreakerOK
    <3>2. raced'[p] = raced[p]
      BY <2>4, <3>1 DEF IInv, BreakerOK
    <3>3. call' = [call EXCEPT ![r] = Told(call[r], FALSE)]
      BY <1>5, <2>6 DEF Count
    <3>4. IsTripping(p)' => IsTripping(p)
      <4>1. PICK c : call' = [call EXCEPT ![r] = c] /\ c.phase # "tripping"
        BY <3>3, ToldIsNoTrip
      <4>2. NobodyStartsTripping
        BY <4>1, OneCall DEF IInv, BreakerOK
      <4> QED  BY <4>2 DEF NobodyStartsTripping
    <3> QED  BY <2>1, <3>1, <3>2, <3>4 DEF IInv, Armed
  <2> QED  BY <2>5, <2>6
<1> QED  BY <1>2, <1>3, <1>4, <1>5 DEF IInv

\* A count that loses the connection goes up and keeps its age.
LEMMA CountFailsStep == ASSUME IInv, NEW r \in Request, CountFails(r) PROVE IInv'
<1>1. NobodyStartsTripping /\ DOMAIN call' = Request
  <2>1. PICK c : call' = [call EXCEPT ![r] = c] /\ c.phase # "tripping"
    BY ToldIsNoTrip DEF CountFails
  <2> QED  BY <2>1, OneCall DEF IInv, BreakerOK
<1>2. fails' \in [Provider -> 0..Threshold]
  BY Numbers DEF CountFails, Counted, IInv, BreakerOK
<1>3. BreakerOK' /\ NoTtlInMemory'
  BY <1>1, <1>2 DEF CountFails, IInv, BreakerOK, NoTtlInMemory
<1>4. ASSUME NEW p \in Provider PROVE Armed(p)'
  <2>1. fails[p] = Threshold => fails'[p] = Threshold
    BY Numbers DEF CountFails, Counted, IInv, BreakerOK
  <2>2. IsTripping(p)' => IsTripping(p)
    BY <1>1 DEF NobodyStartsTripping
  <2> QED  BY <2>1, <2>2 DEF IInv, Armed, CountFails
<1> QED  BY <1>3, <1>4 DEF IInv

\* The mark is set while the count is fresh.
LEMMA TripStep == ASSUME IInv, NEW r \in Request, Trip(r) PROVE IInv'
<1> DEFINE to == call[r].to
<1>1. NobodyStartsTripping /\ DOMAIN call' = Request
  BY OneCall, ToldIsNoTrip DEF Trip, IInv, BreakerOK
<1>2. BreakerOK' /\ NoTtlInMemory'
  <2>1. openAge \in [Provider -> 0..Closed] /\ Closed \in Nat
    BY Numbers DEF IInv, BreakerOK
  <2>2. openAge' \in {openAge, [openAge EXCEPT ![to] = 0]}
    BY DEF Trip
  <2>3. openAge' \in [Provider -> 0..Closed]
    BY <2>1, <2>2, Anew
  <2> QED  BY <1>1, <2>3 DEF Trip, IInv, BreakerOK, NoTtlInMemory
<1>3. ASSUME NEW p \in Provider PROVE Armed(p)'
  <2>1. fails'[p] = fails[p] /\ failAge'[p] = failAge[p] /\ raced'[p] = raced[p]
    BY DEF Trip
  <2>2. openAge'[p] = openAge[p] \/ (p = to /\ openAge'[p] = 0)
    BY Numbers DEF Trip, IInv, BreakerOK
  <2>3. p = to => IsTripping(p)
    BY DEF Trip, IsTripping
  <2>4. IsTripping(p)' => IsTripping(p)
    BY <1>1 DEF NobodyStartsTripping
  <2>5. CASE openAge'[p] = openAge[p]
    BY <2>1, <2>4, <2>5 DEF IInv, Armed
  <2>6. CASE p = to /\ openAge'[p] = 0
    <3>1. ~raced[p] => fails[p] = Threshold /\ failAge[p] \in {0, Forever}
      BY <2>3, <2>6 DEF IInv, Armed
    <3> QED  BY <2>1, <2>6, <3>1, Numbers DEF Armed
  <2> QED  BY <2>2, <2>5, <2>6
<1> QED  BY <1>2, <1>3 DEF IInv

\* The operator clears one provider or all.
LEMMA ResetStep == ASSUME IInv, NEW P, Reset(P) PROVE IInv'
<1>1. NobodyStartsTripping /\ DOMAIN call' = Request
  BY DEF Reset, NobodyStartsTripping, IsTripping, IInv, BreakerOK
<1> QED  BY <1>1, BreakerAlone, ClearedKeeps DEF Reset

\* Redis is lost or comes back.
LEMMA ConnectionStep == ASSUME IInv, Connection PROVE IInv'
<1>1. NobodyStartsTripping /\ DOMAIN call' = Request
  BY DEF Connection, NobodyStartsTripping, IsTripping, IInv, BreakerOK
<1> QED  BY <1>1, BreakerAlone DEF Connection

\* A process dies; a breaker in memory starts anew.
LEMMA CrashStep == ASSUME IInv, NEW r \in Request, Crash(r) PROVE IInv'
<1>1. CASE redis
  <2>1. NobodyStartsTripping /\ DOMAIN call' = Request
    BY <1>1, OneCall, IdleIsNoTrip DEF Crash, IInv, BreakerOK
  <2> QED  BY <1>1, <2>1, BreakerAlone DEF Crash
<1>2. CASE ~redis
  <2>1. BreakerOK' /\ NoTtlInMemory'
    BY <1>2, Numbers DEF Crash, IInv, BreakerOK, NoTtlInMemory
  <2>2. ASSUME NEW p \in Provider PROVE Armed(p)'
    <3>1. openAge'[p] = Closed
      BY <1>2 DEF Crash
    <3>2. ~IsTripping(p)'
      BY <1>2 DEF Crash, IsTripping, Idle
    <3> QED  BY <3>1, <3>2 DEF Armed
  <2> QED  BY <2>1, <2>2 DEF IInv
<1> QED  BY <1>1, <1>2

\* Time: the mark is gone before its count is, for the count is no older and
\* has the longer TTL.
LEMMA TickStep == ASSUME IInv, Tick PROVE IInv'
<1>1. \A p \in Provider : openAge'[p] = MarkAfter(openAge[p])
  BY DEF Tick
<1>2. \A p \in Provider : openAge'[p] \in 0..Closed
  BY <1>1, Numbers DEF MarkAfter, IInv, BreakerOK
<1>3. \A p \in Provider :
         failAge'[p] = IF failAge[p] = Forever \/ IsTripping(p) THEN failAge[p] ELSE failAge[p] + 1
  BY DEF Tick
<1>4. BreakerOK'
  <2>1. openAge' \in [Provider -> 0..Closed]
    BY <1>2 DEF Tick
  <2>2. failAge' \in [Provider -> 0..Forever]
    <3>1. \A p \in Provider : failAge'[p] \in 0..Forever
      BY <1>3, Numbers DEF IInv, BreakerOK
    <3> QED  BY <3>1 DEF Tick
  <2>3. fails' \in [Provider -> 0..Threshold]
    BY Numbers DEF Tick, IInv, BreakerOK
  <2>4. raced' \in [Provider -> BOOLEAN]
    BY DEF Tick, IInv, BreakerOK
  <2> QED  BY <2>1, <2>2, <2>3, <2>4 DEF Tick, IInv, BreakerOK
<1>5. NoTtlInMemory'
  BY <1>3 DEF Tick, IInv, NoTtlInMemory
<1>6. ASSUME NEW p \in Provider, ~raced[p] PROVE Armed(p)'
  <2>1. IsTripping(p)' <=> IsTripping(p)
    BY DEF Tick, IsTripping
  <2>2. openAge[p] \in 0..Closed /\ failAge[p] \in 0..Forever
    BY DEF IInv, BreakerOK
  <2>3. openAge'[p] # Closed => openAge[p] # Closed /\ openAge[p] < OpenTtl + 1
    BY <1>1, <2>2, Numbers DEF MarkAfter
  <2>4. redis /\ openAge[p] # Closed => openAge'[p] = openAge[p] + 1
    BY <1>1 DEF MarkAfter
  <2>5. ~redis => failAge[p] = Forever
    BY DEF IInv, NoTtlInMemory
  <2>6. fails'[p] = IF CountExpires(p) THEN 0 ELSE fails[p]
    BY DEF Tick
  <2>7. Armed(p)
    BY DEF IInv
  <2>8. ASSUME openAge'[p] # Closed
        PROVE  fails'[p] = Threshold /\ (failAge'[p] = Forever \/ failAge'[p] <= openAge'[p])
    <3>1. fails[p] = Threshold /\ (failAge[p] = Forever \/ failAge[p] <= openAge[p])
      BY <1>6, <2>3, <2>7, <2>8 DEF Armed
    <3>2. failAge[p] # FailTtl
      BY <2>2, <2>3, <2>8, <3>1, Numbers
    <3>3. fails'[p] = Threshold
      BY <2>6, <3>1, <3>2 DEF CountExpires
    <3> QED  BY <1>3, <2>2, <2>3, <2>4, <2>5, <2>8, <3>1, <3>3, Numbers
  <2>9. ASSUME IsTripping(p)
        PROVE  fails'[p] = Threshold /\ failAge'[p] \in {0, Forever}
    BY <1>3, <1>6, <2>6, <2>7, <2>9 DEF Armed, CountExpires
  <2> QED  BY <2>1, <2>8, <2>9 DEF Armed
<1>7. ASSUME NEW p \in Provider, raced[p] PROVE Armed(p)'
  \* A race is forgotten when there is neither a mark nor a trip.
  <2>1. raced'[p] <=> (openAge'[p] # Closed \/ IsTripping(p))
    BY <1>7 DEF Tick
  <2>2. IsTripping(p)' <=> IsTripping(p)
    BY DEF Tick, IsTripping
  <2> QED  BY <2>1, <2>2 DEF Armed
<1> QED  BY <1>4, <1>5, <1>6, <1>7 DEF IInv

\* Every step keeps the invariant.
LEMMA NextIInv == IInv /\ [Next]_vars => IInv'
<1> SUFFICES ASSUME IInv, [Next]_vars PROVE IInv'
  OBVIOUS
<1>1. CASE Next
  BY <1>1, BeginChatStep, BeginMessagesStep, ChooseStep, RefuseStep, SucceedStep,
     CountStep, CountFailsStep, TripStep, ResetStep, ConnectionStep, CrashStep, TickStep
     DEF Next, Progress
<1>2. CASE UNCHANGED vars
  <2>1. NobodyStartsTripping /\ DOMAIN call' = Request
    BY <1>2 DEF vars, NobodyStartsTripping, IsTripping, IInv, BreakerOK
  <2> QED  BY <1>2, <2>1, BreakerAlone DEF vars, breaker
<1> QED  BY <1>1, <1>2

\* The invariant of the specification.
LEMMA Invariance == Spec => []IInv
  BY InitIInv, NextIInv, PTL DEF Spec

----------------------------------------------------------------------------
(* Theorems *)

\* As long as the mark of an opened circuit is there, so is the count that
\* reopens it at the first failure, whatever expires, fails or dies; only a
\* success or a reset between incr and set parts them (failover.py:164-168).
THEOREM HalfOpenArmed == Spec => []HalfOpenIsArmed
<1>1. IInv => HalfOpenIsArmed
  BY DEF IInv, Armed, HalfOpenIsArmed
<1> QED  BY <1>1, Invariance, PTL

\* A step that ends the shutting out of a provider.
LEMMA TripHoldsStep ==
  ASSUME IInv, [Next]_vars, NEW p \in Provider, ~Available(p), Available(p)'
  PROVE  openAge'[p] # Closed \/ fails'[p] = 0 \/ down'
<1> USE Numbers
<1>1. openAge[p] # Closed /\ ~(openAge[p] > Timeout) /\ openAge[p] \in 0..Closed
  BY DEF Available, IInv, BreakerOK
<1>2. CASE Tick
  BY <1>1, <1>2 DEF Tick, MarkAfter
<1>3. ASSUME NEW P, Cleared(P), p \in P PROVE fails'[p] = 0
  BY <1>3 DEF Cleared
<1>4. ASSUME NEW P, Cleared(P), p \notin P PROVE openAge'[p] # Closed
  BY <1>1, <1>4 DEF Cleared
<1>5. ASSUME NEW r \in Request, Succeed(r) PROVE openAge'[p] # Closed \/ fails'[p] = 0
  <2>1. UNCHANGED breaker \/ \E P : Cleared(P)
    BY <1>5 DEF Succeed
  <2> QED  BY <1>1, <1>3, <1>4, <2>1 DEF breaker
<1>6. ASSUME NEW P, Reset(P) PROVE openAge'[p] # Closed \/ fails'[p] = 0
  <2>1. UNCHANGED breaker \/ \E Q : Cleared(Q)
    BY <1>6 DEF Reset
  <2> QED  BY <1>1, <1>3, <1>4, <2>1 DEF breaker
<1>7. ASSUME NEW r \in Request, Crash(r) PROVE openAge'[p] # Closed \/ fails'[p] = 0
  BY <1>1, <1>7 DEF Crash, breaker
<1>8. ASSUME NEW r \in Request, Trip(r) PROVE openAge'[p] # Closed
  BY <1>1, <1>8 DEF Trip, IInv, BreakerOK
<1>9. CASE Next
  <2>1. ASSUME UNCHANGED openAge PROVE openAge'[p] # Closed
    BY <1>1, <2>1
  <2> QED  BY <1>2, <1>5, <1>6, <1>7, <1>8, <1>9, <2>1
           DEF Next, Progress, Connection, BeginMessages, BeginChat, Choose, Refuse, Count,
               CountFails, breaker
<1>10. CASE UNCHANGED vars
  BY <1>1, <1>10 DEF vars
<1> QED  BY <1>9, <1>10

\* An open circuit holds for the whole recovery timeout: no expiring key ends
\* it, but a success, a reset, a restart or Redis out of reach (failover.py:168).
THEOREM OpenHolds == Spec => TripHolds
<1>1. IInv /\ [Next]_vars =>
        [\A p \in Provider : ~Available(p) /\ Available(p)' =>
           openAge'[p] # Closed \/ fails'[p] = 0 \/ down']_vars
  BY TripHoldsStep
<1> QED  BY <1>1, Invariance, PTL DEF Spec, TripHolds

----------------------------------------------------------------------------
(* Requests *)

\* Every slot is in order.
RequestsOK == down \in BOOLEAN /\ \A r \in Request : RequestOK(call[r])

\* Whatever model is asked for, its fallbacks go to the other two providers:
\* there is a candidate as long as there is a provider.
LEMMA PlansNeverEmpty == \A plan \in Plans : plan \in Seq(Provider) /\ plan # <<>>
<1> DEFINE Listed == {"gpt-4o", "gpt-4o-mini", "claude-3-5-sonnet", "gemini-2.5-flash",
                      "claude-3-5-haiku-20241022"}
<1>1. \A m : Offered(m) \in Seq(Provider)
  BY DEF Offered
<1>2. ASSUME NEW m \in Listed
      PROVE  {ProviderOf(m), ProviderOf(Fallbacks(m)[1]), ProviderOf(Fallbacks(m)[2])} =
               {"openai", "anthropic", "google"}
  <2>1. CASE m = "gpt-4o"
    BY <2>1 DEF ProviderOf, Fallbacks
  <2>2. CASE m = "gpt-4o-mini"
    BY <2>2 DEF ProviderOf, Fallbacks
  <2>3. CASE m = "claude-3-5-sonnet"
    BY <2>3 DEF ProviderOf, Fallbacks
  <2>4. CASE m = "gemini-2.5-flash"
    BY <2>4 DEF ProviderOf, Fallbacks
  <2>5. CASE m = "claude-3-5-haiku-20241022"
    BY <2>5 DEF ProviderOf, Fallbacks
  <2> QED  BY <2>1, <2>2, <2>3, <2>4, <2>5
<1>3. ASSUME NEW m \in Listed PROVE Candidates(m) \in Seq(Provider) /\ Candidates(m) # <<>>
  <2>1. PICK n \in {m, Fallbacks(m)[1], Fallbacks(m)[2]} : ProviderOf(n) \in Provider
    BY <1>2, FailoverAssumption DEF FailoverAssumption
  <2>2. Offered(n) # <<>>
    BY <2>1 DEF Offered
  <2>3. PICK a \in Seq(Provider), b \in Seq(Provider), c \in Seq(Provider) :
          a = Offered(m) /\ b = Offered(Fallbacks(m)[1]) /\ c = Offered(Fallbacks(m)[2])
    BY <1>1
  <2>4. Candidates(m) = a \o b \o c /\ (a # <<>> \/ b # <<>> \/ c # <<>>)
    BY <2>1, <2>2, <2>3 DEF Candidates
  <2>5. a \o b \o c \in Seq(Provider) /\ Len(a \o b \o c) = Len(a) + Len(b) + Len(c)
    BY <2>3
  <2>6. Len(a \o b \o c) # 0
    BY <2>3, <2>4, <2>5
  <2> QED  BY <2>4, <2>5, <2>6
<1>4. ASSUME NEW m \in Model, NEW complexity, NEW allowed PROVE Route(m, complexity, allowed) \in Listed
  BY FailoverAssumption DEF FailoverAssumption, Route
<1> HIDE DEF Listed
<1> QED  BY <1>3, <1>4 DEF Plans

\* The requests that begin, go on and are told, by what they are made of.
LEMMA ChoosingOK ==
  ASSUME NEW layers \in 1..2, NEW rest \in Seq(Provider), rest # <<>>
  PROVE  RequestOK(Choosing(layers, rest))
  BY DEF RequestOK, Choosing
LEMMA CallingOK ==
  ASSUME NEW layers \in 1..2, NEW to \in Provider, NEW rest \in Seq(Provider)
  PROVE  RequestOK(Calling(layers, to, rest))
  BY DEF RequestOK, Calling
LEMMA ToldOK ==
  ASSUME NEW c, RequestOK(c), c.phase \in {"calling", "recording", "tripping"},
         NEW ok \in BOOLEAN
  PROVE  RequestOK(Told(c, ok))
<1>1. c.layers \in 1..2 /\ c.rest \in Seq(Provider) /\ c.to \in Provider
  BY DEF RequestOK, Idle
<1>2. CASE MoreLayers(c)
  BY <1>1, <1>2 DEF Told, RequestOK
<1>3. CASE ~MoreLayers(c) /\ (ok \/ c.rest = <<>>)
  BY <1>3 DEF Told, RequestOK
<1>4. CASE ~MoreLayers(c) /\ ~(ok \/ c.rest = <<>>)
  BY <1>1, <1>4, ChoosingOK DEF Told
<1> QED  BY <1>2, <1>3, <1>4
LEMMA TrippingOK ==
  ASSUME NEW c, RequestOK(c), c.phase \in {"calling", "recording"}
  PROVE  RequestOK(Tripping(c))
<1>1. c.layers \in 1..2 /\ c.rest \in Seq(Provider) /\ c.to \in Provider
  BY DEF RequestOK, Idle
<1>2. PICK last \in BOOLEAN : last = ~MoreLayers(c)
  BY Zenon
<1>3. Tripping(c) = [phase |-> "tripping", layers |-> c.layers, to |-> c.to, rest |-> c.rest,
                     last |-> last]
  BY <1>2, Zenon DEF Tripping
<1> QED  BY <1>1, <1>3 DEF RequestOK

\* One slot changes.
LEMMA OneRequest ==
  ASSUME RequestsOK, DOMAIN call = Request, NEW r \in Request, NEW c, RequestOK(c),
         call' = [call EXCEPT ![r] = c], down' \in BOOLEAN
  PROVE  RequestsOK'
<1>1. \A q \in Request : call'[q] = IF q = r THEN c ELSE call[q]
  OBVIOUS
<1> QED  BY <1>1 DEF RequestsOK

\* Every step leaves the slots in order.
LEMMA RequestsNext == IInv /\ RequestsOK /\ [Next]_vars => RequestsOK'
<1> SUFFICES ASSUME IInv, RequestsOK, [Next]_vars PROVE RequestsOK'
  OBVIOUS
<1>0. DOMAIN call = Request /\ RequestOK(Idle)
  BY DEF IInv, BreakerOK, RequestOK
<1>1. ASSUME NEW r \in Request, NEW stream \in BOOLEAN, NEW plan \in Plans,
             BeginChat(r, stream, plan)
      PROVE  RequestsOK'
  <2>1. RequestOK(Choosing(IF stream THEN 1 ELSE 2, plan))
    BY PlansNeverEmpty, ChoosingOK
  <2> QED  BY <1>0, <1>1, <2>1, OneRequest DEF BeginChat, RequestsOK
<1>2. ASSUME NEW r \in Request, BeginMessages(r) PROVE RequestsOK'
  <2>1. RequestOK(Calling(1, "anthropic", <<>>))
    <3>1. "anthropic" \in Provider /\ <<>> \in Seq(Provider) /\ 1 \in 1..2
      BY <1>2 DEF BeginMessages
    <3> QED  BY <3>1, CallingOK
  <2> QED  BY <1>0, <1>2, <2>1, OneRequest DEF BeginMessages, RequestsOK
<1>3. ASSUME NEW r \in Request, Choose(r) PROVE RequestsOK'
  <2>1. /\ call[r].layers \in 1..2 /\ call[r].rest \in Seq(Provider) /\ call[r].rest # <<>>
    BY <1>3 DEF Choose, RequestsOK, RequestOK, Idle
  <2>2. Head(call[r].rest) \in Provider /\ Tail(call[r].rest) \in Seq(Provider)
        /\ (Len(call[r].rest) > 1 => Tail(call[r].rest) # <<>>)
    <3>1. PICK rest \in Seq(Provider) : rest = call[r].rest /\ rest # <<>>
      BY <2>1
    <3>2. Head(rest) \in Provider /\ Tail(rest) \in Seq(Provider)
          /\ Len(Tail(rest)) = Len(rest) - 1
      BY <3>1
    <3>3. Len(rest) > 1 => Tail(rest) # <<>>
      BY <3>1, <3>2
    <3> QED  BY <3>1, <3>2, <3>3
  <2>3. PICK c : /\ call' = [call EXCEPT ![r] = c]
                 /\ \/ c = Calling(call[r].layers, Head(call[r].rest), Tail(call[r].rest))
                    \/ Len(call[r].rest) > 1 /\ c = Choosing(call[r].layers, Tail(call[r].rest))
                    \/ c = Idle
    BY <1>3 DEF Choose
  <2>4. RequestOK(c)
    BY <1>0, <2>1, <2>2, <2>3, CallingOK, ChoosingOK
  <2> QED  BY <1>0, <1>3, <2>3, <2>4, OneRequest DEF Choose, RequestsOK
<1>4. ASSUME NEW r \in Request, Refuse(r) PROVE RequestsOK'
  BY <1>0, <1>4, OneRequest DEF Refuse, RequestsOK
<1>5. ASSUME NEW r \in Request, Succeed(r) PROVE RequestsOK'
  <2>1. call[r].phase \in {"calling", "recording", "tripping"} /\ RequestOK(call[r])
    BY <1>5 DEF Succeed, Tells, RequestsOK
  <2>2. RequestOK(Told(call[r], TRUE))
    BY <2>1, ToldOK
  <2>3. call[r].phase = "recording" => RequestOK(Failed(call[r]))
    BY <2>1, FailedStays
  <2> QED  BY <1>0, <1>5, <2>2, <2>3, OneRequest DEF Succeed, RequestsOK
<1>6. ASSUME NEW r \in Request, Count(r) \/ CountFails(r) \/ Trip(r) PROVE RequestsOK'
  <2>1. call[r].phase \in {"calling", "recording", "tripping"} /\ RequestOK(call[r])
    BY <1>6 DEF Count, CountFails, Trip, Tells, RequestsOK
  <2>2. RequestOK(Told(call[r], FALSE))
    BY <2>1, ToldOK
  <2>3. Count(r) => RequestOK(Tripping(call[r]))
    BY <2>1, TrippingOK DEF Count, Tells
  <2>4. down' \in BOOLEAN
    BY <1>6 DEF Count, CountFails, Trip, RequestsOK
  <2>5. \/ call' = [call EXCEPT ![r] = Told(call[r], FALSE)]
        \/ Count(r) /\ call' = [call EXCEPT ![r] = Tripping(call[r])]
    BY <1>6 DEF Count, CountFails, Trip
  <2> QED  BY <1>0, <2>2, <2>3, <2>4, <2>5, OneRequest
<1>7. ASSUME NEW r \in Request, Crash(r) PROVE RequestsOK'
  <2>1. \A q \in Request : call'[q] = call[q] \/ call'[q] = Idle
    BY <1>0, <1>7 DEF Crash
  <2> QED  BY <1>0, <1>7, <2>1 DEF Crash, RequestsOK
<1>8. ASSUME UNCHANGED call, down' = down \/ down' = ~down PROVE RequestsOK'
  BY <1>8 DEF RequestsOK
<1>9. CASE Tick \/ Connection \/ (\E P : Reset(P)) \/ UNCHANGED vars
  BY <1>8, <1>9 DEF Tick, Connection, Reset, vars
<1> QED  BY <1>1, <1>2, <1>3, <1>4, <1>5, <1>6, <1>7, <1>9 DEF Next, Progress

\* Keys and slots keep their types: in particular a request that has to choose
\* has a candidate left, whatever model it asked for (FALLBACK_MAP and the loop
\* of forward_non_stream and forward_stream).
THEOREM TypeCorrect == Spec => []TypeOK
<1>1. Init => RequestsOK
  BY DEF Init, RequestsOK, RequestOK
<1>2. IInv /\ RequestsOK => TypeOK
  BY DEF IInv, BreakerOK, RequestsOK, RequestOK, TypeOK
<1> QED  BY <1>1, <1>2, RequestsNext, Invariance, PTL DEF Spec
=============================================================================
