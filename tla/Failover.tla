------------------------------ MODULE Failover ------------------------------
(***************************************************************************)
(* Upstream calls and the circuit breakers that steer them: the breaker's  *)
(* storage in memory or in Redis (server/failover.py), the loops over the  *)
(* candidate models (server/upstream.py, FALLBACK_MAP of                   *)
(* server/translator.py), the cascade that picks the first model           *)
(* (server/cascade_router.py) and the reset of server/gateway.py.          *)
(*                                                                         *)
(* In memory every request runs on the one event loop that owns the        *)
(* breaker, and what happens between two awaits is not interrupted.  With  *)
(* Redis each request stands for a process of its own, and every command   *)
(* is a step.  Time is the age of each key, no older than matters.         *)
(*                                                                         *)
(* Not covered: what is in payloads and answers, headers and credentials,  *)
(* the ring of recent errors and the counters, which steer nothing.        *)
(***************************************************************************)
EXTENDS Naturals, Sequences

CONSTANTS
  Request,    \* slots for requests in flight
  Provider,   \* "openai", "anthropic", "google", or some of them
  Model,      \* what clients ask for
  Threshold,  \* failure_threshold
  Timeout,    \* recovery_timeout_seconds
  OpenTtl,    \* what Redis keeps the mark for: max(60, 4 * Timeout)
  FailTtl     \* what Redis keeps the count for: 300

ASSUME FailoverAssumption ==
  /\ Provider \subseteq {"openai", "anthropic", "google"} /\ Provider # {}
  /\ Model \subseteq {"gpt-4o", "gpt-4o-mini", "claude-3-5-sonnet", "gemini-2.5-flash",
                      "claude-3-5-haiku-20241022"}
  /\ Threshold \in Nat \ {0} /\ {Timeout, OpenTtl, FailTtl} \subseteq Nat
  /\ Timeout < OpenTtl /\ OpenTtl < FailTtl

VARIABLES
  redis,    \* the breaker is in Redis; never changes
  down,     \* Redis cannot be reached
  fails,    \* consecutive_failures of a provider, up to the threshold
  failAge,  \* time since the count got its TTL, Forever if it never did
  openAge,  \* time since opened_at, Closed if there is no mark
  call,     \* each slot's request
  raced     \* the keys were deleted while a failure was between its commands

vars == <<redis, down, fails, failAge, openAge, call, raced>>
breaker == <<fails, failAge, openAge, raced>>

\* The ages of a mark and of a TTL that are not there.
Closed == OpenTtl + 1
Forever == FailTtl + 1
Idle == [phase |-> "idle"]

----------------------------------------------------------------------------
(* Models *)

\* identify_provider.
ProviderOf(m) ==
  CASE m \in {"claude-3-5-sonnet", "claude-3-5-haiku-20241022"} -> "anthropic"
    [] m = "gemini-2.5-flash" -> "google"
    [] OTHER -> "openai"
\* FALLBACK_MAP, and get_fallback_chain for the models it does not list.
Fallbacks(m) ==
  CASE m = "gpt-4o" -> <<"claude-3-5-sonnet", "gemini-2.5-flash">>
    [] m = "gpt-4o-mini" -> <<"gemini-2.5-flash", "claude-3-5-haiku-20241022">>
    [] m = "claude-3-5-sonnet" -> <<"gpt-4o", "gemini-2.5-flash">>
    [] m = "gemini-2.5-flash" -> <<"gpt-4o-mini", "claude-3-5-haiku-20241022">>
    [] OTHER -> <<"gpt-4o-mini", "gemini-2.5-flash">>
\* What classify_complexity makes of a prompt: below 0.35, below 0.6, above.
Complexity == {"trivial", "moderate", "deep"}
\* evaluate_route for chat completions.  "gpt-4o-mini" contains "gpt-4o" and
\* passes for a frontier model.
IsFrontier(m) == m \in {"gpt-4o", "gpt-4o-mini", "claude-3-5-sonnet"}
Route(m, complexity, allowed) ==
  CASE ~allowed \/ ~IsFrontier(m) \/ complexity = "deep" -> m
    [] ProviderOf(m) = "anthropic" -> "claude-3-5-haiku-20241022"
    [] complexity = "trivial" -> "gemini-2.5-flash"
    [] OTHER -> "gpt-4o-mini"
\* The providers a request tries, in order.
Offered(m) == IF ProviderOf(m) \in Provider THEN <<ProviderOf(m)>> ELSE <<>>
Candidates(m) == Offered(m) \o Offered(Fallbacks(m)[1]) \o Offered(Fallbacks(m)[2])
\* For whatever model is asked for, however the prompt is classified.
Plans == {Candidates(Route(m, complexity, allowed)) :
            m \in Model, complexity \in Complexity,
            allowed \in BOOLEAN}

----------------------------------------------------------------------------
(* The breaker *)

\* Mutant: in memory the recovery timeout is forgotten.
Available_Shut(p) ==
  (redis /\ (down \/ openAge[p] > Timeout)) \/ openAge[p] = Closed
\* is_available; Redis out of reach counts as available.
Available(p) ==
  \/ redis /\ down
  \/ openAge[p] = Closed
  \/ openAge[p] > Timeout

\* A failure of p is between incr and set.
IsTripping(p) ==
  \E r \in Request : call[r].phase = "tripping" /\ call[r].to = p
\* Mutant: the mark of an open circuit stays.
Cleared_KeepsMark(P) ==
  /\ fails' = [p \in Provider |-> IF p \in P THEN 0 ELSE fails[p]]
  /\ failAge' = [p \in Provider |-> IF p \in P THEN Forever ELSE failAge[p]]
  /\ raced' = [p \in Provider |-> IF p \in P THEN IsTripping(p) ELSE raced[p]]
  /\ UNCHANGED openAge
\* record_success and reset.
Cleared(P) ==
  /\ fails' = [p \in Provider |-> IF p \in P THEN 0 ELSE fails[p]]
  /\ failAge' = [p \in Provider |-> IF p \in P THEN Forever ELSE failAge[p]]
  /\ openAge' = [p \in Provider |-> IF p \in P THEN Closed ELSE openAge[p]]
  /\ raced' = [p \in Provider |-> IF p \in P THEN IsTripping(p) ELSE raced[p]]

\* No other request of the process is between two awaits.
InStep(r) == call[r].phase \in {"choosing", "recording", "tripping"}
OwnsLoop(r) == redis \/ \A q \in Request \ {r} : ~InStep(q)
LoopIsFree == redis \/ \A q \in Request : ~InStep(q)

Init ==
  /\ redis \in BOOLEAN /\ down = FALSE
  /\ fails = [p \in Provider |-> 0]
  /\ failAge = [p \in Provider |-> Forever]
  /\ openAge = [p \in Provider |-> Closed]
  /\ call = [r \in Request |-> Idle]
  /\ raced = [p \in Provider |-> FALSE]

----------------------------------------------------------------------------
(* A request *)

\* layers: how many layers tell the breaker about an Anthropic call.
Choosing(layers, rest) == [phase |-> "choosing", layers |-> layers, rest |-> rest]
Calling(layers, to, rest) ==
  [phase |-> "calling", layers |-> layers, to |-> to, rest |-> rest]

\* handle_chat_completions goes upstream.  forward_non_stream reaches Anthropic
\* through forward_anthropic_messages, and both tell the breaker.
BeginChat(r, stream, plan) ==
  /\ call[r] = Idle /\ LoopIsFree
  /\ call' = [call EXCEPT ![r] = Choosing(IF stream THEN 1 ELSE 2, plan)]
  /\ UNCHANGED <<redis, down, breaker>>

\* handle_anthropic_messages: no breaker is asked and nothing else tried.
BeginMessages(r) ==
  /\ call[r] = Idle /\ LoopIsFree /\ "anthropic" \in Provider
  /\ call' = [call EXCEPT ![r] = Calling(1, "anthropic", <<>>)]
  /\ UNCHANGED <<redis, down, breaker>>

\* The next candidate is called if its circuit allows, else passed over.
Choose(r) ==
  /\ call[r].phase = "choosing" /\ OwnsLoop(r)
  /\ LET rest == call[r].rest IN
     call' = [call EXCEPT ![r] =
                IF Available(Head(rest)) THEN Calling(@.layers, Head(rest), Tail(rest))
                ELSE IF Len(rest) > 1 THEN Choosing(@.layers, Tail(rest))
                ELSE Idle]
  /\ UNCHANGED <<redis, down, breaker>>

\* An answer that is no failure of the provider is returned as it is.
Refuse(r) ==
  /\ call[r].phase = "calling" /\ OwnsLoop(r)
  /\ call' = [call EXCEPT ![r] = Idle]
  /\ UNCHANGED <<redis, down, breaker>>

\* The call ended, well or not, and the breaker is told: at once by the layer
\* that made it, then by the other if there is one.
Tells(r, ok) ==
  /\ OwnsLoop(r)
  /\ \/ call[r].phase = "calling"
     \/ call[r].phase = "recording" /\ call[r].ok = ok
MoreLayers(c) ==
  /\ c.layers = 2 /\ c.to = "anthropic"
  /\ c.phase = "calling" \/ (c.phase = "tripping" /\ ~c.last)
\* Mutant: the loop goes on after the last candidate.
Told_Endless(c, ok) ==
  IF MoreLayers(c)
  THEN [phase |-> "recording", layers |-> c.layers, to |-> c.to, rest |-> c.rest,
        ok |-> ok]
  ELSE IF ok THEN Idle
  ELSE Choosing(c.layers, c.rest)
\* What comes next; with no candidate left the last error is returned.
Told(c, ok) ==
  IF MoreLayers(c)
  THEN [phase |-> "recording", layers |-> c.layers, to |-> c.to, rest |-> c.rest,
        ok |-> ok]
  ELSE IF ok \/ c.rest = <<>> THEN Idle
  ELSE Choosing(c.layers, c.rest)

\* forward_non_stream translates an answer of Anthropic after it has recorded
\* the success; when that raises, it records a failure as well.
Failed(c) ==
  [phase |-> "recording", layers |-> c.layers, to |-> c.to, rest |-> c.rest, ok |-> FALSE]
\* record_success: one transaction in Redis.
Succeed(r) ==
  /\ Tells(r, TRUE)
  /\ IF redis /\ down THEN UNCHANGED breaker ELSE Cleared({call[r].to})
  /\ \/ call' = [call EXCEPT ![r] = Told(@, TRUE)]
     \/ call[r].phase = "recording" /\ call' = [call EXCEPT ![r] = Failed(@)]
  /\ UNCHANGED <<redis, down>>

\* record_failure counts.
Counted(p) == IF fails[p] < Threshold THEN fails[p] + 1 ELSE Threshold
Tripping(c) ==
  [phase |-> "tripping", layers |-> c.layers, to |-> c.to, rest |-> c.rest,
   last |-> ~MoreLayers(c)]
Count(r) ==
  /\ Tells(r, FALSE) /\ ~(redis /\ down)
  /\ LET p == call[r].to IN
     /\ fails' = [fails EXCEPT ![p] = Counted(p)]
     /\ failAge' = IF redis THEN [failAge EXCEPT ![p] = 0] ELSE failAge
     /\ call' = [call EXCEPT ![r] = IF Counted(p) = Threshold THEN Tripping(@)
                                    ELSE Told(@, FALSE)]
     /\ raced' = [raced EXCEPT ![p] = @ /\ Counted(p) < Threshold]
  /\ UNCHANGED <<redis, down, openAge>>

\* In Redis incr and expire are two commands, and the connection may be lost
\* before the first or between them.
CountFails(r) ==
  /\ Tells(r, FALSE) /\ redis
  /\ \/ down /\ UNCHANGED fails
     \/ ~down /\ fails' = [fails EXCEPT ![call[r].to] = Counted(call[r].to)]
  /\ down' = TRUE
  /\ call' = [call EXCEPT ![r] = Told(@, FALSE)]
  /\ UNCHANGED <<redis, failAge, openAge, raced>>

\* The threshold is reached: opened_at is now.
Trip(r) ==
  /\ call[r].phase = "tripping" /\ OwnsLoop(r)
  /\ openAge' = IF redis /\ down THEN openAge
                ELSE [openAge EXCEPT ![call[r].to] = 0]
  /\ call' = [call EXCEPT ![r] = Told(@, FALSE)]
  /\ UNCHANGED <<redis, down, fails, failAge, raced>>

----------------------------------------------------------------------------
(* The operator, Redis, processes and time *)

\* handle_circuit_reset, of one provider or of all.
Reset(P) ==
  /\ LoopIsFree
  /\ IF redis /\ down THEN UNCHANGED breaker ELSE Cleared(P)
  /\ UNCHANGED <<redis, down, call>>

\* The connection to Redis is lost or comes back.
Connection ==
  /\ redis /\ down' = ~down
  /\ UNCHANGED <<redis, breaker, call>>

\* A process dies with its requests; a breaker in memory goes with it.
Crash(r) ==
  /\ call[r] # Idle
  /\ call' = IF redis THEN [call EXCEPT ![r] = Idle] ELSE [q \in Request |-> Idle]
  /\ IF redis
     THEN UNCHANGED breaker
     ELSE /\ fails' = [p \in Provider |-> 0] /\ failAge' = [p \in Provider |-> Forever]
          /\ openAge' = [p \in Provider |-> Closed] /\ UNCHANGED raced
  /\ UNCHANGED <<redis, down>>

\* Mutant: the mark gets the TTL of half the recovery timeout.
MarkAfter_Short(a) ==
  IF a = Closed THEN Closed
  ELSE IF redis /\ a = Timeout \div 2 THEN Closed
  ELSE IF a <= Timeout THEN a + 1 ELSE a
\* Redis drops what is older than its TTL; an age beyond the timeout says no
\* more in memory.
MarkAfter(a) ==
  IF a = Closed THEN Closed
  ELSE IF redis \/ a <= Timeout THEN a + 1 ELSE a
CountExpires(p) == failAge[p] = FailTtl /\ ~IsTripping(p)
\* incr and set are milliseconds apart: the count does not age in between.
Tick ==
  /\ openAge' = [p \in Provider |-> MarkAfter(openAge[p])]
  /\ fails' = [p \in Provider |-> IF CountExpires(p) THEN 0 ELSE fails[p]]
  /\ failAge' = [p \in Provider |->
                   IF failAge[p] = Forever \/ IsTripping(p) THEN failAge[p]
                   ELSE failAge[p] + 1]
  /\ raced' = [p \in Provider |-> raced[p] /\ (openAge'[p] # Closed \/ IsTripping(p))]
  /\ UNCHANGED <<redis, down, call>>

\* What the event loop and the HTTP client's timeouts see to.
Progress(r) ==
  \/ Choose(r) \/ Refuse(r) \/ Succeed(r) \/ Count(r) \/ CountFails(r) \/ Trip(r)

Next ==
  \/ Tick \/ Connection
  \/ \E P \in {{p} : p \in Provider} \union {Provider} : Reset(P)
  \/ \E r \in Request : BeginMessages(r) \/ Crash(r) \/ Progress(r)
  \/ \E r \in Request, stream \in BOOLEAN, plan \in Plans :
       BeginChat(r, stream, plan)

Spec == Init /\ [][Next]_vars
\* Time passes, coroutines are resumed and every HTTP call ends, if only by
\* its timeout.
FairSpec == Spec /\ WF_vars(Tick) /\ \A r \in Request : WF_vars(Progress(r))

----------------------------------------------------------------------------
(* Properties *)

\* Each key has a value its TTL allows, and each slot a request with what it
\* still has to try and to tell.
TypeOK ==
  /\ redis \in BOOLEAN /\ down \in BOOLEAN /\ raced \in [Provider -> BOOLEAN]
  /\ fails \in [Provider -> 0..Threshold]
  /\ failAge \in [Provider -> 0..Forever]
  /\ openAge \in [Provider -> 0..Closed]
  /\ \A r \in Request :
       \/ call[r] = Idle
       \/ /\ call[r].phase \in {"choosing", "calling", "recording", "tripping"}
          /\ call[r].layers \in 1..2 /\ call[r].rest \in Seq(Provider)
          /\ call[r].phase = "choosing" => call[r].rest # <<>>
          /\ call[r].phase # "choosing" => call[r].to \in Provider
          /\ call[r].phase = "recording" => call[r].ok \in BOOLEAN
          /\ call[r].phase = "tripping" => call[r].last \in BOOLEAN

\* A half-open circuit lets everybody through, so it must shut at the first
\* failure: as long as the mark of an opening is there, so is the count that
\* reopens it, whichever of the two keys with their different TTLs is older,
\* and whatever Redis loses or a crash leaves undone.  Only a success or a
\* reset that falls between incr and set leaves a mark without a count
\* (failover.py:164-168).
HalfOpenIsArmed ==
  \A p \in Provider : openAge[p] # Closed /\ ~raced[p] => fails[p] = Threshold

\* An open circuit spares the provider for the whole recovery timeout: what
\* ends it sooner is a success of a call that was under way, a reset, a
\* restart or Redis out of reach, never the expiry of a key (failover.py:168
\* takes a TTL longer than the timeout).
TripHolds ==
  [][\A p \in Provider : ~Available(p) /\ Available(p)' =>
       openAge'[p] # Closed \/ fails'[p] = 0 \/ down']_vars

\* No provider is shut out for good: without a success, a reset or a restart,
\* and however many calls that were under way fail late and renew the mark,
\* the circuit comes to let a probe through.  Not so for Anthropic, whose own
\* route goes on calling and failing without asking (upstream.py:369).
Recovers == \A p \in Provider \ {"anthropic"} : []<>Available(p)
=============================================================================
