--------------------------- MODULE FlightPromise ---------------------------
(***************************************************************************)
(* What request coalescing promises the handlers that call it, whatever   *)
(* the machinery underneath: the calls for one key that are in progress   *)
(* in a gateway process form one flight, a flight has at most one         *)
(* outcome, and every call that returns a result returns its flight's.    *)
(* SingleFlight implements this module.                                    *)
(***************************************************************************)
CONSTANTS Proc,     \* gateway processes
          Req,      \* calls of execute() for one key
          home,     \* the process a call is made in
          NoOne,    \* "no call"
          Pending   \* the outcome of a flight that has none yet

VARIABLES phase,    \* where each call is
          group,    \* the call that opened the flight each call belongs to
          outcome,  \* the outcome of the flight each call opened
          answer    \* what each call returned

pvars == <<phase, group, outcome, answer>>

\* What one execution of the upstream function produced: whether it
\* succeeded, and the call that ran it.
Result == [ok : BOOLEAN, by : Req]

Open(g) == group[g] = g /\ phase[g] = "waiting"

Init ==
  /\ phase = [r \in Req |-> "new"]
  /\ group = [r \in Req |-> NoOne]
  /\ outcome = [r \in Req |-> Pending]
  /\ answer = [r \in Req |-> Pending]

\* A call joins the open flight of its process, or opens one if there is none.
Begin(r) ==
  /\ phase[r] = "new"
  /\ phase' = [phase EXCEPT ![r] = "waiting"]
  /\ \E g \in Req :
       /\ group' = [group EXCEPT ![r] = g]
       /\ home[g] = home[r]
       /\ \/ Open(g)
          \/ g = r /\ \A s \in Req : Open(s) => home[s] # home[r]
  /\ UNCHANGED <<outcome, answer>>

\* The outcome of an open flight is fixed.
Decide(g) ==
  /\ Open(g)
  /\ outcome[g] = Pending
  /\ \E res \in Result : outcome' = [outcome EXCEPT ![g] = res]
  /\ UNCHANGED <<phase, group, answer>>

\* A call returns the outcome of its flight.
Answer(r) ==
  /\ phase[r] = "waiting"
  /\ outcome[group[r]] # Pending
  /\ phase' = [phase EXCEPT ![r] = "over"]
  /\ answer' = [answer EXCEPT ![r] = outcome[group[r]]]
  /\ UNCHANGED <<group, outcome>>

\* The call that opened the flight fixes the outcome and returns it at once.
Conclude(g) ==
  /\ Open(g)
  /\ outcome[g] = Pending
  /\ \E res \in Result : /\ outcome' = [outcome EXCEPT ![g] = res]
                         /\ answer' = [answer EXCEPT ![g] = res]
  /\ phase' = [phase EXCEPT ![g] = "over"]
  /\ UNCHANGED group

\* A call ends by raising, without an answer, only while its flight has none.
GiveUp(r) ==
  /\ phase[r] = "waiting"
  /\ outcome[group[r]] = Pending
  /\ phase' = [phase EXCEPT ![r] = "over"]
  /\ UNCHANGED <<group, outcome, answer>>

\* A process dies with every call in it.
Die(p) ==
  /\ phase' = [r \in Req |-> IF home[r] = p /\ phase[r] = "waiting"
                             THEN "over" ELSE phase[r]]
  /\ UNCHANGED <<group, outcome, answer>>

Next ==
  \/ \E r \in Req : Begin(r) \/ Decide(r) \/ Answer(r) \/ Conclude(r) \/ GiveUp(r)
  \/ \E p \in Proc : Die(p)

Spec == Init /\ [][Next]_pvars
=============================================================================
