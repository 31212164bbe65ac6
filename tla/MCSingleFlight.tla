--------------------------- MODULE MCSingleFlight ---------------------------
(* Instances of SingleFlight for TLC. *)
EXTENDS SingleFlight, TLC

CONSTANTS p1, p2, r1, r2, r3

\* Three calls in one process: a leader, a follower and a late caller.
HomeOne == (r1 :> p1) @@ (r2 :> p1) @@ (r3 :> p1)

\* Two replicas: a leader and a follower in one, calls of the other beside.
HomeThree == (r1 :> p1) @@ (r2 :> p1) @@ (r3 :> p2)
=============================================================================
