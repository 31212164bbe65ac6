--------------------------- MODULE MCCacheFabric ---------------------------
(* Instances of CacheFabric for TLC. *)
EXTENDS CacheFabric, TLC

CONSTANTS c1, c2, q1, q2, t1, acme, globex

Callers == Permutations(Caller)

\* Two queries of one organisation: one prompt, other parameters.
Orgs == [q \in Query |-> acme]
OneTalk == [q \in Query |-> "talk"]
Similar == Query \X Query
=============================================================================
