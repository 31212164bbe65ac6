----------------------------- MODULE MCFailover -----------------------------
(* Instances of Failover for TLC. *)
EXTENDS Failover

CONSTANTS r1, r2
=============================================================================
