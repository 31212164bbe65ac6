--------------------------- MODULE MCQuotaLedger ---------------------------
(* Instances of QuotaLedger for TLC. *)
EXTENDS QuotaLedger, TLC

CONSTANTS k1, admin, s1, s2

(* The free tier and one above it. *)
Free == [budget |-> 2, rate |-> 2]
Pro  == [budget |-> 3, rate |-> 3]
TwoPlans == {Free, Pro}
OnePlan  == {Free}

SlotSymmetry == Permutations(Slots)
=============================================================================
