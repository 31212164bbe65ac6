----------------------------- MODULE MCAccounts -----------------------------
(* Instances of Accounts for TLC. *)
EXTENDS Accounts, TLC

CONSTANTS p1, p2, r1, r2, s1, e1, e2

Alike == Permutations(Proc) \union Permutations(Request) \union Permutations(Email)
=============================================================================
