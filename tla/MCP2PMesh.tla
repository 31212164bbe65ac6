------------------------------ MODULE MCP2PMesh ------------------------------
(* Instances of P2PMesh for TLC. Resources are interchangeable; nodes are not, *)
(* since their names break ties.                                              *)
EXTENDS P2PMesh, TLC

(* Two nodes: the bounds of node 1 and node 2. *)
TwoOne   == <<2, 1>>
TwoThree == <<2, 3>>

(* All mutations before any post arrives, each broadcast before the next. *)
Partitioned ==
    /\ \A n \in Nodes : Cardinality(outbox[n]) <= 1
    /\ (\E n \in Nodes : total[n] < MaxMutations[n]) => \A n \in Nodes : lamport[n] = total[n]

ResourceSymmetry == Permutations(Resources)
=============================================================================
