---------------------------- MODULE MCToolFabric ----------------------------
(* Instances of ToolFabric for TLC. *)
EXTENDS ToolFabric, TLC

CONSTANTS old, new

Contents == Permutations(Content)

\* A body that only sets a TTL, and one that forbids caching.
Bodies ==
  {[tool |-> "read_file", cacheable |-> TRUE, ttl |-> 2],
   [tool |-> "read_file", cacheable |-> FALSE, ttl |-> NoTtl]}
OneBody == {[tool |-> "read_file", cacheable |-> TRUE, ttl |-> 2]}
=============================================================================
