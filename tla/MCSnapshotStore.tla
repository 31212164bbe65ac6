-------------------------- MODULE MCSnapshotStore --------------------------
(* Instances of SnapshotStore for TLC. *)
EXTENDS SnapshotStore

CONSTANTS c1, c2, k1

\* What a delete covers: the one entry.
OneScope == {{k1}}
=============================================================================
