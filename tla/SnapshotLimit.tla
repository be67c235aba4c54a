---------------------------- MODULE SnapshotLimit ----------------------------
(* What the two snapshot routes have in common: the largest snapshot. *)
EXTENDS Naturals

CONSTANT MaxSize  \* MAX_SNAPSHOT_BYTES, in chunks

ASSUME MaxSizeAssumption == MaxSize \in Nat \ {0}
=============================================================================
