------------------------- MODULE MCSnapshotRestore --------------------------
(* SnapshotRestore with a limit of a few chunks, half of them in memory. *)
EXTENDS SnapshotRestore
=============================================================================
