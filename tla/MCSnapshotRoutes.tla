-------------------------- MODULE MCSnapshotRoutes ---------------------------
(* Both routes with snapshots of a few chunks, around each of the limits. *)
EXTENDS SnapshotRoutes
=============================================================================
