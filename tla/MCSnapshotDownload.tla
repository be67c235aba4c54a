------------------------- MODULE MCSnapshotDownload -------------------------
(* SnapshotDownload with snapshots of a few chunks, around the limit. *)
EXTENDS SnapshotDownload
=============================================================================
