--------------------------- MODULE SnapshotRoutes ----------------------------
(***************************************************************************)
(* The two routes of /v1/administration/snapshot in one process: a         *)
(* download and a restore under way at the same time.  Neither touches     *)
(* what the other keeps, so a step of the process is a step of one that    *)
(* leaves the other alone.  The OpenBao session, which both begin with, is *)
(* the subject of VaultSession.                                            *)
(***************************************************************************)
EXTENDS SnapshotDownload, SnapshotRestore

RoutesInit == Init /\ RestoreInit

RoutesNext == \/ Next /\ UNCHANGED restoreVars
              \/ RestoreNext /\ UNCHANGED vars

\* Each route keeps the fairness of its own timeouts, whatever the other does.
RoutesSpec ==
    /\ RoutesInit /\ [][RoutesNext]_<<vars, restoreVars>>
    /\ WF_vars(Progress) /\ WF_restoreVars(Restore)
=============================================================================
