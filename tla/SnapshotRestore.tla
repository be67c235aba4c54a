-------------------------- MODULE SnapshotRestore ---------------------------
(***************************************************************************)
(* POST /v1/administration/snapshot: NetBox uploads a Raft snapshot, the   *)
(* broker spools it whole (restore_snapshot in broker/app.py) and only     *)
(* then sends it to OpenBao, once (restore_raft_snapshot in                *)
(* broker/vault.py).  Up to MemoryLimit the spool is in memory, beyond it  *)
(* in a temporary file on a file system with room for TmpSpace.  Sizes are *)
(* counted in chunks; OpenBao and the NetBox connection are external.      *)
(***************************************************************************)
EXTENDS SnapshotLimit

CONSTANTS
    MemoryLimit,  \* SpooledTemporaryFile(max_size=8 MiB)
    TmpSpace,     \* the room in /tmp
    MaxExcess     \* bound: chunks NetBox sends beyond the size it declared

ASSUME RestoreAssumption == MemoryLimit \in Nat /\ TmpSpace \in Nat /\ MaxExcess \in Nat

VARIABLES
    content_length,  \* between 1 and MAX_SNAPSHOT_BYTES
    received,        \* chunks received
    stage,           \* how far the request is
    present,         \* NetBox is still there
    fate,            \* what became of the request to OpenBao
    record           \* the outcome on record, "none" before there is one

restoreVars == <<content_length, received, stage, present, fate, record>>

RestoreTypeOK ==
    /\ content_length \in 1..MaxSize
    /\ received \in Nat
    /\ stage \in {"authorizing", "uploading", "restoring", "waiting", "done"}
    /\ present \in BOOLEAN
    /\ fate \in {"unsent", "pending", "applied", "rejected"}
    /\ record \in {"none", "denied", "interrupted", "error", "unknown", "ok"}

RestoreInit ==
    /\ content_length \in 1..MaxSize
    /\ received = 0
    /\ stage = "authorizing"
    /\ present = TRUE
    /\ fate = "unsent"
    /\ record = "none"

\* audit.record and the end of the request.
Conclude(outcome) == record' = outcome /\ stage' = "done"

-----------------------------------------------------------------------------
(* restore_snapshot: authorization and the upload *)

\* A stale digest, an instance without the cluster family, another media type.
RestoreDenied ==
    /\ stage = "authorizing"
    /\ Conclude("denied")
    /\ UNCHANGED <<content_length, received, present, fate>>

Authorized ==
    /\ stage = "authorizing"
    /\ stage' = "uploading"
    /\ UNCHANGED <<content_length, received, present, fate, record>>

Spools(n) == n <= MemoryLimit \/ n <= TmpSpace

\* A write that finds the file system full may fail at once, or leave a last
\* piece in the file's buffer for the next flush to fail on.
ChunkArrives ==
    /\ stage = "uploading"
    /\ present
    /\ received < content_length + MaxExcess
    /\ received' = received + 1
    /\ \/ received' > content_length /\ Conclude("denied")
       \/ /\ received' <= content_length
          /\ Spools(received') \/ Spools(received)
          /\ UNCHANGED <<stage, record>>
       \/ received' <= content_length /\ ~Spools(received') /\ Conclude("interrupted")
    /\ UNCHANGED <<content_length, present, fate>>

HangUp ==
    /\ present
    /\ present' = FALSE
    /\ UNCHANGED <<content_length, received, stage, fate, record>>

\* ClientDisconnect out of request.stream.
\* Mutant: `except BaseException` goes, and so does the record.
UploadAbandoned ==
    /\ stage = "uploading"
    /\ ~present
    /\ stage' = "done"
    /\ UNCHANGED <<content_length, received, present, fate, record>>

UploadInterrupted ==
    /\ stage = "uploading"
    /\ ~present
    /\ Conclude("interrupted")
    /\ UNCHANGED <<content_length, received, present, fate>>

\* Mutant: the total is not compared with the declared size.
AnySize == TRUE
SizeMatches == received = content_length

UploadEnds ==
    /\ stage = "uploading"
    /\ present
    /\ IF SizeMatches THEN stage' = "restoring" /\ UNCHANGED record ELSE Conclude("denied")
    /\ UNCHANGED <<content_length, received, present, fate>>

\* snapshot.seek(0) flushes outside the try: no one records an OSError.
SeekFails ==
    /\ stage = "restoring"
    /\ ~Spools(received)
    /\ stage' = "done"
    /\ UNCHANGED <<content_length, received, present, fate, record>>

-----------------------------------------------------------------------------
(* restore_raft_snapshot, inside run *)

\* No token from _get, or the connection is never tried.
NotSent ==
    /\ stage = "restoring"
    /\ Spools(received)
    /\ Conclude("error")
    /\ UNCHANGED <<content_length, received, present, fate>>

Send ==
    /\ stage = "restoring"
    /\ Spools(received)
    /\ stage' = "waiting"
    /\ fate' = "pending"
    /\ UNCHANGED <<content_length, received, present, record>>

\* RequestException, a redirect or a 5xx.  Mutant: reported like any VaultError.
InDoubtError == "error"
InDoubt == "unknown"

\* Mutant: only a redirect or a 5xx ends the wait.
AnswerAwaited ==
    /\ stage = "waiting" /\ fate = "rejected"
    /\ Conclude(InDoubt)
    /\ UNCHANGED <<content_length, received, present, fate>>

AnswerUnusable ==
    /\ stage = "waiting"
    /\ Conclude(InDoubt)
    /\ UNCHANGED <<content_length, received, present, fate>>

RejectedStatus ==
    /\ stage = "waiting"
    /\ fate = "rejected"
    /\ Conclude("error")
    /\ UNCHANGED <<content_length, received, present, fate>>

Restored ==
    /\ stage = "waiting"
    /\ fate = "applied"
    /\ Conclude("ok")
    /\ UNCHANGED <<content_length, received, present, fate>>

Decide(f) ==
    /\ fate = "pending"
    /\ fate' = f
    /\ UNCHANGED <<content_length, received, stage, present, record>>

-----------------------------------------------------------------------------
Restore == NotSent \/ Send \/ AnswerUnusable \/ RejectedStatus \/ Restored \/ SeekFails

RestoreNext ==
    \/ RestoreDenied \/ Authorized
    \/ ChunkArrives \/ HangUp \/ UploadInterrupted \/ UploadEnds
    \/ Restore
    \/ \E f \in {"applied", "rejected"} : Decide(f)

RestoreSpec == RestoreInit /\ [][RestoreNext]_restoreVars

\* The request to OpenBao has timeouts; nothing bounds how long NetBox takes
\* over its upload, so no fairness is assumed of it.
RestoreFairSpec == RestoreSpec /\ WF_restoreVars(Restore)

-----------------------------------------------------------------------------
(* Properties *)

RestoreInvariant ==
    /\ RestoreTypeOK
    /\ stage \in {"authorizing", "uploading", "restoring"} => fate = "unsent" /\ record = "none"
    /\ stage \in {"restoring", "waiting"} => received = content_length /\ record = "none"
    /\ stage = "waiting" => fate # "unsent"
    /\ fate # "unsent" => received = content_length
    /\ record \in {"denied", "interrupted"} => fate = "unsent"
    /\ record = "error" => fate \in {"unsent", "rejected"}
    /\ record = "ok" => fate = "applied"

\* OpenBao's Raft state is only ever replaced by an upload that arrived whole:
\* exactly as long as declared, however NetBox cut it short or overran it.
OnlyWholeUploadsSent == fate # "unsent" => received = content_length

\* A restore recorded as denied, interrupted or an error has not replaced the
\* Raft state and never will; one recorded as ok has.
RestoreOutcomeHonest ==
    /\ record \in {"denied", "interrupted", "error"} => fate \in {"unsent", "rejected"}
    /\ record = "ok" => fate = "applied"

\* Every request that is over is on record, unless the spool had no room for
\* what arrived.
RestoreRecorded == stage = "done" /\ Spools(received) => record # "none"

\* The deployment guide: the broker accepts a snapshot up to 512 MiB and "spools
\* the inbound stream".  Only a client that hangs up interrupts its upload.
OnlyHangUpInterrupts == record = "interrupted" => ~present

\* A restore is over some time after its upload, whatever OpenBao does.
RestoreEnds == (stage = "restoring") ~> (stage = "done")
=============================================================================
