----------------------- MODULE SnapshotRestoreProofs ------------------------
(***************************************************************************)
(* What a restore may do to OpenBao's Raft state and what its record says  *)
(* of it, for uploads of any size and for any room in /tmp.                *)
(***************************************************************************)
EXTENDS SnapshotRestore, TLAPS

USE MaxSizeAssumption, RestoreAssumption

LEMMA InitInductive == RestoreInit => RestoreInvariant
  BY DEF RestoreInit, RestoreInvariant, RestoreTypeOK

\* Until the upload has ended nothing has been sent, and it ends well only
\* when its size is the declared one.
LEMMA UploadKeepsInductive ==
  ASSUME RestoreInvariant,
         RestoreDenied \/ Authorized \/ ChunkArrives \/ HangUp \/ UploadInterrupted \/ UploadEnds
  PROVE  RestoreInvariant'
<1>1. CASE RestoreDenied
  BY <1>1 DEF RestoreDenied, Conclude, RestoreInvariant, RestoreTypeOK
<1>2. CASE Authorized
  BY <1>2 DEF Authorized, RestoreInvariant, RestoreTypeOK
<1>3. CASE ChunkArrives
  BY <1>3 DEF ChunkArrives, Conclude, RestoreInvariant, RestoreTypeOK
<1>4. CASE HangUp
  BY <1>4 DEF HangUp, RestoreInvariant, RestoreTypeOK
<1>5. CASE UploadInterrupted
  BY <1>5 DEF UploadInterrupted, Conclude, RestoreInvariant, RestoreTypeOK
<1>6. CASE UploadEnds
  BY <1>6 DEF UploadEnds, SizeMatches, Conclude, RestoreInvariant, RestoreTypeOK
<1>7. QED  BY <1>1, <1>2, <1>3, <1>4, <1>5, <1>6

\* The broker believes a rejection or a success only when OpenBao has decided
\* so, and everything in between is recorded as unknown.
LEMMA RestoreKeepsInductive ==
  ASSUME RestoreInvariant, Restore
  PROVE  RestoreInvariant'
<1>1. CASE NotSent
  BY <1>1 DEF NotSent, Conclude, RestoreInvariant, RestoreTypeOK
<1>2. CASE Send
  BY <1>2 DEF Send, RestoreInvariant, RestoreTypeOK
<1>3. CASE AnswerUnusable
  BY <1>3 DEF AnswerUnusable, InDoubt, Conclude, RestoreInvariant, RestoreTypeOK
<1>4. CASE RejectedStatus
  BY <1>4 DEF RejectedStatus, Conclude, RestoreInvariant, RestoreTypeOK
<1>5. CASE Restored
  BY <1>5 DEF Restored, Conclude, RestoreInvariant, RestoreTypeOK
<1>6. CASE SeekFails
  BY <1>6 DEF SeekFails, RestoreInvariant, RestoreTypeOK
<1>7. QED  BY <1>1, <1>2, <1>3, <1>4, <1>5, <1>6 DEF Restore

\* OpenBao decides the fate of a request only while it is pending, so no record
\* is belied later.
LEMMA DecideKeepsInductive ==
  ASSUME RestoreInvariant, NEW f \in {"applied", "rejected"}, Decide(f)
  PROVE  RestoreInvariant'
  BY DEF Decide, RestoreInvariant, RestoreTypeOK

LEMMA NextKeepsInductive == RestoreInvariant /\ [RestoreNext]_restoreVars => RestoreInvariant'
<1> SUFFICES ASSUME RestoreInvariant, [RestoreNext]_restoreVars PROVE RestoreInvariant'
  OBVIOUS
<1>1. CASE UNCHANGED restoreVars
  BY <1>1 DEF RestoreInvariant, RestoreTypeOK, restoreVars
<1>2. CASE RestoreNext
  BY <1>2, UploadKeepsInductive, RestoreKeepsInductive, DecideKeepsInductive DEF RestoreNext
<1>3. QED  BY <1>1, <1>2

\* The inductive invariant of the restore route.
THEOREM RestoreInductive == RestoreSpec => []RestoreInvariant
<1>1. QED  BY InitInductive, NextKeepsInductive, PTL DEF RestoreSpec

\* OpenBao only ever sees an upload exactly as long as declared.
THEOREM RestoreOnlyWholeUploadsSent == RestoreSpec => []OnlyWholeUploadsSent
<1>1. RestoreInvariant => OnlyWholeUploadsSent
  BY DEF RestoreInvariant, OnlyWholeUploadsSent
<1>2. QED  BY <1>1, RestoreInductive, PTL

\* The record of a restore never contradicts what became of the Raft state.
THEOREM RestoreRecordHonest == RestoreSpec => []RestoreOutcomeHonest
<1>1. RestoreInvariant => RestoreOutcomeHonest
  BY DEF RestoreInvariant, RestoreTypeOK, RestoreOutcomeHonest
<1>2. QED  BY <1>1, RestoreInductive, PTL

\* A restore that is over and was spooled is on record: only seek(0), on a full
\* file system, ends a request without one.
THEOREM RestoreAlwaysRecorded == RestoreSpec => []RestoreRecorded
<1>1. RestoreInit => RestoreRecorded
  BY DEF RestoreInit, RestoreRecorded
<1>2. RestoreInvariant /\ RestoreRecorded /\ [RestoreNext]_restoreVars => RestoreRecorded'
  <2> SUFFICES ASSUME RestoreInvariant, RestoreRecorded, [RestoreNext]_restoreVars,
                      stage' = "done", Spools(received)'
               PROVE  record' # "none"
    BY DEF RestoreRecorded
  <2>1. CASE RestoreDenied \/ UploadInterrupted
    BY <2>1 DEF RestoreDenied, UploadInterrupted, Conclude
  <2>2. CASE Authorized
    BY <2>2 DEF Authorized
  <2>3. CASE ChunkArrives
    BY <2>3 DEF ChunkArrives, Conclude
  <2>4. CASE UploadEnds
    BY <2>4 DEF UploadEnds, Conclude
  <2>5. CASE HangUp \/ UNCHANGED restoreVars \/ \E f \in {"applied", "rejected"} : Decide(f)
    BY <2>5 DEF HangUp, restoreVars, Decide, RestoreRecorded, Spools
  <2>6. CASE Restore
    BY <2>6 DEF Restore, NotSent, Send, AnswerUnusable, RejectedStatus, Restored, SeekFails,
                Conclude, InDoubt, Spools
  <2>7. QED  BY <2>1, <2>2, <2>3, <2>4, <2>5, <2>6 DEF RestoreNext
<1>3. QED  BY <1>1, <1>2, RestoreInductive, PTL DEF RestoreSpec

\* Once a restore is on record it has no second record, and nothing is sent for it
\* any more.
RecordIsLast == record # "none" => record' = record /\ (fate = "unsent" => fate' = "unsent")

\* Every restore has at most one record, written after the last thing it did.
THEOREM RestoreRecordIsLast == RestoreSpec => [][RecordIsLast]_restoreVars
<1>1. RestoreInvariant /\ [RestoreNext]_restoreVars => [RecordIsLast]_restoreVars
  <2> SUFFICES ASSUME RestoreInvariant, RestoreNext, record # "none"
               PROVE  record' = record /\ (fate = "unsent" => fate' = "unsent")
    BY DEF RecordIsLast
  <2>1. stage = "done"
    BY DEF RestoreInvariant, RestoreTypeOK
  <2>2. HangUp \/ \E f \in {"applied", "rejected"} : Decide(f)
    BY <2>1 DEF RestoreNext, RestoreDenied, Authorized, ChunkArrives, UploadInterrupted, UploadEnds,
                Restore, NotSent, Send, AnswerUnusable, RejectedStatus, Restored, SeekFails
  <2>3. QED  BY <2>2 DEF HangUp, Decide
<1>2. QED  BY <1>1, RestoreInductive, PTL DEF RestoreSpec

\* Where /tmp has no more room than the spool takes in memory, as in the compose
\* file, no snapshot larger than that is ever restored or even sent, within the
\* documented limit or not, and however the client behaves.
THEOREM LargeUploadsNeverSent ==
  ASSUME TmpSpace <= MemoryLimit
  PROVE  RestoreSpec => [](content_length > MemoryLimit => fate = "unsent" /\ record # "ok")
<1> DEFINE Sent == fate # "unsent" => Spools(content_length)
<1>1. RestoreInit => Sent
  BY DEF RestoreInit
<1>2. RestoreInvariant /\ Sent /\ [RestoreNext]_restoreVars => Sent'
  <2> SUFFICES ASSUME RestoreInvariant, Sent, [RestoreNext]_restoreVars, fate' # "unsent"
               PROVE  Spools(content_length')
    BY DEF Spools
  <2>1. content_length' = content_length
    BY DEF RestoreNext, RestoreDenied, Authorized, ChunkArrives, HangUp, UploadInterrupted, UploadEnds,
           Restore, NotSent, Send, AnswerUnusable, RejectedStatus, Restored, SeekFails, Decide,
           restoreVars
  <2>2. CASE fate # "unsent"
    BY <2>1, <2>2
  <2>3. CASE fate = "unsent"
    <3>1. Send
      BY <2>3 DEF RestoreNext, RestoreDenied, Authorized, ChunkArrives, HangUp, UploadInterrupted,
                  UploadEnds, Restore, NotSent, AnswerUnusable, RejectedStatus, Restored, SeekFails,
                  Decide, restoreVars
    <3>2. Spools(received) /\ received = content_length
      BY <3>1 DEF Send, RestoreInvariant
    <3>3. QED  BY <2>1, <3>2
  <2>4. QED  BY <2>2, <2>3
<1>3. RestoreInvariant /\ Sent => (content_length > MemoryLimit => fate = "unsent" /\ record # "ok")
  BY DEF RestoreInvariant, RestoreTypeOK, Spools
<1>4. QED  BY <1>1, <1>2, <1>3, RestoreInductive, PTL DEF RestoreSpec
=============================================================================
