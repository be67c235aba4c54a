----------------------- MODULE SnapshotDownloadProofs -----------------------
(***************************************************************************)
(* The audit record of a snapshot download and the fate of OpenBao's       *)
(* response, for snapshots and limits of any size.                         *)
(***************************************************************************)
EXTENDS SnapshotDownload, TLAPS

USE MaxSizeAssumption, SizesAssumption, UndeclaredAssumption

LEMMA InitInductive == Init => Inductive
  BY DEF Init, Inductive, TypeOK, Responses

\* Opening the snapshot, or failing to.
LEMMA OpenKeepsInductive ==
  ASSUME Inductive, AuthorizationDenied \/ OpenFails \/ OpenRaises \/ Opened
  PROVE  Inductive'
<1>1. CASE AuthorizationDenied
  BY <1>1 DEF AuthorizationDenied, Inductive, TypeOK, Responses, Complete
<1>2. CASE OpenFails
  BY <1>2 DEF OpenFails, Inductive, TypeOK, Responses, Complete
<1>3. CASE OpenRaises
  BY <1>3 DEF OpenRaises, Inductive, TypeOK, Responses, Complete
<1>4. CASE Opened
  BY <1>4 DEF Opened, Inductive, TypeOK, Responses, Complete
<1>5. QED  BY <1>1, <1>2, <1>3, <1>4

\* The generator runs only while nothing is recorded, so the way it ends is
\* what the record says.
LEMMA GeneratorKeepsInductive ==
  ASSUME Inductive, YieldChunk \/ Oversized \/ UpstreamBreaks \/ UpstreamEnds
  PROVE  Inductive'
<1>1. CASE YieldChunk
  BY <1>1 DEF YieldChunk, Inductive, TypeOK, Responses, Complete
<1>2. CASE Oversized
  BY <1>2 DEF Oversized, GeneratorEnds, RecordStream, Inductive, TypeOK, Responses, Complete
<1>3. CASE UpstreamBreaks
  BY <1>3 DEF UpstreamBreaks, GeneratorEnds, RecordStream, Inductive, TypeOK, Responses, Complete
<1>4. CASE UpstreamEnds
  BY <1>4 DEF UpstreamEnds, GeneratorEnds, RecordStream, Inductive, TypeOK, Responses, Complete
<1>5. QED  BY <1>1, <1>2, <1>3, <1>4

\* The ASGI server.
LEMMA ServerKeepsInductive ==
  ASSUME Inductive, StartResponse \/ NextChunk \/ SendChunk \/ Abandon \/ Disconnect
  PROVE  Inductive'
<1>1. CASE StartResponse
  BY <1>1 DEF StartResponse, Inductive, TypeOK, Responses, Complete
<1>2. CASE NextChunk
  BY <1>2 DEF NextChunk, Inductive, TypeOK, Responses, Complete
<1>3. CASE SendChunk
  BY <1>3 DEF SendChunk, Inductive, TypeOK, Responses, Complete
<1>4. CASE Abandon
  BY <1>4 DEF Abandon, Inductive, TypeOK, Responses, Complete
<1>5. CASE Disconnect
  BY <1>5 DEF Disconnect, Inductive, TypeOK, Responses, Complete
<1>6. QED  BY <1>1, <1>2, <1>3, <1>4, <1>5

\* Whoever cleans up records an error unless a record is there already.
LEMMA CleanupKeepsInductive ==
  ASSUME Inductive, BackgroundTask \/ Finalizer \/ CollectGenerator
  PROVE  Inductive'
<1>1. CASE BackgroundTask
  BY <1>1 DEF BackgroundTask, ClosePendingStream, RecordStream, Inductive, TypeOK, Responses, Complete
<1>2. CASE Finalizer
  BY <1>2 DEF Finalizer, ClosePendingStream, RecordStream, Inductive, TypeOK, Responses, Complete
<1>3. CASE CollectGenerator
  BY <1>3 DEF CollectGenerator, RecordStream, Inductive, TypeOK, Responses, Complete
<1>4. QED  BY <1>1, <1>2, <1>3

LEMMA NextKeepsInductive == Inductive /\ [Next]_vars => Inductive'
<1> SUFFICES ASSUME Inductive, [Next]_vars PROVE Inductive'
  OBVIOUS
<1>1. CASE UNCHANGED vars
  BY <1>1 DEF Inductive, TypeOK, Complete, vars
<1>2. CASE Next
  BY <1>2, OpenKeepsInductive, GeneratorKeepsInductive, ServerKeepsInductive, CleanupKeepsInductive
  DEF Next, Progress
<1>3. QED  BY <1>1, <1>2

\* The inductive invariant of the download route.
THEOREM DownloadInductive == Spec => []Inductive
<1>1. QED  BY InitInductive, NextKeepsInductive, PTL DEF Spec

\* Exactly one record of every download that came to a stream.
THEOREM DownloadStreamRecordedOnce == Spec => []StreamRecordedOnce
<1>1. Inductive => StreamRecordedOnce
  <2> SUFFICES ASSUME Inductive PROVE StreamRecordedOnce
    OBVIOUS
  <2>1. Len(<<>>) = 0 /\ Len(<<"ok">>) = 1 /\ Len(<<"error">>) = 1 /\ Len(<<"denied">>) = 1
    OBVIOUS
  <2>2. log \in {<<>>, <<"ok">>, <<"error">>, <<"denied">>} /\ (response = "done" /\ generator # "none" => log # <<>>)
    BY DEF Inductive, TypeOK
  <2>3. CASE log = <<>>
    BY <2>1, <2>2, <2>3 DEF StreamRecordedOnce
  <2>4. CASE log # <<>>
    <3>1. Len(log) = 1
      BY <2>1, <2>2, <2>4
    <3>2. QED  BY <3>1 DEF StreamRecordedOnce
  <2>5. QED  BY <2>3, <2>4
<1>2. QED  BY <1>1, DownloadInductive, PTL

\* "ok" is on record only for a complete snapshot that went out whole.
THEOREM DownloadOkMeansComplete == Spec => []OkMeansComplete
<1>1. Inductive => OkMeansComplete
  BY DEF Inductive, TypeOK, Complete, OkMeansComplete
<1>2. QED  BY <1>1, DownloadInductive, PTL

\* The response of OpenBao is closed when the request is over.
THEOREM DownloadUpstreamReleased == Spec => []UpstreamReleased
<1>1. Inductive => UpstreamReleased
  BY DEF Inductive, UpstreamReleased
<1>2. QED  BY <1>1, DownloadInductive, PTL

\* The server hands a chunk on only while the outcome is still open.
THEOREM DownloadNothingSentAfterRecord == Spec => NothingSentAfterRecord
<1>1. Inductive /\ [Next]_vars => [sent' # sent => log = <<>>]_vars
  <2> SUFFICES ASSUME Inductive, Next, sent' # sent PROVE log = <<>>
    BY DEF vars
  <2>1. CASE SendChunk
    BY <2>1 DEF SendChunk, Inductive
  <2>2. CASE \/ AuthorizationDenied \/ OpenFails \/ OpenRaises \/ Opened
             \/ StartResponse \/ NextChunk \/ Abandon
    BY <2>2 DEF AuthorizationDenied, OpenFails, OpenRaises, Opened, StartResponse, NextChunk, Abandon
  <2>3. CASE YieldChunk \/ Oversized \/ UpstreamBreaks \/ UpstreamEnds
    BY <2>3 DEF YieldChunk, Oversized, UpstreamBreaks, UpstreamEnds, GeneratorEnds
  <2>4. CASE BackgroundTask \/ Finalizer \/ Disconnect \/ CollectGenerator
    BY <2>4 DEF BackgroundTask, Finalizer, Disconnect, CollectGenerator
  <2>5. QED  BY <2>1, <2>2, <2>3, <2>4 DEF Next, Progress
<1>2. QED  BY <1>1, DownloadInductive, PTL DEF Spec, NothingSentAfterRecord
\* A download that is over without a record is one whose request to OpenBao raised
\* something download_snapshot does not catch: no response of OpenBao was ever
\* accepted and not a chunk went out to NetBox.
THEOREM UnrecordedSentNothing ==
  Spec => [](response = "done" /\ log = <<>> => generator = "none" /\ upstream # "open" /\ sent = 0)
<1>1. Inductive => (response = "done" /\ log = <<>> => generator = "none" /\ upstream # "open" /\ sent = 0)
  BY DEF Inductive
<1>2. QED  BY <1>1, DownloadInductive, PTL

\* Once a download is on record it has no second record, and nothing more is read
\* from OpenBao or sent to NetBox for it.
RecordIsFinal ==
    log # <<>> => log' = log /\ observed' = observed /\ sent' = sent /\ upstream' # "open"

\* Of the generator, the background task, the finalizer and the collector, whoever
\* comes after the first leaves its record as it is.
THEOREM DownloadRecordIsFinal == Spec => [][RecordIsFinal]_vars
<1>1. Inductive /\ [Next]_vars => [RecordIsFinal]_vars
  <2> SUFFICES ASSUME Inductive, Next, log # <<>> PROVE RecordIsFinal
    BY DEF RecordIsFinal
  <2>1. upstream # "open" /\ generator # "running" /\ response \notin {"opening", "starting", "streaming"}
    BY DEF Inductive
  <2>2. BackgroundTask \/ Finalizer \/ Disconnect \/ CollectGenerator
    BY <2>1 DEF Next, Progress, AuthorizationDenied, OpenFails, OpenRaises, Opened, YieldChunk, Oversized,
                UpstreamBreaks, UpstreamEnds, StartResponse, NextChunk, SendChunk, Abandon
  <2>3. CASE BackgroundTask \/ Finalizer
    BY <2>1, <2>3 DEF BackgroundTask, Finalizer, ClosePendingStream, RecordIsFinal
  <2>4. CASE Disconnect
    BY <2>1, <2>4 DEF Disconnect, RecordIsFinal
  <2>5. CASE CollectGenerator
    BY <2>1, <2>5 DEF CollectGenerator, RecordStream, RecordIsFinal
  <2>6. QED  BY <2>2, <2>3, <2>4, <2>5
<1>2. QED  BY <1>1, DownloadInductive, PTL DEF Spec
=============================================================================
