-------------------------- MODULE SnapshotDownload --------------------------
(***************************************************************************)
(* GET /v1/administration/snapshot: a Raft snapshot streamed from OpenBao  *)
(* through the broker to NetBox.  The answer begins long before its        *)
(* outcome is known, so the one audit record is written by whoever sees    *)
(* the end of it first: the generator `stream`, the background task, or    *)
(* the finalizer that FinalizedStreamingResponse runs in every case.       *)
(*                                                                         *)
(* The generator runs on a pool thread one chunk at a time; a cancelled    *)
(* response waits for the chunk in hand.  OpenBao's response, the ASGI     *)
(* server and the NetBox connection are external.                          *)
(***************************************************************************)
EXTENDS SnapshotLimit, Sequences

CONSTANTS
    SnapshotSizes,  \* the sizes OpenBao's snapshot may really have
    Undeclared      \* no Content-Length

ASSUME SizesAssumption == SnapshotSizes \subseteq Nat
ASSUME UndeclaredAssumption == Undeclared \notin Nat

VARIABLES
    size,        \* the size of the snapshot OpenBao sends, if nothing breaks
    declared,    \* declared_size, once the response is accepted
    upstream,    \* the response of OpenBao: "none", "open" or "closed"
    generator,   \* "none", "created", "suspended", "running" or "finished"
    observed,    \* chunks the generator has read
    sent,        \* chunks the ASGI server has taken
    response,    \* how far the ASGI response is
    connected,   \* NetBox is still there
    log          \* the audit records

vars == <<size, declared, upstream, generator, observed, sent, response, connected, log>>

Responses == {"opening", "starting", "streaming", "background", "finalizing", "done"}

TypeOK ==
    /\ size \in SnapshotSizes
    /\ declared \in Nat \union {Undeclared}
    /\ upstream \in {"none", "open", "closed"}
    /\ generator \in {"none", "created", "suspended", "running", "finished"}
    /\ observed \in Nat
    /\ sent \in Nat
    /\ response \in Responses
    /\ connected \in BOOLEAN
    /\ log \in {<<>>, <<"ok">>, <<"error">>, <<"denied">>}

Init ==
    /\ size \in SnapshotSizes
    /\ declared = Undeclared
    /\ upstream = "none"
    /\ generator = "none"
    /\ observed = 0 /\ sent = 0
    /\ response = "opening"
    /\ connected = TRUE
    /\ log = <<>>

\* terminal["recorded"] lets the first record through.  Mutant: it is never set.
RecordEveryTime(outcome) == log' = Append(log, outcome)
RecordStream(outcome) == log' = IF log = <<>> THEN <<outcome>> ELSE log

-----------------------------------------------------------------------------
(* authorize_snapshot, then download_raft_snapshot: the request to OpenBao *)

\* A stale contract digest, or an instance without the cluster family.
AuthorizationDenied ==
    /\ response = "opening"
    /\ log' = <<"denied">>
    /\ response' = "done"
    /\ UNCHANGED <<size, declared, upstream, generator, observed, sent, connected>>

\* A VaultError of any kind: no token, no answer, a refusal, a redirect, an
\* encoded or oversized body.  Every one of them closes the response.
OpenFails ==
    /\ response = "opening"
    /\ upstream' \in {"none", "closed"}
    /\ log' = <<"error">>
    /\ response' = "done"
    /\ UNCHANGED <<size, declared, generator, observed, sent, connected>>

\* requests raises an OSError when the configured CA bundle is gone: neither a
\* RequestException nor a VaultError, so no one records it.
OpenRaises ==
    /\ response = "opening"
    /\ response' = "done"
    /\ UNCHANGED <<size, declared, upstream, generator, observed, sent, connected, log>>

\* The declared size is OpenBao's word: right, wrong or missing.
Opened ==
    /\ response = "opening"
    /\ declared' \in (1..MaxSize) \union {Undeclared}
    /\ upstream' = "open"
    /\ generator' = "created"
    /\ response' = "starting"
    /\ UNCHANGED <<size, observed, sent, connected, log>>

-----------------------------------------------------------------------------
(* the generator, on its pool thread *)

\* The ways stream() ends.
GeneratorEnds(outcome) ==
    /\ upstream' = "closed"
    /\ generator' = "finished"
    /\ RecordStream(outcome)
    /\ response' = IF outcome = "ok" /\ response = "streaming" THEN "background"
                   ELSE "finalizing"
    /\ UNCHANGED <<size, declared, sent, connected>>

\* Mutant: the record is written when the last chunk is read, not when the
\* generator is asked for another.
YieldChunkRecorded ==
    /\ generator = "running"
    /\ observed < size /\ observed < MaxSize
    /\ observed' = observed + 1
    /\ generator' = "suspended"
    /\ log' = IF declared = observed' THEN <<"ok">> ELSE log
    /\ UNCHANGED <<size, declared, upstream, sent, response, connected>>

YieldChunk ==
    /\ generator = "running"
    /\ observed < size /\ observed < MaxSize
    /\ observed' = observed + 1
    /\ generator' = "suspended"
    /\ UNCHANGED <<size, declared, upstream, sent, response, connected, log>>

Oversized ==
    /\ generator = "running"
    /\ observed < size /\ observed = MaxSize
    /\ observed' = observed + 1
    /\ GeneratorEnds("error")

\* RequestException, or anything else out of iter_content.
UpstreamBreaks ==
    /\ generator = "running"
    /\ GeneratorEnds("error")
    /\ UNCHANGED observed

\* OpenBao's body is over, whole or cut short without an error.  Mutant: the
\* chunks are not counted against the declared size.
NotEmpty == observed > 0
Complete == observed > 0 /\ declared \in {observed, Undeclared}

UpstreamEnds ==
    /\ generator = "running"
    /\ GeneratorEnds(IF Complete THEN "ok" ELSE "error")
    /\ UNCHANGED observed

-----------------------------------------------------------------------------
(* the ASGI server *)

\* http.response.start went out, or could not.
StartResponse ==
    /\ response = "starting"
    /\ response' = IF connected THEN "streaming" ELSE "finalizing"
    /\ UNCHANGED <<size, declared, upstream, generator, observed, sent, connected, log>>

\* The previous chunk is out: ask the generator for the next.
NextChunk ==
    /\ response = "streaming"
    /\ connected
    /\ \/ generator = "created"
       \/ generator = "suspended" /\ sent = observed
    /\ generator' = "running"
    /\ UNCHANGED <<size, declared, upstream, observed, sent, response, connected, log>>

\* The server takes no more than the declared Content-Length.
SendChunk ==
    /\ response = "streaming"
    /\ connected
    /\ generator = "suspended" /\ sent < observed
    /\ IF declared = Undeclared \/ observed <= declared
       THEN sent' = observed /\ response' = response
       ELSE sent' = sent /\ response' = "finalizing"
    /\ UNCHANGED <<size, declared, upstream, generator, observed, connected, log>>

Disconnect ==
    /\ connected
    /\ response # "done"
    /\ connected' = FALSE
    /\ UNCHANGED <<size, declared, upstream, generator, observed, sent, response, log>>

\* The server notices that NetBox is gone: the response is cancelled, or its
\* send fails, between two chunks.  A cancelled response still gets its
\* background task; a failed one does not.
Abandon ==
    /\ response = "streaming"
    /\ ~connected
    /\ generator # "running"
    /\ response' \in {"background", "finalizing"}
    /\ UNCHANGED <<size, declared, upstream, generator, observed, sent, connected, log>>

\* close_pending_stream, once the stream has been recorded a no-op.
ClosePendingStream ==
    IF log = <<>>
    THEN upstream' = "closed" /\ RecordStream("error")
    ELSE UNCHANGED <<upstream, log>>

BackgroundTask ==
    /\ response = "background"
    /\ ClosePendingStream
    /\ response' = "finalizing"
    /\ UNCHANGED <<size, declared, generator, observed, sent, connected>>

\* Mutant: a plain StreamingResponse has no finalizer.
NoFinalizer ==
    /\ response = "finalizing"
    /\ response' = "done"
    /\ UNCHANGED <<size, declared, upstream, generator, observed, sent, connected, log>>

Finalizer ==
    /\ response = "finalizing"
    /\ ClosePendingStream
    /\ response' = "done"
    /\ UNCHANGED <<size, declared, generator, observed, sent, connected>>

\* An abandoned generator is collected: GeneratorExit at its yield closes the
\* response and tries to record; one that never started just vanishes.
CollectGenerator ==
    /\ response \in {"finalizing", "done"}
    /\ generator \in {"created", "suspended"}
    /\ generator' = "finished"
    /\ IF generator = "suspended"
       THEN upstream' = "closed" /\ RecordStream("error")
       ELSE UNCHANGED <<upstream, log>>
    /\ UNCHANGED <<size, declared, observed, sent, response, connected>>

-----------------------------------------------------------------------------
Progress ==
    \/ AuthorizationDenied \/ OpenFails \/ OpenRaises \/ Opened
    \/ YieldChunk \/ Oversized \/ UpstreamBreaks \/ UpstreamEnds
    \/ StartResponse \/ NextChunk \/ SendChunk \/ Abandon
    \/ BackgroundTask \/ Finalizer

Next == Progress \/ Disconnect \/ CollectGenerator

Spec == Init /\ [][Next]_vars

\* Reads and sends time out, pool threads run, the event loop runs.  When the
\* interpreter collects a generator is not promised, nor does anyone disconnect.
FairSpec == Spec /\ WF_vars(Progress)

-----------------------------------------------------------------------------
(* Properties *)

\* What makes the others inductive: OpenBao's response is open only while
\* nothing is recorded, a running generator belongs to a response that waits for
\* it, and "ok" is recorded by a generator whose every chunk was taken.
Inductive ==
    /\ TypeOK
    /\ upstream = "open" => log = <<>>
    /\ response = "opening" => generator = "none" /\ upstream = "none" /\ log = <<>>
    /\ response \in {"starting", "streaming"} => log = <<>>
    /\ response = "done" => upstream # "open" /\ (log # <<>> \/ generator = "none")
    /\ generator = "running" => response = "streaming" /\ sent = observed
    /\ generator \in {"none", "created"} => observed = 0 /\ sent = 0
    /\ sent <= observed
    /\ log = <<"ok">> => Complete /\ sent = observed
    /\ observed > MaxSize => log = <<"error">>

\* However a stream ends (it completes, OpenBao breaks off, NetBox hangs up
\* before, during or after it, the server fails to start it) there is exactly
\* one audit record when the request is over.
StreamRecordedOnce ==
    Len(log) <= 1 /\ (response = "done" /\ generator # "none" => Len(log) = 1)

\* "Every request is audited", one that never came to a stream included.
DownloadAudited == response = "done" => log # <<>>

\* "ok" is recorded only for a snapshot that was not empty, within the limit,
\* as long as declared, and whose every chunk went out to NetBox.
OkMeansComplete ==
    log = <<"ok">> =>
        /\ observed \in 1..MaxSize
        /\ declared \in {observed, Undeclared}
        /\ sent = observed

\* No connection to OpenBao outlives the request, even when the generator that
\* owns it was never started or is never collected.
UpstreamReleased == response = "done" => upstream # "open"

\* Nothing is sent to NetBox once the outcome is on record.
NothingSentAfterRecord == [][sent' # sent => log = <<>>]_vars

\* Every stream is recorded in the end, whatever OpenBao and NetBox do.
StreamEventuallyRecorded == (response = "starting") ~> (log # <<>>)
=============================================================================
