# A formal model of netbox-openbao-broker

The broker stands between NetBox and OpenBao. NetBox asks over mutual TLS; the
broker decides whether that instance may ask, uses the credential only it
holds, records the outcome and answers. This directory models the parts of the
broker in which order, failure and sharing matter, checks them with TLC on
small instances and proves the main results with TLAPS for every instance.
Line numbers refer to `src/broker/` at the commit of this repository.

## The system

| Component | State it keeps | Operations | Hard part | What makes it correct |
| --- | --- | --- | --- | --- |
| OpenBao session (`vault.py` `_get`, `_login`, `invalidate`, `_translate`) | `_client`, `_lock` | log in on demand, hand out, drop, turn errors into outcomes | threads sharing one client and one non-reentrant lock; tokens dying in use | one login at a time and none without need; a refused client is not used again; every request leaves |
| Request pipeline (`app.py`) | none of its own; thread pool of the framework | identify, validate, authorize, run, record, answer | order of refusals; handlers and dependencies on one bounded pool; unforeseen exceptions | refusal before contact; exactly one record, before and in agreement with the answer; every request answered |
| Administration transport (`vault.py` `_administration_request`, `_administration_json`) | none | one HTTP request to OpenBao, bounded answer | lost and late answers to mutations; retries | "error" and "ok" can be believed; "unknown" heeded means applied at most once |
| Snapshot download (`app.py`, `vault.py` `SnapshotDownload`) | OpenBao's open response, `terminal["recorded"]` | open, stream, record, clean up | generator, background task and finalizer race to record; client hangs up; OpenBao breaks off | one truthful record; no connection leaked |
| Snapshot restore (`app.py`, `vault.py`) | the spool | upload, check size, send once | interrupted uploads; full `/tmp`; lost answer | only whole uploads reach OpenBao; the record is honest |
| KV operations (`vault.py` 255-332) | none; versions live in OpenBao | read, write with CAS, delete versions, destroy, metadata | overlapping writers; lost answers; stale version numbers; empty version list | a writer is told its own version; check-and-set protects a write sent twice; 404 and 409 mean nothing was done; reads are current |
| Mounted and reviewed operations (`vault.py` 531-726) | none | choose method, token and mutation flag; check against OpenBao's OpenAPI document, then send | document and request are two calls; flags and tokens decided per path | an error changed nothing; what is served is what was advertised; the right token goes |
| OpenAPI values (`vault.py` 728-916) | none | recursive validation | composition, bounds | accepts only what the schema admits |
| Administration contract (`administration.py`) | a closed registry and its digest | look up, validate arguments | registry entries without argument lists | refusal is always a `ValueError` |
| Path policy and configuration (`config.py`) | `BrokerConfig`, immutable | normalize and compare paths, load | prefix against segment boundary | exactly what is declared is permitted |
| Caller identity, TLS scope (`identity.py`, `tls_scope.py`) | certificate of a connection | attach to each request, map to an instance | keep-alive | every request attributed to its own connection |
| Startup (`__main__.py`) | none | checks before the socket opens | order of checks | nothing served without TLS and readable credentials |
| Telemetry privacy (`telemetry.py`) | processors of a provider | attach once | repeated application factories | no raw record exported, whatever the environment and the application configure |
| Audit sink (`audit.py`) | a logging handler | write one line | none after set-up | one line per record |
| Release scripts (`scripts/`) | none | sequential checks | none | not part of the broker |

How they interact: the ASGI event loop parses a request and runs the `caller`
dependency on a pool thread; a synchronous handler gets a pool thread of its
own and calls `run`, which calls into the shared `VaultClient`; that takes the
session lock in `_get`, releases it, and talks to OpenBao. The two snapshot
routes do not follow this path: a download is a generator the event loop drives
through the pool, with a background task and a finalizer behind it; a restore
reads its upload on the event loop and only its last step goes through `run`.
Nothing is persisted, so a crash loses no state the broker would read again.

## Modules

| Module | What it models |
| --- | --- |
| `ClientCache` | Abstract: a cache in which making, caching and handing out a client is one step |
| `VaultSession` | `_get`, `_login`, `invalidate`, `_translate`, and every way a call on the client ends |
| `VaultSessionProofs` | its inductive invariant and its refinement of `ClientCache` |
| `AuditedService` | Abstract: one record per request, before an agreeing answer, denied means no contact |
| `Broker` | the request pipeline, composed with `VaultSession` |
| `BrokerProofs` | its inductive invariant, and its refinements of `VaultSession` and `AuditedService` |
| `KvStore`, `KvStoreProofs` | the six KV operations on one path, with OpenBao's engine as the environment |
| `AdminTransport`, `AdminTransportProofs` | what an administration report says about OpenBao |
| `AdminContract` | the registry, the argument checks and the reviewed paths |
| `OpenApiSchema` | the value check against OpenBao's schemas, beside a reference definition of what a schema admits |
| `AdminOperations`, `AdminOperationsProofs` | from an operation's arguments to what OpenBao does, composed of `AdminContract`, `OpenApiSchema` and `AdminTransport`; the proofs are also those of the schema check |
| `PathPolicy` | secret paths, prefixes and the configuration file, and what a path denotes once it is resolved |
| `Telemetry` | the privacy processors and the order of registration |
| `Admission`, `AdmissionProofs` | startup, connections, identity and authorization, composed of `PathPolicy` and `Telemetry` |
| `SnapshotDownload`, `SnapshotDownloadProofs` | the download route from authorization to finalizer |
| `SnapshotRestore`, `SnapshotRestoreProofs` | the upload, its spool and its one request |
| `SnapshotLimit`, `SnapshotRoutes` | the limit both routes share; a download and a restore under way in one process |
| `MC*` | the instances TLC checks |

### Correspondence to the code

**VaultSession.** `lock` and `client` are `_lock` and `_client`; clients are
numbered, so "the same client" and "a newer one" can be told apart. `pc` says
where a thread is: at the head of `_get`, in `_login`, in the call, or at the
head of `invalidate`. Handing out a cached client and dropping it are single
steps, because each is one critical section that touches nothing else; a login
is several, since OpenBao and the operator act meanwhile. A KV refusal goes
through `_translate` to `invalidate`; an administration refusal drops nothing
(521-529). A mounted operation goes through `_get` twice. `material` is what
OpenBao would make of the credential files, which are read again at each login.
The place `"relock"` is the code's own: `_login` calls `_translate` (160-163),
which calls `invalidate` (233), which waits for the lock `_get` holds.

**Broker.** `stage` is how far a request has come, `pool` the requests whose
handler holds a pool thread. A request is its route and the set of checks it
would fail; the guards say in which order the code looks at them, so a request
with several faults meets the first. `Deny`, `Conclude` and `ConcludeRun` are
`audit.record` together with the status the handler leaves with. The thread of
a request in `VaultSession` is the request itself. `caller` computes only, so
it needs a free pool thread but never keeps it across a step.

**KvStore.** `secret` is the sequence of versions of the path, each with its
writer; `era` counts how often the whole history was destroyed, which the code
cannot see: version numbers start again (a delete whose `versions` is missing or
empty, 284-294). A call is sent, served by OpenBao and answered in three steps,
and a call that was given up may still be served. `effect` is what it was served
with, `told` what the caller got and `record` what was audited. `before` is what
had been acknowledged when a request arrived. What `_translate` makes of an
error is `Translate` for an answer and `LostOutcome` for none. The client comes
from `VaultSession`; here `_get` either has one or not (`NoClient`).

**Admission.** `process` is how far `main()` has come; the configuration file,
the TLS files, the credentials and the telemetry settings the process finds are
chosen at the start. `ssl_object` is the attribute a connection's protocol
object keeps and `scope` what the scope setter gives each request. `Identify` is
`caller`, `Authorize` is `authorize` for paths and the check of the family for
administration. "Sent" is where `Broker` calls OpenBao.

**PathPolicy.** A path is a sequence of symbols: letters, slashes, dots, their
escapes, a backslash and a character outside printable ASCII. `Normal` and
`PermitsPath` are the code; `Resolved` is not: it is what a path comes to denote
when whoever is next decodes and follows it, which is what the docstring of
`normalize_path` is worried about. A path is resolved by a walk along its symbols
(`Walk`, a recursive function), one step of which is `Read`.

**Telemetry.** `pipe` is the list of processors of a provider. `Configure` is
both `configure_*_privacy` functions as `create_app` calls them; `Lifespan` is
FastAPI attaching exporters; `observed` collects which processor has seen what,
and whether it was redacted by then.

**AdminContract.** A JSON value is a record with its type; a path is a sequence
of segments and a row of a table says segment by segment what is allowed.
Character classes are sets of segments. `ContractOutcome` is "accepted",
"refused" (a `ValueError`) or "raised" (anything else). Strings of which only
the length or one verdict matters carry just that.

**OpenApiSchema.** A schema is a function from the keywords it has; one whose own
shape is wrong is one value, `malformed`. `Accepts` follows
`_validate_openapi_value` and what it calls, one level of a schema at a time;
the recursion of the code is the function `accepted` of the levels left, the
limit of the code being its start. `Admits` is read off the keywords one by one, each
with its say whatever stands beside it, except that an object has no field its
schema does not speak of. The two agree on `plain` schemas: the code ignores keywords beside `oneOf` and
`anyOf`, or beside a type they do not belong to, so `{"type": "integer",
"anyOf": [...]}` is read as its `anyOf` alone.

**AdminOperations.** Each request has slots in the transport: one for the
document, and one for its call, in the slot of reads or of mutations as the flag
says. The document is a snapshot of the mount table taken when OpenBao wrote it;
`Advertised` is everything `_execute_mounted_operation` asks of it before the
call is sent. Meanwhile other requests mount, move and unmount engines. Mount
paths that differ in "-" and "_" share a placeholder; which of them the
document's entry is about is OpenBao's choice (`Listings`).

**AdminTransport.** Each attempt has a fate of its own on the wire, so an
attempt whose answer was lost can still be applied after its report, and after
a later attempt was sent. `ReportInDoubt` is the `if mutation` that tells
`VaultMutationUnknown` from the other errors.

**SnapshotDownload.** Sizes are counted in chunks. The generator is created,
running on a pool thread, suspended at a `yield`, or finished; the response
passes through starting, streaming, background task and finalizer. The
background task and the finalizer run the same `close_pending_stream`, which is
a no-op once `terminal["recorded"]` is set. That the generator closes OpenBao's
response before the record is written is one step: nobody can come in between.

**SnapshotRestore.** `Spools(n)` says whether n chunks fit: in memory, or else
in `/tmp`. A write that finds the file system full fails at once or leaves its
last piece for the flush of `seek(0)`, which is outside the `try`.
`"interrupted"` stands for outcome `error` with reason "snapshot upload
interrupted"; it is kept apart because that reason makes a claim of its own.
The end of the request is in `record`, for which the download has `recorded`.

**SnapshotRoutes.** A download and a restore interleaved in every way. Neither
touches what the other keeps; the session they both begin with is `VaultSession`.

Each property and theorem is stated in words above its definition. The
definitions named as mutants in the modules are deliberate errors (a lock not
taken, a record written early, a forgotten `if`): each property of a passing
run is shown to fail when the definition it follows is replaced by one of them.

## Runs

| Run | Instance | Result |
| --- | --- | --- |
| `session` | 3 threads, 3 requests, all kinds, both authentication methods, 3 states of the material | holds: the inductive invariant, exclusive and bounded logins, refused clients dropped, refinement of `ClientCache`, requests end |
| `session_login_refused` | as above | **violated**: a refused login is never reported |
| `broker` | 2 requests over all 15 inputs, 1 pool thread | holds: the inductive invariant, session users occupy the pool, only permitted requests reach OpenBao, refinement of `AuditedService`, every request answered |
| `broker_unaudited` | 2 requests, 2 pool threads | **violated**: a request answered 500 without a record |
| `kv` | 3 requests of 10 kinds on one path | holds: writers told their version, check-and-set at most once, refused never applied, reads current, calls end |
| `admission` | 3 instances, 17 starts that must fail, every telemetry setting, 2 requests on 2 connections, 5 certificates, paths joined from 10 kinds of segments | holds: requests attributed to their client, exactly what is declared is sent, exports redacted |
| `transport` | 2 mutations and a read, 2 attempts each | holds: error, ok and unknown mean what they say; every attempt reported |
| `operations` | one request with any of about 90 arguments, another that changes mounts or writes meanwhile, 4 mount paths, 2 kinds of engines | holds: an error changed nothing, served as advertised, a listed path goes with the token its list says |
| `operations_token` | one request with any of the reviewed operations | **violated**: a reviewed operation on an MFA login enforcement goes without the broker's token |
| `snapshots` | a download and a restore at once; limit 4, real sizes 0 to 6, any declared size or none; 1 chunk in memory, 3 in `/tmp`, up to 2 chunks in excess | holds: one truthful record of a download, no leak, nothing sent after the record, every stream recorded; only whole uploads sent, honest record, record unless the spool had no room, a restore ends |
| `download_unaudited` | a download alone, limit 3, real sizes 0 to 5 | **violated**: a download that fails to open with an `OSError` has no record |
| `restore_compose` | a restore alone, limit 6, 2 chunks in memory, 2 in `/tmp` | **violated**: an upload within the limit is interrupted by the broker itself |

The bounds. Three threads are what a stale drop needs: one refused with an old
client, one that has made a new one, one that arrives and must make a third.
`MaxRequests` bounds behaviours and nothing else; a thread may take several.
One pool thread for two requests makes every wait for the pool and for the lock
happen, and the proofs cover other sizes. Two attempts are what a retry needs,
and two mutations with a read between them all interleavings of their fates.
Snapshot sizes reach two beyond the limit, on both sides of the declared size.
The sizes of the restore pass both limits of the spool: in memory, in `/tmp`,
and beyond both.

Three KV requests are what the hazards need: a writer, its competitor or retry,
and a delete or a reader that knows of one of them; `cas` is absent, zero or one
and a version list absent of effect (empty) or not. Any call may arrive after it
was given up. In `admission` one request takes every path once while another
overlaps; the prefixes "a", "a/b" and "ab" are textual prefixes of each other,
and the paths are every segment there is (a name, nothing, a dot, two dots, their
escapes, an escaped slash, a backslash) after every segment. Telemetry settings
vary with one request, since nothing in `Telemetry` depends on who asks. In
`operations` every argument list is there once for what makes it accepted and
once for each way of being refused or of raising; the settings operation has a
field for every keyword of a schema, each with values on both sides of it; the
second request unmounts, mounts, moves and writes, so that a document is outdated
in each way it can be. `MaxDepth` is 4 there instead of 8, and a tree deeper than
that is among the values.

Deadlock is checked for the session and the broker, whose environment can
always act. It is switched off where a model describes a fixed set of requests
and simply ends; that nobody waits for ever is there the liveness property.

### Fairness

`VaultSession` and `Broker` assume weak fairness of each thread or request as a
whole: the operating system runs a thread that can run, and every wait for
OpenBao is bounded by hvac's `timeout=30`. Nothing says who gets a free lock or
pool thread, so nothing strong is assumed; that every request still ends rests
on there being finitely many. The transport and the restore get weak fairness
for what follows their own timeouts and none for OpenBao, the caller or the
uploading client. The KV calls get weak fairness for the broker's half alone: an answer, a refusal
or a timeout; a call that OpenBao never serves still ends. `Admission` and
`AdminOperations` state safety only. In a download the server's steps are fair and nobody is made
to disconnect or to collect a generator. `RoutesSpec` keeps the fairness of each
route, whatever the other does.

`RequestsEnd` and `EveryRequestAnswered` allow one exception, stated in them:
they say nothing once some thread is at `"relock"`. Up to that point they hold,
and the exception is the subject of the first finding.

## Findings

1. **A refused AppRole login blocks the broker.** The comment at `vault.py`
   230-232 says it is "logged locally and reported as a bare failure". The
   refusal reaches `_translate` inside `_get`'s critical section, and
   `self.invalidate()` (233) waits for the lock its own thread holds. The
   request is never answered, and neither is any later one that needs the
   session (`RefusedLoginReported`).
2. **A 500 without a record.** `app.py` 9-16 has every request audited. An
   administration request naming `download_raft_snapshot` or
   `restore_raft_snapshot`, which are in the registry but have no argument
   list, raises `KeyError` in `validate_arguments` (`administration.py` 293),
   and only `ValueError` is caught at `app.py` 429 (`EveryRequestAudited`).
3. **A download that fails to open without a record.** `run` catches everything
   so that "every request is audited" (`app.py` 294-296). `download_snapshot`
   catches only `VaultError` (488), and `requests` raises a plain `OSError`
   when the CA bundle has gone (`DownloadAudited`).
4. **The compose file cannot take the documented upload.** `docs/deployment.md`
   201-203 promises uploads up to 512 MiB. `deploy/docker-compose.yml` 49 gives
   `/tmp` 8 MiB, just what the spool keeps in memory, so a larger upload is
   interrupted although the client sent all of it (`OnlyHangUpInterrupts`).
5. **Reviewed operations sent without a token.** `administration.py` lists the
   paths that go without a token (`_UNAUTHENTICATED_PATHS`, 463-467). The
   operations on `/identity/mfa/login-enforcement` are reviewed (448-452) and not
   on that list. `_is_unauthenticated_auth_path` does not read the list: it looks
   for "/login" anywhere in the path (`vault.py` 922), so these operations go
   without a token and OpenBao can only refuse them (`BrokersTokenElsewhere`).
   The same test, and the one for "-self", reach any path with a segment that
   begins with "login" (a mount called `login-x`) and any whose last segment ends in
   "-self".

Where a property of a passing run would fail for one of these reasons, its
statement names the exception: requests that raise (`Audited`), downloads that
never came to a stream (`StreamRecordedOnce`), uploads that do not fit
(`RestoreRecorded`: when `/tmp` is full, the flush of `seek(0)`, `app.py` 605,
raises outside the `try` and the request ends without a record). `TokenAsListed`
needs none: it is about the paths of the two lists, and the fifth finding is about
the others.

## Proofs

All theorems hold for every value of the constants allowed by the named
assumptions of each module: any number of threads, requests, operations,
attempts, pool threads, and any sizes and limits.

* **Session.** `Inductive` is needed because mutual exclusion alone says nothing
  of the cache: it adds that nothing is cached while the lock is held, that the
  cached client is the newest, that clients made never exceed drops by more
  than the cached one, and that a thread that ended refused holds another
  client than the cached one. From it: `LoginsExclusive`, `LoginsBounded`,
  `RefusedClientDropped`, and the refinement of `ClientCache`, where a granted
  login is the abstract `Create` because the invariant has the cache empty.
  `RefusedLoginBlocks` is the first finding for any number of threads: from a
  refused login on, the lock, the empty cache and everyone who waits stay as they are.
  `DeadClientKept` says what removes a cached client, alive or dead: an invalidation by
  a KV request that was refused, and nothing else (`OnlyKvDrops`).
* **Broker.** `SessionMoves` shows each pipeline step to be a session step or a
  stutter (`BrokerRunsSession`), so the session's invariant carries over by
  instantiating its proofs. `Tracked` relates a request's stage to the checks
  it has passed, its pool thread, its contact with OpenBao and its record. Each
  action is one lemma; `Bystander` disposes of the other requests. That no
  request with a fault passes all the checks of its route needs
  `InputsAssumption`: a request has only faults its route can have. The
  refinement of `AuditedService` follows action by action: `Conclude` is
  `Record`, `BeginRun` and `RunUnauthenticated` are `Contact`.
  `BrokerSessionSafe` restates the session's safety for the session as it is driven
  here, and `RefusedLoginKeepsThread` what the first finding costs: each request
  that comes to wait for the session keeps a pool thread for ever.
  `BrokerReachedIsRecorded` bounds the second finding: a request that reached OpenBao
  is answered only with a record of it that the status agrees with, and the answers without
  a record are those to health probes and to arguments that raise. It needs, besides
  `Inductive`, that nothing that reached OpenBao is recorded as denied
  (`DeniedReachedNothing`). `BrokerRecordIsLast` is an action property: once a
  request is recorded, no step changes its record or status, and VaultClient is not
  called for it again.
* **KvStore.** `Distinct` says that two writes that were served differ in their
  era or version, `Stored` that every effect is within the history it belongs to
  and that a confirmed deletion stays, `Current` relates a reader's effect to
  those it knew of. None is about the answers; `Handled` ties these to the
  effects, and the four properties are consequences. Two more are proved that no run
  checks: a reader gets the data of the write that made the version it is
  told (`ReadersGetWrittenData`), and no applied write is overwritten
  (`WritesSurvive`). Both need that every version there is, and every version served,
  has a write of its own as its author (`Versions`, `Authors`), which stands because
  a call that has been served is served once (`ServedOnce`).
* **Admission.** A connection keeps the certificate of its handshake, a request
  that of its connection, and there is a client certificate because the process
  serves only with all TLS files. For telemetry, `Private` says that once the
  app is created every SDK provider that something will be attached to has its
  privacy processor, which needs `EnvironmentExport` to foresee exactly the
  providers FastAPI will make. The theorem is about a processor appended behind
  it at any time.
* **What is sent.** `SendsWhatIsDeclared` needs `Admitted`: while the process
  serves, the policies in use are those `load_config` makes of the file, and every
  decision is what they grant the name the client showed. The rest is
  about paths. Along a normal path the walk never goes back, so what has been
  read at a slash spells the path up to there (`Spelled`); two normal paths then
  resolve one to a prefix of the other exactly when their spellings do, and that
  is the rule of `permits` (`PrefixRuleExact`, `PermitsDeclared`). `Walk` is shown
  to be the function its recursion describes, and each fact about its
  steps follows because the set of steps at which it fails has no least element.
  `NormalStaysInside` and `OneSpelling` are the promise of `normalize_path`: a normal
  path leads nowhere but along its own segments, and no other normal path leads
  there; `SentPathsUnambiguous` says it of what is sent.
  Assumed: a letter is none of the special symbols (`LettersAssumption`), and no
  instance is called by the value that stands for "no name" (`StartsAssumption`).
* **Operations.** `Tracked` says that a call is in the slot its flag asks for,
  that the contract accepted it and, for a mounted operation, that a document
  advertised it; `AdminTransport`'s own invariant and step lemmas are used by
  instance. `ErrorMeansUnchanged` then needs that no method but GET goes in the
  slot of reads, which takes `AccessPaths` to `AuthPaths` row by row.
  `ServedByItsMount` rests on OpenBao nesting no mounts: of two mounted paths
  only one can be a prefix of the path. `ServedAsAdvertised` follows the template
  of the checked operation to the path that was sent, and takes what the arguments
  may be from the schema check. `OperationsUseTransport` needs no invariant:
  each step submits, transports or concludes one call of the transport, or
  leaves all of them alone.
  `FamiliesApart` places each row of the four tables by its first segments
  (`AccessRows`, `FinalRows`, `EngineRows`, `AuthenticationRows`): but for
  `sys/remount`, no path belongs to two families. `OwnTokenNeverStandsIn` (`TokenAsListed`)
  needs the same places, and besides: a path of the two lists is one of the
  authentication family and passes the substring test (`LoginsAreTaken`), the lists
  are apart (`ListsApart`), and no other family has an argument called token
  (`TokenKeys`). `LoginEnforcementsLoseToken` is the fifth finding for every
  operation on a login enforcement, whatever it is called. `OkWasServed` needs
  that a mounted call is applied by an engine alone (`Delivered`).
* **Schema check.** `SchemaCheckExact`: on plain schemas the check and the reference
  agree, for any document, any values and any limit on the depth. One level is by cases:
  a null that is allowed, a `oneOf` or `anyOf` alone, and each type with its
  keywords (`StepAgrees`); to count one match is to have exactly one
  (`ExactlyOne`). The levels follow by induction, in which plain parts are what
  makes the agreement below usable above. `SchemasAssumption` and
  `ValuesAssumption` say that schemas and values are closed under their parts and
  have the fields of their type. The theorem says nothing of schemas that are not plain, and
  `ServedAsAdvertised` excepts their values.
* **Transport.** `Tracked` follows the attempt under way and says of every
  earlier attempt at a mutation that it was rejected or never sent: a caller
  only tries again after an "error".
* **Download.** The invariant ties OpenBao's response to the record (open only
  while nothing is recorded) and the generator to the response, and says that
  an "ok" was recorded by a generator all of whose chunks had been taken;
  `NothingSentAfterRecord` is an action property proved from it, and so is
  `DownloadRecordIsFinal`: whichever of generator, background task, finalizer and
  collector records the end, the others leave the record as it is.
  `UnrecordedSentNothing` bounds the third finding: a download without a record never had
  a response of OpenBao, and sent nothing.
* **Restore.** `RestoreInvariant` says that what was sent had the declared size and
  that each record agrees with the fate of the request; `RestoreRecordIsLast` is an
  action property proved from it. `LargeUploadsNeverSent` is the fourth finding for
  every size: under `TmpSpace <= MemoryLimit`, which is what the compose file sets,
  nothing larger than the memory limit is ever sent.

Only model-checked: all liveness (`RequestsEnd`, `EveryRequestAnswered`,
`EveryAttemptReported`, `StreamEventuallyRecorded`, `RestoreEnds`, `CallsEnd`),
which is beyond the prover, and the findings, each of which is one
counterexample. Every safety property that a passing run checks is a theorem.

## Not modelled

Inside the modelled components: audit text, log lines, header values and JSON
encoding; hvac's and requests' inner workings, of which only the outcomes the
code can observe are modelled; the health route's own client, which touches
neither lock nor record; the limit of 500 characters on a path.

* Configuration: `path_prefixes` written as one string instead of a list is
  taken character by character (`config.py` 190), which a model of lists cannot
  say. A file that is no TOML is a traceback ("raises") rather than a message.
* Telemetry: a second `create_app` on the same provider, for which the weak sets
  are there; an application that replaces the global provider after `create_app`
  (see the hazard at `telemetry.py` 50).
* KV: that version numbers start again when a history is destroyed is modelled,
  and no property forbids it: `CheckAndSetOnce` counts within one history.
* Contract: the limits on depth, items, strings and bytes are one flag of a
  request. The document that is advertised and its digest are constants of the
  program. Names that are registered but not implemented are refused like unknown
  ones.
* Transport: an answer whose JSON is nested so deeply that `json.loads` raises
  `RecursionError`. `_administration_json` catches `TypeError` and `ValueError`
  (435-440), so the request would end in `run` as an unforeseen exception, not
  with the report the transport gives; `ReportsTrue` and `AppliedAtMostOnce` say
  nothing of such an answer.
* Operations: a mount that changes between the document and the call is modelled,
  but excepted in `ServedAsAdvertised`: what is advertised can only be what was
  mounted when the document was written. Also left out: OpenBao's own rules for
  which of two sibling templates, one literal and one with a parameter, a path is
  routed to; the properties allow either. A GET that issues something counts as a read, as in the code.
* Values: floats are compared as the integers they equal; dates and UUIDs are
  known by whether they parse. An alternative of `oneOf` that is too deep or
  malformed counts as no match, as in the code (807).
* A crash of the process: nothing is persisted, and nothing read at start depends
  on an earlier run.
* The release scripts (`scripts/`): sequential checks of one input each, run by a
  release workflow and apart from the broker; no state, no interleaving.
