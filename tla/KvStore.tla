------------------------------- MODULE KvStore -------------------------------
(***************************************************************************)
(* The KV operations of the broker (broker/vault.py, read ... set_metadata *)
(* and list_versions; the routes of broker/app.py that call them) on one   *)
(* path of a KV version 2 mount, while requests overlap and answers get    *)
(* lost.  OpenBao's KV engine is external; its versions, check-and-set and *)
(* deletions are modelled as far as the broker's calls use them.           *)
(*                                                                         *)
(* A request is "waiting" from the moment its call is sent, with the       *)
(* client that VaultSession's _get handed it, and "told" once run() has    *)
(* recorded it and the caller has its answer.  A call that was given up    *)
(* may still reach OpenBao.  The data a request writes is represented by   *)
(* its number.                                                             *)
(***************************************************************************)
EXTENDS Naturals, Sequences

CONSTANTS
    Requests,     \* the requests that arrive
    Omitted,      \* an optional field left out of a request
    MaxRequests   \* bound: requests in one behaviour

Numbers == 1..MaxRequests

RequestType == [op: {"read", "write", "delete", "versions", "metadata_read", "metadata_write"},
                version: Nat \union {Omitted},
                cas: Nat \union {Omitted},
                versions: (SUBSET Nat) \union {Omitted}]

ASSUME OmittedAssumption == Omitted \notin Nat
ASSUME RequestsAssumption == Requests \subseteq RequestType
ASSUME MaxRequestsAssumption == MaxRequests \in Nat

VARIABLES
    era,     \* how often the path's whole history has been destroyed
    secret,  \* its versions since then: who wrote each, and whether it is deleted
    custom,  \* who wrote its custom metadata, 0 for nobody
    stage,   \* where each request is
    req,     \* what it asks for
    before,  \* the requests that had been answered "ok" when it arrived
    wire,    \* what became of its call at OpenBao
    effect,  \* the era, version and author its call was served with
    told,    \* the caller's answer
    record   \* the audit record: outcome and version

bao == <<era, secret, custom>>
vars == <<bao, stage, req, before, wire, effect, told, record>>

Served == [era: Nat, version: Nat, by: Nat]
NotServed == [era |-> 0, version |-> 0, by |-> 0]
Refusals == {"missing", "mismatch", "rejected"}
Fates == {"unsent", "pending", "done"} \union Refusals
Outcomes == {"none", "ok", "not_found", "conflict", "error"}

TypeOK ==
    /\ era \in Nat
    /\ secret \in Seq([by: Nat, deleted: BOOLEAN])
    /\ custom \in Nat
    /\ stage \in [Numbers -> {"unused", "waiting", "told"}]
    /\ req \in [Numbers -> RequestType]
    /\ before \in [Numbers -> SUBSET Numbers]
    /\ wire \in [Numbers -> Fates]
    /\ effect \in [Numbers -> Served]
    /\ told \in [Numbers -> [outcome: Outcomes, era: Nat, version: Nat, by: Nat]]
    /\ record \in [Numbers -> [outcome: {"none", "ok", "error"}, version: Nat \union {Omitted}]]

NoRequest == [op |-> "read", version |-> Omitted, cas |-> Omitted, versions |-> Omitted]

Init ==
    /\ era = 0 /\ secret = <<>> /\ custom = 0
    /\ stage = [n \in Numbers |-> "unused"]
    /\ req = [n \in Numbers |-> NoRequest]
    /\ before = [n \in Numbers |-> {}]
    /\ wire = [n \in Numbers |-> "unsent"]
    /\ effect = [n \in Numbers |-> NotServed]
    /\ told = [n \in Numbers |-> [outcome |-> "none", era |-> 0, version |-> 0, by |-> 0]]
    /\ record = [n \in Numbers |-> [outcome |-> "none", version |-> Omitted]]

-----------------------------------------------------------------------------
(* The broker's half *)

Goto(n, s) == stage' = [stage EXCEPT ![n] = s]

Arrive(n, r) ==
    /\ stage[n] = "unused"
    /\ \A m \in Numbers : m < n => stage[m] # "unused"
    /\ req' = [req EXCEPT ![n] = r]
    /\ before' = [before EXCEPT ![n] = {m \in Numbers : told[m].outcome = "ok"}]
    /\ UNCHANGED <<bao, effect>>

Send(n, r) ==
    /\ Arrive(n, r)
    /\ Goto(n, "waiting")
    /\ wire' = [wire EXCEPT ![n] = "pending"]
    /\ UNCHANGED <<told, record>>

\* run() records every VaultError as "error"; the status tells the caller more.
\* A read is recorded with the version it asked for.
Tell(n, outcome, version) ==
    /\ Goto(n, "told")
    /\ told' = [told EXCEPT ![n].outcome = outcome]
    /\ record' = [record EXCEPT ![n] = [outcome |-> "error", version |-> version]]

\* _get has no client to offer.
NoClient(n, r) == Arrive(n, r) /\ Tell(n, "error", r.version) /\ UNCHANGED wire

Fail(n, outcome) == /\ Tell(n, outcome, req[n].version)
                    /\ UNCHANGED <<bao, req, before, wire, effect>>

\* list_versions: the numbers of the versions, the newest first.
\* Mutant: the listing is left in OpenBao's order.
OldestFirst(length) == [i \in 1..length |-> i]
Listing(length) == [i \in 1..length |-> length + 1 - i]

\* The version an answer names.  Mutant: looked up when the answer is in.
VersionLookedUp(n) == Len(secret)
VersionAnswered(n) == IF req[n].op = "versions" /\ effect[n].version > 0
                      THEN Listing(effect[n].version)[1]
                      ELSE effect[n].version

\* version_from_result: only a write learns its version from the answer.
VersionRecorded(n) == IF req[n].op = "write" THEN VersionAnswered(n) ELSE req[n].version

AnswerOk(n) ==
    /\ stage[n] = "waiting"
    /\ wire[n] = "done"
    /\ Goto(n, "told")
    /\ told' = [told EXCEPT ![n] = [outcome |-> "ok", era |-> effect[n].era,
                                    version |-> VersionAnswered(n), by |-> effect[n].by]]
    /\ record' = [record EXCEPT ![n] = [outcome |-> "ok", version |-> VersionRecorded(n)]]
    /\ UNCHANGED <<bao, req, before, wire, effect>>

\* _translate
Translate(refusal) == IF refusal = "missing" THEN "not_found"
                      ELSE IF refusal = "mismatch" THEN "conflict" ELSE "error"

AnswerRefused(n) ==
    /\ stage[n] = "waiting"
    /\ wire[n] \in Refusals
    /\ Fail(n, Translate(wire[n]))

\* A timeout, a broken connection, a 5xx or an answer without the expected
\* fields.  Mutant: a check-and-set write is said to have lost the race.
LostMeansConflict(n) == IF req[n].cas # Omitted THEN "conflict" ELSE "error"
LostOutcome(n) == "error"

\* Mutant: no timeout.
AnswerAwaited(n) == stage[n] = "waiting" /\ wire[n] = "done" /\ Fail(n, LostOutcome(n))
AnswerLost(n) == stage[n] = "waiting" /\ Fail(n, LostOutcome(n))

-----------------------------------------------------------------------------
(* OpenBao's half *)

\* create_or_update_secret(cas=cas).  Mutant: `if cas`, which drops a zero.
CasIfTruthy(n) == IF req[n].cas = 0 THEN Omitted ELSE req[n].cas
CasSent(n) == req[n].cas

\* `if versions`: an empty list names none, like no list at all.
NamesVersions(n) == req[n].versions \notin {Omitted, {}}

Serve(n, e) ==
    /\ wire' = [wire EXCEPT ![n] = "done"]
    /\ effect' = [effect EXCEPT ![n] = e]
    /\ UNCHANGED <<stage, req, before, told, record>>

Pending(n, op) == wire[n] = "pending" /\ req[n].op = op

StoreVersion(n) ==
    /\ Pending(n, "write")
    /\ CasSent(n) \in {Omitted, Len(secret)}
    /\ secret' = Append(secret, [by |-> n, deleted |-> FALSE])
    /\ Serve(n, [era |-> era, version |-> Len(secret) + 1, by |-> n])
    /\ UNCHANGED <<era, custom>>

DeleteVersions(n) ==
    /\ Pending(n, "delete") /\ NamesVersions(n)
    /\ secret' = [v \in 1..Len(secret) |->
                     [secret[v] EXCEPT !.deleted = @ \/ v \in req[n].versions]]
    /\ Serve(n, [era |-> era, version |-> Len(secret), by |-> 0])
    /\ UNCHANGED <<era, custom>>

DestroyHistory(n) ==
    /\ Pending(n, "delete") /\ ~NamesVersions(n)
    /\ era' = era + 1
    /\ secret' = <<>>
    /\ custom' = 0
    /\ Serve(n, [era |-> era + 1, version |-> 0, by |-> 0])

StoreMetadata(n) ==
    /\ Pending(n, "metadata_write")
    /\ custom' = n
    /\ Serve(n, [era |-> era, version |-> Len(secret), by |-> n])
    /\ UNCHANGED <<era, secret>>

VersionWanted(n) == IF req[n].version = Omitted THEN Len(secret) ELSE req[n].version

\* raise_on_deleted_version=True.  Mutant: False.
ThereAtAll(v) == v \in 1..Len(secret)
Readable(v) == v \in 1..Len(secret) /\ ~secret[v].deleted

ReadVersion(n) ==
    /\ Pending(n, "read")
    /\ Readable(VersionWanted(n))
    /\ Serve(n, [era |-> era, version |-> VersionWanted(n),
                 by |-> secret[VersionWanted(n)].by])
    /\ UNCHANGED bao

HasMetadata == secret # <<>> \/ custom # 0

ReadMetadata(n) ==
    /\ Pending(n, "versions") \/ Pending(n, "metadata_read")
    /\ HasMetadata
    /\ Serve(n, [era |-> era, version |-> Len(secret), by |-> custom])
    /\ UNCHANGED bao

\* Why a call is refused that OpenBao has looked at.
Reason(n) ==
    CASE req[n].op = "write" /\ CasSent(n) \notin {Omitted, Len(secret)} -> {"mismatch"}
      [] req[n].op = "read" /\ ~Readable(VersionWanted(n)) -> {"missing"}
      [] req[n].op \in {"versions", "metadata_read"} /\ ~HasMetadata -> {"missing"}
      [] OTHER -> {}

\* Or one that it has not: no permission, a malformed body, sealed, starting.
Refuse(n) ==
    /\ wire[n] = "pending"
    /\ \E refusal \in Reason(n) \union {"rejected"} :
          wire' = [wire EXCEPT ![n] = refusal]
    /\ UNCHANGED <<bao, stage, req, before, effect, told, record>>

-----------------------------------------------------------------------------
Broker(n) == AnswerOk(n) \/ AnswerRefused(n) \/ AnswerLost(n)
OpenBao(n) == \/ StoreVersion(n) \/ DeleteVersions(n) \/ DestroyHistory(n) \/ StoreMetadata(n)
              \/ ReadVersion(n) \/ ReadMetadata(n) \/ Refuse(n)

Next == \E n \in Numbers :
            \/ \E r \in Requests : Send(n, r) \/ NoClient(n, r)
            \/ Broker(n)
            \/ OpenBao(n)

Spec == Init /\ [][Next]_vars

\* Every call has a timeout.  OpenBao owes the broker nothing.
FairSpec == Spec /\ \A n \in Numbers : WF_vars(Broker(n))

-----------------------------------------------------------------------------
(* Properties *)

Wrote(n) == req[n].op = "write" /\ wire[n] = "done"
DeletedSome(n) == req[n].op = "delete" /\ wire[n] = "done" /\ NamesVersions(n)
Destroyed(n) == req[n].op = "delete" /\ wire[n] = "done" /\ ~NamesVersions(n)

\* What makes the ones below inductive, in parts: the broker's side of a
\* request, OpenBao's side of it, two writes, and a reader that knows of a
\* request answered earlier.
Handled(n) ==
    /\ stage[n] = "unused" => wire[n] = "unsent" /\ before[n] = {}
    /\ stage[n] = "waiting" => wire[n] # "unsent"
    /\ told[n].outcome = "none" <=> stage[n] # "told"
    /\ told[n].outcome = "ok" =>
          /\ wire[n] = "done"
          /\ told[n].era = effect[n].era
          /\ told[n].version = effect[n].version
          /\ req[n].op = "write" => record[n] = [outcome |-> "ok", version |-> effect[n].version]
    /\ told[n].outcome = "not_found" => wire[n] = "missing"
    /\ told[n].outcome = "conflict" => wire[n] = "mismatch"
    /\ \A m \in before[n] : told[m].outcome = "ok"

Stored(n) ==
    wire[n] = "done" =>
        /\ effect[n].era <= era
        /\ effect[n].era = era => effect[n].version <= Len(secret)
        /\ req[n].op = "write" /\ req[n].cas # Omitted => effect[n].version = req[n].cas + 1
        /\ DeletedSome(n) /\ effect[n].era = era =>
              \A v \in req[n].versions : v \in 1..effect[n].version => secret[v].deleted

Distinct(m, n) ==
    Wrote(m) /\ Wrote(n) /\ m # n =>
        effect[m].era # effect[n].era \/ effect[m].version # effect[n].version

Current(r, n) ==
    wire[r] = "done" /\ req[r].op \in {"read", "versions"} =>
        /\ effect[r].era >= effect[n].era
        /\ effect[r].era = effect[n].era /\ req[r].version = Omitted /\ req[n].op = "write" =>
              effect[r].version >= effect[n].version
        /\ effect[r].era = effect[n].era /\ req[r].op = "read" /\ DeletedSome(n)
           /\ effect[r].version \in req[n].versions => effect[r].version > effect[n].version

Inductive ==
    /\ TypeOK
    /\ \A n \in Numbers : Handled(n) /\ Stored(n)
    /\ \A m, n \in Numbers : Distinct(m, n)
    /\ \A r \in Numbers : \A n \in before[r] : Current(r, n)
    /\ era > 0 => \E d \in Numbers : Destroyed(d)

\* A write that was answered "ok" was told, and is recorded with, the version
\* that OpenBao gave to its data, and no other write got that version of that
\* history: overlapping writers are never told the same number.
WritersToldTheirVersion ==
    \A n \in Numbers : told[n].outcome = "ok" /\ req[n].op = "write" =>
        /\ Wrote(n)
        /\ told[n].version = effect[n].version
        /\ record[n] = [outcome |-> "ok", version |-> effect[n].version]
        /\ \A m \in Numbers \ {n} : Wrote(m) =>
              effect[m].era # effect[n].era \/ effect[m].version # effect[n].version

\* Check-and-set is what protects a writer whose answer was lost: of all writes
\* with the same `cas`, zero included, at most one is ever applied, the same
\* write sent again after an "error" as much as a competitor's.  The one way
\* around it is a delete that named no versions, which starts numbering anew.
CheckAndSetOnce ==
    \A m, n \in Numbers :
        Wrote(m) /\ Wrote(n) /\ req[m].cas = req[n].cas /\ req[n].cas # Omitted /\ m # n =>
            /\ effect[m].era # effect[n].era
            /\ \E d \in Numbers : Destroyed(d)

\* A caller told 404 or 409 knows that its call changed nothing and never will.
\* (An "error" says nothing: unlike an administration request, a KV request is
\* never reported as of unknown outcome.)
RefusedNeverApplied ==
    \A n \in Numbers :
        told[n].outcome \in {"not_found", "conflict"} => wire[n] \notin {"pending", "done"}

\* What a reader is given is no older than what had been acknowledged when it
\* asked: not an earlier version than a writer was told, no version whose
\* deletion was confirmed, nothing of a history whose destruction was.
ReadsCurrent ==
    \A r \in Numbers : \A n \in before[r] :
        LET seen == told[r]
            known == effect[n]
        IN  seen.outcome = "ok" /\ req[r].op \in {"read", "versions"} =>
              /\ seen.era >= known.era
              /\ seen.era = known.era /\ req[r].version = Omitted /\ req[n].op = "write" =>
                    seen.version >= known.version
              /\ seen.era = known.era /\ req[r].op = "read" /\ DeletedSome(n)
                 /\ seen.version \in req[n].versions => seen.version > known.version

\* A call that has been sent is answered, whatever OpenBao does.
CallsEnd == \A n \in Numbers : (stage[n] = "waiting") ~> (stage[n] = "told")
=============================================================================
