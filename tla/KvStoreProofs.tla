---------------------------- MODULE KvStoreProofs ----------------------------
(***************************************************************************)
(* What the KV operations guarantee writers and readers, for any number of *)
(* requests of any kind.                                                   *)
(***************************************************************************)
EXTENDS KvStore, SequenceTheorems, TLAPS

LEMMA NumbersAreNat == \A n \in Numbers : n \in Nat
  BY MaxRequestsAssumption DEF Numbers

LEMMA InitInductive == Init => Inductive
<1>1. SUFFICES ASSUME Init PROVE Inductive
  OBVIOUS
<1>2. secret \in Seq([by: Nat, deleted: BOOLEAN])
  BY <1>1, EmptySeq DEF Init
<1>3. NoRequest \in RequestType
  BY DEF NoRequest, RequestType
<1>4. TypeOK
  BY <1>1, <1>2, <1>3 DEF Init, TypeOK, Served, NotServed, Fates, Outcomes
<1>5. \A n \in Numbers : wire[n] = "unsent" /\ stage[n] = "unused" /\ before[n] = {}
                         /\ told[n].outcome = "none"
  BY <1>1 DEF Init
<1>6. era = 0
  BY <1>1 DEF Init
<1>7. QED
  BY <1>4, <1>5, <1>6 DEF Inductive, Handled, Stored, Distinct, Wrote, Current, DeletedSome

\* An answer always names the version its call was served with, the first of a
\* listing included.
LEMMA VersionAnsweredIsServed ==
  ASSUME TypeOK, NEW n \in Numbers
  PROVE  VersionAnswered(n) = effect[n].version
<1>1. effect[n].version \in Nat
  BY DEF TypeOK, Served
<1>2. ASSUME effect[n].version > 0 PROVE Listing(effect[n].version)[1] = effect[n].version
  BY <1>1, <1>2 DEF Listing
<1>3. QED  BY <1>2 DEF VersionAnswered

-----------------------------------------------------------------------------
\* A request that ends as what OpenBao did with its call allows.
LEMMA ReportKeepsInductive ==
  ASSUME Inductive, NEW n \in Numbers, stage[n] = "waiting",
         NEW t \in [outcome: Outcomes, era: Nat, version: Nat, by: Nat],
         NEW a \in [outcome: {"none", "ok", "error"}, version: Nat \union {Omitted}],
         t.outcome # "none",
         t.outcome = "ok" => /\ wire[n] = "done"
                             /\ t.era = effect[n].era
                             /\ t.version = effect[n].version
                             /\ req[n].op = "write" =>
                                   a = [outcome |-> "ok", version |-> effect[n].version],
         t.outcome = "not_found" => wire[n] = "missing",
         t.outcome = "conflict" => wire[n] = "mismatch",
         Goto(n, "told"),
         told' = [told EXCEPT ![n] = t],
         record' = [record EXCEPT ![n] = a],
         UNCHANGED <<bao, req, before, wire, effect>>
  PROVE  Inductive'
<1>1. TypeOK /\ \A m \in Numbers : Handled(m)
  BY DEF Inductive
<1>2. TypeOK'
  BY <1>1 DEF TypeOK, Goto, bao
<1>3. told[n].outcome = "none"
  BY <1>1 DEF Handled
<1>4. \A m \in Numbers : told[m].outcome = "ok" => told'[m].outcome = "ok"
  BY <1>1, <1>3 DEF TypeOK
<1>5. ASSUME NEW m \in Numbers PROVE Handled(m)'
  <2>1. before' = before /\ wire' = wire /\ effect' = effect /\ req' = req
    OBVIOUS
  <2>2. \A k \in before[m] : k \in Numbers
    BY <1>1 DEF TypeOK
  <2>3. \A k \in before'[m] : told'[k].outcome = "ok"
    BY <1>1, <1>4, <2>1, <2>2 DEF Handled
  <2>4. CASE m = n
    <3>1. stage'[n] = "told" /\ told'[n] = t /\ record'[n] = a
      BY <1>1 DEF TypeOK, Goto
    <3>2. QED  BY <2>1, <2>3, <2>4, <3>1 DEF Handled
  <2>5. CASE m # n
    <3>1. stage'[m] = stage[m] /\ told'[m] = told[m] /\ record'[m] = record[m]
      BY <1>1, <2>5 DEF TypeOK, Goto
    <3>2. QED  BY <1>1, <2>1, <2>3, <3>1 DEF Handled
  <2>6. QED  BY <2>4, <2>5
<1>6. QED
  BY <1>2, <1>5
  DEF Inductive, Stored, Distinct, Current, Wrote, Destroyed, DeletedSome, NamesVersions, bao

LEMMA FailKeepsInductive ==
  ASSUME Inductive, NEW n \in Numbers, stage[n] = "waiting",
         NEW outcome \in {"not_found", "conflict", "error"}, Fail(n, outcome),
         outcome = "not_found" => wire[n] = "missing",
         outcome = "conflict" => wire[n] = "mismatch"
  PROVE  Inductive'
<1> DEFINE t == [told[n] EXCEPT !.outcome = outcome]
           a == [outcome |-> "error", version |-> req[n].version]
<1>1. TypeOK
  BY DEF Inductive
<1>2. t \in [outcome: Outcomes, era: Nat, version: Nat, by: Nat] /\ t.outcome = outcome
  BY <1>1 DEF TypeOK, Outcomes
<1>3. a \in [outcome: {"none", "ok", "error"}, version: Nat \union {Omitted}]
  BY <1>1 DEF TypeOK, RequestType
<1>4. told' = [told EXCEPT ![n] = t] /\ record' = [record EXCEPT ![n] = a] /\ Goto(n, "told")
      /\ UNCHANGED <<bao, req, before, wire, effect>>
  BY DEF Fail, Tell
<1> HIDE DEF t, a
<1>5. QED  BY <1>2, <1>3, <1>4, ReportKeepsInductive

LEMMA BrokerKeepsInductive ==
  ASSUME Inductive, NEW n \in Numbers, Broker(n)
  PROVE  Inductive'
<1>1. TypeOK
  BY DEF Inductive
<1>2. CASE AnswerOk(n)
  <2> DEFINE t == [outcome |-> "ok", era |-> effect[n].era,
                   version |-> VersionAnswered(n), by |-> effect[n].by]
             a == [outcome |-> "ok", version |-> VersionRecorded(n)]
  <2>1. VersionAnswered(n) = effect[n].version /\ effect[n] \in Served
    BY <1>1, VersionAnsweredIsServed DEF TypeOK
  <2>2. t \in [outcome: Outcomes, era: Nat, version: Nat, by: Nat]
        /\ t.outcome = "ok" /\ t.era = effect[n].era /\ t.version = effect[n].version
    BY <2>1 DEF Served, Outcomes
  <2>3. VersionRecorded(n) \in Nat \union {Omitted}
    BY <1>1, <2>1 DEF VersionRecorded, TypeOK, RequestType, Served
  <2>4. a \in [outcome: {"none", "ok", "error"}, version: Nat \union {Omitted}]
    BY <2>3
  <2>5. req[n].op = "write" => a = [outcome |-> "ok", version |-> effect[n].version]
    BY <2>1 DEF VersionRecorded
  <2>6. told' = [told EXCEPT ![n] = t] /\ record' = [record EXCEPT ![n] = a] /\ Goto(n, "told")
        /\ wire[n] = "done" /\ stage[n] = "waiting" /\ UNCHANGED <<bao, req, before, wire, effect>>
    BY <1>2 DEF AnswerOk
  <2> HIDE DEF t, a
  <2>7. QED  BY <2>2, <2>4, <2>5, <2>6, ReportKeepsInductive
<1>3. CASE AnswerRefused(n)
  <2>1. stage[n] = "waiting" /\ Fail(n, Translate(wire[n]))
    BY <1>3 DEF AnswerRefused
  <2>2. Translate(wire[n]) \in {"not_found", "conflict", "error"}
        /\ (Translate(wire[n]) = "not_found" => wire[n] = "missing")
        /\ (Translate(wire[n]) = "conflict" => wire[n] = "mismatch")
    BY DEF Translate
  <2>3. QED  BY <2>1, <2>2, FailKeepsInductive
<1>4. CASE AnswerLost(n)
  BY <1>4, FailKeepsInductive DEF AnswerLost, LostOutcome
<1>5. QED  BY <1>2, <1>3, <1>4 DEF Broker

-----------------------------------------------------------------------------
\* A request that arrives knows only requests already answered, and has had no
\* effect; nobody knows of it yet.
LEMMA ArrivalKeepsInductive ==
  ASSUME Inductive, NEW n \in Numbers, NEW r \in Requests, Send(n, r) \/ NoClient(n, r)
  PROVE  Inductive'
<1>1. TypeOK /\ \A m \in Numbers : Handled(m) /\ Stored(m)
  BY DEF Inductive
<1>2. Arrive(n, r) /\ stage[n] = "unused" /\ wire[n] = "unsent" /\ told[n].outcome = "none"
  BY <1>1 DEF Send, NoClient, Arrive, Handled
<1>3. req' = [req EXCEPT ![n] = r] /\ bao' = bao /\ effect' = effect
      /\ before' = [before EXCEPT ![n] = {m \in Numbers : told[m].outcome = "ok"}]
  BY <1>2 DEF Arrive
<1>4. r \in RequestType
  BY RequestsAssumption
<1>5. r.version \in Nat \union {Omitted}
  BY <1>4 DEF RequestType
<1>6. TypeOK'
  <2>1. req' \in [Numbers -> RequestType] /\ before' \in [Numbers -> SUBSET Numbers]
    BY <1>1, <1>3, <1>4 DEF TypeOK
  <2>2. /\ stage' \in [Numbers -> {"unused", "waiting", "told"}]
        /\ wire' \in [Numbers -> Fates]
        /\ told' \in [Numbers -> [outcome: Outcomes, era: Nat, version: Nat, by: Nat]]
        /\ record' \in [Numbers -> [outcome: {"none", "ok", "error"}, version: Nat \union {Omitted}]]
    <3>1. CASE Send(n, r)
      BY <1>1, <3>1 DEF TypeOK, Send, Goto, Fates
    <3>2. CASE NoClient(n, r)
      <4>1. [told[n] EXCEPT !.outcome = "error"] \in [outcome: Outcomes, era: Nat, version: Nat, by: Nat]
        BY <1>1 DEF TypeOK, Outcomes
      <4>2. QED  BY <1>1, <1>5, <3>2, <4>1 DEF TypeOK, NoClient, Tell, Goto
    <3>3. QED  BY <3>1, <3>2
  <2>3. QED  BY <1>1, <1>3, <2>1, <2>2 DEF TypeOK, bao
<1>7. wire'[n] \in {"unsent", "pending"} /\ stage'[n] # "unused" /\ told'[n].outcome \in {"none", "error"}
      /\ (stage'[n] = "waiting" => wire'[n] # "unsent")
      /\ (told'[n].outcome = "none" <=> stage'[n] # "told")
  BY <1>1, <1>2 DEF TypeOK, Send, NoClient, Tell, Goto
<1>8. ASSUME NEW m \in Numbers, m # n
      PROVE  /\ wire'[m] = wire[m] /\ stage'[m] = stage[m] /\ told'[m] = told[m]
             /\ record'[m] = record[m] /\ req'[m] = req[m] /\ before'[m] = before[m]
             /\ effect'[m] = effect[m]
  BY <1>1, <1>3, <1>8 DEF TypeOK, Send, NoClient, Tell, Goto
<1>9. \A m \in Numbers : told[m].outcome = "ok" => m # n /\ told'[m].outcome = "ok"
  BY <1>2, <1>8
<1>10. \A m \in Numbers : \A k \in before'[m] : k \in Numbers /\ told[k].outcome = "ok"
  <2>1. before'[n] = {m \in Numbers : told[m].outcome = "ok"}
    BY <1>1, <1>3 DEF TypeOK
  <2>2. \A m \in Numbers : \A k \in before[m] : k \in Numbers /\ told[k].outcome = "ok"
    BY <1>1 DEF TypeOK, Handled
  <2>3. QED  BY <1>8, <2>1, <2>2
<1>11. ASSUME NEW m \in Numbers PROVE Handled(m)'
  <2>1. \A k \in before'[m] : told'[k].outcome = "ok"
    BY <1>9, <1>10
  <2>2. CASE m = n
    BY <1>7, <2>1, <2>2 DEF Handled
  <2>3. CASE m # n
    BY <1>1, <1>8, <2>1, <2>3 DEF Handled
  <2>4. QED  BY <2>2, <2>3
<1>12. ASSUME NEW m \in Numbers PROVE Stored(m)'
  <2>1. CASE m = n
    BY <1>7, <2>1 DEF Stored
  <2>2. CASE m # n
    <3>1. era' = era /\ secret' = secret
      BY <1>3 DEF bao
    <3>2. QED  BY <1>1, <1>8, <2>2, <3>1 DEF Stored, DeletedSome, NamesVersions
  <2>3. QED  BY <2>1, <2>2
<1>13. ASSUME NEW k \in Numbers, NEW m \in Numbers PROVE Distinct(k, m)'
  <2>1. CASE k = n \/ m = n
    BY <1>7, <2>1 DEF Distinct, Wrote
  <2>2. CASE k # n /\ m # n
    BY <1>8, <2>2 DEF Inductive, Distinct, Wrote
  <2>3. QED  BY <2>1, <2>2
<1>14. ASSUME NEW k \in Numbers, NEW m \in before'[k] PROVE Current(k, m)'
  <2>1. m \in Numbers /\ m # n
    BY <1>9, <1>10
  <2>2. CASE k = n
    BY <1>7, <2>2 DEF Current
  <2>3. CASE k # n
    <3>1. Current(k, m)
      BY <1>8, <2>3 DEF Inductive
    <3>2. QED  BY <1>8, <2>1, <2>3, <3>1 DEF Current, DeletedSome, NamesVersions
  <2>4. QED  BY <2>2, <2>3
<1>15. era' > 0 => \E d \in Numbers : Destroyed(d)'
  <2>1. ASSUME era' > 0 PROVE \E d \in Numbers : Destroyed(d)'
    <3>1. PICK d \in Numbers : Destroyed(d)
      BY <1>3, <2>1 DEF Inductive, bao
    <3>2. d # n
      BY <1>2, <3>1 DEF Destroyed
    <3>3. Destroyed(d)'
      BY <1>8, <3>1, <3>2 DEF Destroyed, NamesVersions
    <3>4. QED  BY <3>3
  <2>2. QED  BY <2>1
<1>16. QED  BY <1>6, <1>11, <1>12, <1>13, <1>14, <1>15 DEF Inductive

-----------------------------------------------------------------------------
\* What a call that is served may do to the path: versions are only added and
\* stay deleted, unless the whole history goes; a write gets the next number;
\* a read gets the newest version or the one it named, not a deleted one.
Lawful(n, e) ==
    /\ e.era = era'
    /\ e.version <= Len(secret')
    /\ \/ era' = era
       \/ era' = era + 1 /\ req[n].op = "delete" /\ ~NamesVersions(n)
    /\ era' = era =>
          /\ Len(secret) <= Len(secret')
          /\ \A v \in 1..Len(secret) : secret[v].deleted => secret'[v].deleted
    /\ req[n].op = "write" =>
          /\ e.era = era /\ e.version = Len(secret) + 1
          /\ req[n].cas # Omitted => e.version = req[n].cas + 1
    /\ req[n].op = "delete" /\ NamesVersions(n) =>
          \A v \in req[n].versions : v \in 1..e.version => secret'[v].deleted
    /\ req[n].op \in {"read", "versions"} =>
          /\ e.era = era
          /\ req[n].version = Omitted => e.version = Len(secret)
    /\ req[n].op = "versions" => e.version = Len(secret)
    /\ req[n].op = "read" => e.version \in 1..Len(secret) /\ ~secret[e.version].deleted

LEMMA ServeKeepsInductive ==
  ASSUME Inductive, NEW n \in Numbers, wire[n] = "pending",
         NEW e \in Served, Serve(n, e), Lawful(n, e),
         era' \in Nat, secret' \in Seq([by: Nat, deleted: BOOLEAN]), custom' \in Nat
  PROVE  Inductive'
<1>1. TypeOK /\ \A m \in Numbers : Handled(m) /\ Stored(m)
  BY DEF Inductive
<1>2. wire' = [wire EXCEPT ![n] = "done"] /\ effect' = [effect EXCEPT ![n] = e]
      /\ stage' = stage /\ req' = req /\ before' = before /\ told' = told /\ record' = record
  BY DEF Serve
<1>3. TypeOK'
  BY <1>1, <1>2 DEF TypeOK, Fates
<1>4. wire'[n] = "done" /\ effect'[n] = e
      /\ \A m \in Numbers : m # n => wire'[m] = wire[m] /\ effect'[m] = effect[m]
  BY <1>1, <1>2 DEF TypeOK
<1>5. \A m \in Numbers : \A k \in before[m] : k \in Numbers /\ k # n /\ wire[k] = "done"
  <2>1. \A m \in Numbers : \A k \in before[m] : k \in Numbers /\ told[k].outcome = "ok"
    BY <1>1 DEF TypeOK, Handled
  <2>2. \A k \in Numbers : told[k].outcome = "ok" => wire[k] = "done"
    BY <1>1 DEF Handled
  <2>3. QED  BY <2>1, <2>2
<1>6. Len(secret) \in Nat /\ Len(secret') \in Nat /\ era \in Nat
      /\ \A m \in Numbers : effect[m].era \in Nat /\ effect[m].version \in Nat
      /\ e.era \in Nat /\ e.version \in Nat
  BY <1>1, LenProperties DEF TypeOK, Served
<1>7. ASSUME NEW m \in Numbers PROVE Handled(m)'
  <2>1. CASE m = n
    BY <1>1, <1>2, <1>4, <2>1 DEF Handled
  <2>2. CASE m # n
    BY <1>1, <1>2, <1>4, <2>2 DEF Handled
  <2>3. QED  BY <2>1, <2>2
<1>8. ASSUME NEW m \in Numbers PROVE Stored(m)'
  <2>1. CASE m = n
    BY <1>2, <1>4, <2>1 DEF Stored, Lawful, DeletedSome, NamesVersions
  <2>2. CASE m # n
    <3>1. SUFFICES ASSUME wire[m] = "done" PROVE Stored(m)'
      BY <1>4, <2>2 DEF Stored
    <3>2. effect[m].era <= era /\ (effect[m].era = era => effect[m].version <= Len(secret))
      BY <1>1, <3>1 DEF Stored
    <3>3. era' = era \/ era' = era + 1
      BY DEF Lawful
    <3>4. effect[m].era <= era' /\ (effect[m].era = era' => era' = era)
      BY <1>6, <3>2, <3>3
    <3>5. effect[m].era = era' => effect[m].version <= Len(secret')
      BY <1>6, <3>2, <3>4 DEF Lawful
    <3>6. req[m].op = "write" /\ req[m].cas # Omitted => effect[m].version = req[m].cas + 1
      BY <1>1, <3>1 DEF Stored
    <3>7. ASSUME DeletedSome(m), effect[m].era = era',
                 NEW v \in req[m].versions, v \in 1..effect[m].version
          PROVE  secret'[v].deleted
      <4>1. secret[v].deleted
        BY <1>1, <3>1, <3>4, <3>7 DEF Stored
      <4>2. v \in 1..Len(secret)
        BY <1>6, <3>2, <3>4, <3>7
      <4>3. QED  BY <3>4, <3>7, <4>1, <4>2 DEF Lawful
    <3>8. QED
      BY <1>2, <1>4, <2>2, <3>4, <3>5, <3>6, <3>7 DEF Stored, DeletedSome, NamesVersions
  <2>3. QED  BY <2>1, <2>2
<1>9. ASSUME NEW k \in Numbers, NEW m \in Numbers PROVE Distinct(k, m)'
  <2>1. ASSUME NEW p \in Numbers, p # n, wire[p] = "done", req[n].op = "write"
        PROVE  effect[p].era # e.era \/ effect[p].version # e.version
    BY <1>1, <1>6, <2>1 DEF Stored, Lawful
  <2>2. CASE k = n
    BY <1>2, <1>4, <2>1, <2>2 DEF Distinct, Wrote
  <2>3. CASE m = n
    BY <1>2, <1>4, <2>1, <2>3 DEF Distinct, Wrote
  <2>4. CASE k # n /\ m # n
    <3>1. Distinct(k, m)
      BY DEF Inductive
    <3>2. QED  BY <1>2, <1>4, <2>4, <3>1 DEF Distinct, Wrote
  <2>5. QED  BY <2>2, <2>3, <2>4
<1>10. ASSUME NEW k \in Numbers, NEW m \in before'[k] PROVE Current(k, m)'
  <2>1. m \in before[k] /\ m \in Numbers /\ m # n /\ wire[m] = "done"
    BY <1>2, <1>5
  <2>2. CASE k = n
    <3>1. effect[m].era <= era /\ (effect[m].era = era => effect[m].version <= Len(secret))
          /\ (DeletedSome(m) /\ effect[m].era = era =>
                \A v \in req[m].versions : v \in 1..effect[m].version => secret[v].deleted)
      BY <1>1, <2>1 DEF Stored
    <3>2. SUFFICES ASSUME req[n].op \in {"read", "versions"} PROVE Current(n, m)'
      BY <1>2, <2>2 DEF Current
    <3>3. e.era = era /\ (req[n].version = Omitted => e.version = Len(secret))
          /\ (req[n].op = "read" => e.version \in 1..Len(secret) /\ ~secret[e.version].deleted)
      BY <3>2 DEF Lawful
    <3>4. ASSUME e.era = effect[m].era, req[n].op = "read", DeletedSome(m),
                 e.version \in req[m].versions
          PROVE  e.version > effect[m].version
      <4>1. e.version \in 1..Len(secret) /\ ~secret[e.version].deleted /\ e.version \in Nat
        BY <1>6, <3>3, <3>4
      <4>2. effect[m].version \in Nat
        BY <1>6, <2>1
      <4>3. e.version \in 1..effect[m].version => secret[e.version].deleted
        BY <3>1, <3>3, <3>4
      <4>4. e.version \notin 1..effect[m].version
        BY <4>1, <4>3
      <4>5. QED  BY <4>1, <4>2, <4>4
    <3>5. e.era >= effect[m].era
      BY <1>6, <3>1, <3>3
    <3>6. e.era = effect[m].era /\ req[n].version = Omitted => e.version >= effect[m].version
      BY <1>6, <3>1, <3>3
    <3>7. effect'[m] = effect[m] /\ effect'[n] = e /\ req' = req /\ wire'[m] = wire[m]
      BY <1>2, <1>4, <2>1
    <3>8. DeletedSome(m)' <=> DeletedSome(m)
      BY <3>7 DEF DeletedSome, NamesVersions
    <3>9. QED  BY <3>4, <3>5, <3>6, <3>7, <3>8 DEF Current
  <2>3. CASE k # n
    <3>1. Current(k, m)
      BY <2>1 DEF Inductive
    <3>2. effect'[m] = effect[m] /\ effect'[k] = effect[k] /\ req' = req
          /\ wire'[k] = wire[k] /\ wire'[m] = wire[m]
      BY <1>2, <1>4, <2>1, <2>3
    <3>3. DeletedSome(m)' <=> DeletedSome(m)
      BY <3>2 DEF DeletedSome, NamesVersions
    <3>4. QED  BY <3>1, <3>2, <3>3 DEF Current
  <2>4. QED  BY <2>2, <2>3
<1>11. ASSUME era' > 0 PROVE \E d \in Numbers : Destroyed(d)'
  <2>1. CASE era > 0
    <3>1. PICK d \in Numbers : Destroyed(d)
      BY <2>1 DEF Inductive
    <3>2. Destroyed(d)'
      BY <1>2, <1>4, <3>1 DEF Destroyed, NamesVersions
    <3>3. QED  BY <3>2
  <2>2. CASE ~(era > 0)
    <3>1. req[n].op = "delete" /\ ~NamesVersions(n)
      BY <1>6, <1>11, <2>2 DEF Lawful
    <3>2. Destroyed(n)'
      BY <1>2, <1>4, <3>1 DEF Destroyed, NamesVersions
    <3>3. QED  BY <3>2
  <2>3. QED  BY <2>1, <2>2
<1>12. QED  BY <1>3, <1>7, <1>8, <1>9, <1>10, <1>11 DEF Inductive

LEMMA RefuseKeepsInductive ==
  ASSUME Inductive, NEW n \in Numbers, Refuse(n)
  PROVE  Inductive'
<1>1. TypeOK /\ \A m \in Numbers : Handled(m) /\ Stored(m)
  BY DEF Inductive
<1>2. PICK refusal \in Reason(n) \union {"rejected"} : wire' = [wire EXCEPT ![n] = refusal]
  BY DEF Refuse
<1>3. refusal \in {"missing", "mismatch", "rejected"}
  BY <1>2 DEF Reason
<1>4. wire[n] = "pending" /\ UNCHANGED <<bao, stage, req, before, effect, told, record>>
  BY DEF Refuse
<1>5. TypeOK'
  BY <1>1, <1>2, <1>3, <1>4 DEF TypeOK, Fates, Refusals, bao
<1>6. wire'[n] = refusal /\ \A m \in Numbers : m # n => wire'[m] = wire[m]
  BY <1>1, <1>2 DEF TypeOK
<1>7. \A m \in Numbers : wire'[m] = "done" <=> wire[m] = "done"
  BY <1>3, <1>4, <1>6
<1>8. ASSUME NEW m \in Numbers PROVE Handled(m)'
  <2>1. CASE m = n
    BY <1>1, <1>3, <1>4, <1>6, <2>1 DEF Handled
  <2>2. CASE m # n
    BY <1>1, <1>4, <1>6, <2>2 DEF Handled
  <2>3. QED  BY <2>1, <2>2
<1>9. \A m \in Numbers : /\ DeletedSome(m)' <=> DeletedSome(m)
                         /\ Destroyed(m)' <=> Destroyed(m)
                         /\ Wrote(m)' <=> Wrote(m)
  BY <1>4, <1>7 DEF DeletedSome, Destroyed, Wrote, NamesVersions
<1>10. \A m \in Numbers : Stored(m)'
  BY <1>1, <1>4, <1>7, <1>9 DEF Stored, bao
<1>11. \A k, m \in Numbers : Distinct(k, m)'
  BY <1>4, <1>9 DEF Inductive, Distinct
<1>12. \A k \in Numbers : \A m \in before'[k] : Current(k, m)'
  <2>1. \A k \in Numbers : \A m \in before[k] : m \in Numbers
    BY <1>1 DEF TypeOK
  <2>2. QED  BY <1>4, <1>7, <1>9, <2>1 DEF Inductive, Current
<1>13. era' > 0 => \E d \in Numbers : Destroyed(d)'
  BY <1>4, <1>9 DEF Inductive, bao
<1>14. QED  BY <1>5, <1>8, <1>10, <1>11, <1>12, <1>13 DEF Inductive

LEMMA OpenBaoKeepsInductive ==
  ASSUME Inductive, NEW n \in Numbers, OpenBao(n)
  PROVE  Inductive'
<1>1. TypeOK
  BY DEF Inductive
<1>2. n \in Nat /\ era \in Nat /\ custom \in Nat /\ secret \in Seq([by: Nat, deleted: BOOLEAN])
      /\ Len(secret) \in Nat /\ req[n] \in RequestType
      /\ secret \in [1..Len(secret) -> [by: Nat, deleted: BOOLEAN]]
  BY <1>1, NumbersAreNat, LenProperties DEF TypeOK
<1>3. CASE StoreVersion(n)
  <2> DEFINE s == [era |-> era, version |-> Len(secret) + 1, by |-> n]
  <2>0. s \in Served
    BY <1>2 DEF Served
  <2> HIDE DEF s
  <2>1. PICK e \in Served : e = [era |-> era, version |-> Len(secret) + 1, by |-> n]
    BY <2>0 DEF s
  <2>2. secret' = Append(secret, [by |-> n, deleted |-> FALSE]) /\ era' = era /\ custom' = custom
        /\ Serve(n, e) /\ wire[n] = "pending" /\ req[n].op = "write"
        /\ req[n].cas \in {Omitted, Len(secret)}
    BY <2>1, <1>3 DEF StoreVersion, Pending, CasSent, Serve
  <2>3. secret' \in Seq([by: Nat, deleted: BOOLEAN]) /\ Len(secret') = Len(secret) + 1
        /\ \A v \in 1..Len(secret) : secret'[v] = secret[v]
    BY <1>2, <2>2, AppendProperties
  <2>4. Lawful(n, e)
    BY <2>1, <1>2, <2>2, <2>3 DEF Lawful
  <2>5. QED  BY <1>2, <2>2, <2>3, <2>4, ServeKeepsInductive
<1>4. CASE DeleteVersions(n)
  <2>1. PICK e \in Served : e = [era |-> era, version |-> Len(secret), by |-> 0]
    BY <1>2 DEF Served
  <2> DEFINE mark(v) == [secret[v] EXCEPT !.deleted = @ \/ v \in req[n].versions]
  <2>2. secret' = [v \in 1..Len(secret) |-> mark(v)] /\ era' = era /\ custom' = custom
        /\ Serve(n, e) /\ wire[n] = "pending" /\ req[n].op = "delete" /\ NamesVersions(n)
    BY <2>1, <1>4 DEF DeleteVersions, Pending, Serve
  <2>3. \A v \in 1..Len(secret) : mark(v) \in [by: Nat, deleted: BOOLEAN]
    BY <1>2
  <2>4. \A v \in 1..Len(secret) : secret[v].deleted \/ v \in req[n].versions => mark(v).deleted
    BY <1>2
  <2> HIDE DEF mark
  <2>5. secret' \in [1..Len(secret) -> [by: Nat, deleted: BOOLEAN]]
    BY <2>2, <2>3
  <2>6. secret' \in Seq([by: Nat, deleted: BOOLEAN]) /\ DOMAIN secret' = 1..Len(secret)
    BY <1>2, <2>5, SeqDef
  <2>7. Len(secret') = Len(secret)
    BY <1>2, <2>6, LenProperties
  <2>8. \A v \in 1..Len(secret) : secret[v].deleted \/ v \in req[n].versions => secret'[v].deleted
    BY <2>2, <2>4
  <2>9. Lawful(n, e)
    BY <2>1, <1>2, <2>2, <2>7, <2>8 DEF Lawful
  <2>10. QED  BY <1>2, <2>2, <2>6, <2>9, ServeKeepsInductive
<1>5. CASE DestroyHistory(n)
  <2> DEFINE s == [era |-> era + 1, version |-> 0, by |-> 0]
  <2>0. s \in Served
    BY <1>2 DEF Served
  <2> HIDE DEF s
  <2>1. PICK e \in Served : e = [era |-> era + 1, version |-> 0, by |-> 0]
    BY <2>0 DEF s
  <2>2. secret' = <<>> /\ era' = era + 1 /\ custom' = 0 /\ Serve(n, e)
        /\ wire[n] = "pending" /\ req[n].op = "delete" /\ ~NamesVersions(n)
    BY <2>1, <1>5 DEF DestroyHistory, Pending, Serve
  <2>3. secret' \in Seq([by: Nat, deleted: BOOLEAN]) /\ Len(secret') = 0
    BY <2>2, EmptySeq
  <2>4. Lawful(n, e)
    BY <2>1, <1>2, <2>2, <2>3 DEF Lawful
  <2>5. QED  BY <1>2, <2>2, <2>3, <2>4, ServeKeepsInductive
<1>6. CASE StoreMetadata(n)
  <2>1. PICK e \in Served : e = [era |-> era, version |-> Len(secret), by |-> n]
    BY <1>2 DEF Served
  <2>2. secret' = secret /\ era' = era /\ custom' = n /\ Serve(n, e)
        /\ wire[n] = "pending" /\ req[n].op = "metadata_write"
    BY <2>1, <1>6 DEF StoreMetadata, Pending, Serve
  <2>3. Lawful(n, e)
    BY <2>1, <1>2, <2>2 DEF Lawful
  <2>4. QED  BY <1>2, <2>2, <2>3, ServeKeepsInductive
<1>7. CASE ReadVersion(n)
  <2>1. PICK e \in Served :
          e = [era |-> era, version |-> VersionWanted(n), by |-> secret[VersionWanted(n)].by]
    BY <1>2, <1>7 DEF ReadVersion, Readable, Served
  <2>2. secret' = secret /\ era' = era /\ custom' = custom /\ Serve(n, e)
        /\ wire[n] = "pending" /\ req[n].op = "read" /\ Readable(VersionWanted(n))
    BY <2>1, <1>7 DEF ReadVersion, Pending, bao, Serve
  <2>3. e.version \in 1..Len(secret) /\ ~secret[e.version].deleted
    BY <2>1, <2>2 DEF Readable
  <2>4. req[n].version = Omitted => e.version = Len(secret)
    BY <2>1 DEF VersionWanted
  <2>5. Lawful(n, e)
    BY <2>1, <1>2, <2>2, <2>3, <2>4 DEF Lawful
  <2>6. QED  BY <1>2, <2>2, <2>5, ServeKeepsInductive
<1>8. CASE ReadMetadata(n)
  <2>1. PICK e \in Served : e = [era |-> era, version |-> Len(secret), by |-> custom]
    BY <1>2 DEF Served
  <2>2. secret' = secret /\ era' = era /\ custom' = custom /\ Serve(n, e)
        /\ wire[n] = "pending" /\ req[n].op \in {"versions", "metadata_read"}
    BY <2>1, <1>8 DEF ReadMetadata, Pending, bao, Serve
  <2>3. Lawful(n, e)
    BY <2>1, <1>2, <2>2 DEF Lawful
  <2>4. QED  BY <1>2, <2>2, <2>3, ServeKeepsInductive
<1>9. CASE Refuse(n)
  BY <1>9, RefuseKeepsInductive
<1>10. QED  BY <1>3, <1>4, <1>5, <1>6, <1>7, <1>8, <1>9 DEF OpenBao

-----------------------------------------------------------------------------
\* The invariant the ones below follow from.
THEOREM KvInductive == Spec => []Inductive
<1>1. Inductive /\ [Next]_vars => Inductive'
  <2>1. SUFFICES ASSUME Inductive, [Next]_vars PROVE Inductive'
    OBVIOUS
  <2>2. CASE Next
    <3>1. PICK n \in Numbers : \/ \E r \in Requests : Send(n, r) \/ NoClient(n, r)
                              \/ Broker(n)
                              \/ OpenBao(n)
      BY <2>2 DEF Next
    <3>2. QED
      BY <2>1, <3>1, ArrivalKeepsInductive, BrokerKeepsInductive, OpenBaoKeepsInductive
  <2>3. CASE UNCHANGED vars
    <3>1. /\ era' = era /\ secret' = secret /\ custom' = custom /\ stage' = stage
          /\ req' = req /\ before' = before /\ wire' = wire /\ effect' = effect
          /\ told' = told /\ record' = record
      BY <2>3 DEF vars, bao
    <3>2. TypeOK'
      BY <2>1, <3>1 DEF Inductive, TypeOK
    <3>3. \A n \in Numbers : Handled(n)' /\ Stored(n)'
      BY <2>1, <3>1 DEF Inductive, Handled, Stored, DeletedSome, NamesVersions
    <3>4. \A m, n \in Numbers : Distinct(m, n)'
      BY <2>1, <3>1 DEF Inductive, Distinct, Wrote
    <3>5. \A r \in Numbers : \A n \in before'[r] : Current(r, n)'
      BY <2>1, <3>1 DEF Inductive, Current, DeletedSome, NamesVersions
    <3>6. era' > 0 => \E d \in Numbers : Destroyed(d)'
      BY <2>1, <3>1 DEF Inductive, Destroyed, NamesVersions
    <3>7. QED  BY <3>2, <3>3, <3>4, <3>5, <3>6 DEF Inductive
  <2>4. QED  BY <2>1, <2>2, <2>3
<1>2. QED  BY InitInductive, <1>1, PTL DEF Spec

\* Overlapping writers are told the true number of their own version.
THEOREM WritersSafe == Spec => []WritersToldTheirVersion
<1>1. Inductive => WritersToldTheirVersion
  <2>1. SUFFICES ASSUME Inductive, NEW n \in Numbers, told[n].outcome = "ok", req[n].op = "write"
                 PROVE  /\ Wrote(n)
                        /\ told[n].version = effect[n].version
                        /\ record[n] = [outcome |-> "ok", version |-> effect[n].version]
                        /\ \A m \in Numbers \ {n} : Wrote(m) =>
                              effect[m].era # effect[n].era \/ effect[m].version # effect[n].version
    BY DEF WritersToldTheirVersion
  <2>2. wire[n] = "done" /\ told[n].version = effect[n].version
        /\ record[n] = [outcome |-> "ok", version |-> effect[n].version]
    BY <2>1 DEF Inductive, Handled
  <2>3. Wrote(n)
    BY <2>1, <2>2 DEF Wrote
  <2>4. \A m \in Numbers : Distinct(m, n)
    BY <2>1 DEF Inductive
  <2>5. QED  BY <2>2, <2>3, <2>4 DEF Distinct
<1>2. QED  BY KvInductive, <1>1, PTL

\* Check-and-set keeps a write that is sent again from being applied twice.
THEOREM CheckAndSetSafe == Spec => []CheckAndSetOnce
<1>1. Inductive => CheckAndSetOnce
  <2>1. SUFFICES ASSUME Inductive, NEW m \in Numbers, NEW n \in Numbers, Wrote(m), Wrote(n),
                        req[m].cas = req[n].cas, req[n].cas # Omitted, m # n
                 PROVE  /\ effect[m].era # effect[n].era
                        /\ \E d \in Numbers : Destroyed(d)
    BY DEF CheckAndSetOnce
  <2>2. Stored(m) /\ Stored(n) /\ Distinct(m, n) /\ TypeOK
    BY <2>1 DEF Inductive
  <2>3. effect[m].version = effect[n].version
    BY <2>1, <2>2 DEF Stored, Wrote
  <2>4. effect[m].era # effect[n].era
    BY <2>1, <2>2, <2>3 DEF Distinct
  <2>5. effect[m].era <= era /\ effect[n].era <= era
    BY <2>1, <2>2 DEF Stored, Wrote
  <2>6. effect[m].era \in Nat /\ effect[n].era \in Nat /\ era \in Nat
    BY <2>2 DEF TypeOK, Served
  <2>7. era > 0
    BY <2>4, <2>5, <2>6
  <2>8. QED  BY <2>1, <2>4, <2>7 DEF Inductive
<1>2. QED  BY KvInductive, <1>1, PTL

\* A 404 or a 409 means that nothing was changed.
THEOREM RefusalsTrue == Spec => []RefusedNeverApplied
<1>1. Inductive => RefusedNeverApplied
  BY DEF Inductive, Handled, RefusedNeverApplied
<1>2. QED  BY KvInductive, <1>1, PTL

\* A reader is given nothing older than what had been acknowledged.
THEOREM ReadersSafe == Spec => []ReadsCurrent
<1>1. Inductive => ReadsCurrent
  <2>1. SUFFICES ASSUME Inductive, NEW r \in Numbers, NEW n \in before[r],
                        told[r].outcome = "ok", req[r].op \in {"read", "versions"}
                 PROVE  /\ told[r].era >= effect[n].era
                        /\ told[r].era = effect[n].era /\ req[r].version = Omitted
                           /\ req[n].op = "write" => told[r].version >= effect[n].version
                        /\ told[r].era = effect[n].era /\ req[r].op = "read" /\ DeletedSome(n)
                           /\ told[r].version \in req[n].versions =>
                              told[r].version > effect[n].version
    BY DEF ReadsCurrent
  <2>2. wire[r] = "done" /\ told[r].era = effect[r].era /\ told[r].version = effect[r].version
    BY <2>1 DEF Inductive, Handled
  <2>3. Current(r, n)
    BY <2>1 DEF Inductive
  <2>4. QED  BY <2>1, <2>2, <2>3 DEF Current
<1>2. QED  BY KvInductive, <1>1, PTL

-----------------------------------------------------------------------------
(* What is read is what was written *)

\* w is the write that made this version.
WroteVersion(w, e, v) == w \in Numbers /\ Wrote(w) /\ effect[w].era = e /\ effect[w].version = v

\* Every version that is there, and every one that a call was served with, was made
\* by a write of its own; an answer carries the data its call was served with.
Versions == \A v \in 1..Len(secret) : WroteVersion(secret[v].by, era, v)
Authors ==
    \A n \in Numbers : wire[n] = "done" /\ req[n].op \in {"read", "write"} =>
        effect[n].version # 0 /\ WroteVersion(effect[n].by, effect[n].era, effect[n].version)
Answers == \A n \in Numbers : told[n].outcome = "ok" => told[n].by = effect[n].by

\* A reader is given the data of the write that was told, or would have been told,
\* the very version number the reader is told.
ReadsWhatWasWritten ==
    \A r \in Numbers : told[r].outcome = "ok" /\ req[r].op = "read" =>
        WroteVersion(told[r].by, told[r].era, told[r].version)

\* A write that was applied is never overwritten, by none of those that overlap it:
\* its data are there under its number until the whole history is destroyed.
WritesLast ==
    \A n \in Numbers : Wrote(n) /\ effect[n].era = era =>
        /\ effect[n].version \in 1..Len(secret)
        /\ secret[effect[n].version].by = n

\* A call that has been served is served once.
LEMMA ServedOnce ==
  ASSUME Inductive, [Next]_vars, NEW m \in Numbers, wire[m] = "done"
  PROVE  wire'[m] = "done" /\ effect'[m] = effect[m] /\ req'[m] = req[m]
<1>1. TypeOK /\ Handled(m)
  BY DEF Inductive
<1>2. ASSUME NEW n \in Numbers, NEW r \in Requests, Send(n, r) \/ NoClient(n, r)
      PROVE  wire'[m] = "done" /\ effect'[m] = effect[m] /\ req'[m] = req[m]
  <2>1. stage[n] = "unused" /\ n # m
    BY <1>1, <1>2 DEF Send, NoClient, Arrive, Handled
  <2>2. QED  BY <1>1, <1>2, <2>1 DEF Send, NoClient, Arrive, TypeOK
<1>3. ASSUME NEW n \in Numbers, Broker(n)
      PROVE  wire'[m] = "done" /\ effect'[m] = effect[m] /\ req'[m] = req[m]
  BY <1>3 DEF Broker, AnswerOk, AnswerRefused, AnswerLost, Fail
<1>4. ASSUME NEW n \in Numbers, NEW e, wire[n] = "pending", Serve(n, e)
      PROVE  wire'[m] = "done" /\ effect'[m] = effect[m] /\ req'[m] = req[m]
  BY <1>1, <1>4 DEF Serve, TypeOK
<1>5. ASSUME NEW n \in Numbers, OpenBao(n)
      PROVE  wire'[m] = "done" /\ effect'[m] = effect[m] /\ req'[m] = req[m]
  <2>1. CASE Refuse(n)
    BY <1>1, <2>1 DEF Refuse, TypeOK
  <2>2. CASE ~Refuse(n)
    BY <1>4, <1>5, <2>2 DEF OpenBao, StoreVersion, DeleteVersions, DestroyHistory, StoreMetadata,
                            ReadVersion, ReadMetadata, Pending
  <2>3. QED  BY <2>1, <2>2
<1>6. CASE UNCHANGED vars
  BY <1>6 DEF vars
<1>7. QED  BY <1>2, <1>3, <1>5, <1>6 DEF Next

\* The same in the next state, of a write and a version of this one.
StillWrote(w, e, v) ==
    /\ w \in Numbers /\ wire'[w] = "done" /\ req'[w].op = "write"
    /\ effect'[w].era = e /\ effect'[w].version = v

LEMMA WritesStand ==
  ASSUME Inductive, [Next]_vars, NEW w, NEW e, NEW v, WroteVersion(w, e, v)
  PROVE  StillWrote(w, e, v)
  BY ServedOnce DEF WroteVersion, StillWrote, Wrote

\* What the parts say of the next state.
LEMMA NextParts ==
  /\ Versions' <=> \A v \in 1..Len(secret') : StillWrote(secret'[v].by, era', v)
  /\ Authors' <=> \A n \in Numbers : wire'[n] = "done" /\ req'[n].op \in {"read", "write"} =>
        effect'[n].version # 0 /\ StillWrote(effect'[n].by, effect'[n].era, effect'[n].version)
  BY DEF Versions, Authors, WroteVersion, Wrote, StillWrote

\* A step that serves no call and leaves the path alone keeps the authors.
LEMMA QuietKeepsAuthors ==
  ASSUME Inductive, [Next]_vars, Versions, Authors, UNCHANGED <<era, secret>>,
         \A m \in Numbers : wire'[m] = "done" => wire[m] = "done"
  PROVE  Versions' /\ Authors'
<1>1. \A v \in 1..Len(secret') : StillWrote(secret'[v].by, era', v)
  BY WritesStand DEF Versions
<1>2. ASSUME NEW m \in Numbers, wire'[m] = "done", req'[m].op \in {"read", "write"}
      PROVE  effect'[m].version # 0 /\ StillWrote(effect'[m].by, effect'[m].era, effect'[m].version)
  <2>1. effect'[m] = effect[m] /\ req'[m] = req[m] /\ wire[m] = "done"
    BY <1>2, ServedOnce
  <2>2. effect[m].version # 0 /\ WroteVersion(effect[m].by, effect[m].era, effect[m].version)
    BY <1>2, <2>1 DEF Authors
  <2>3. StillWrote(effect[m].by, effect[m].era, effect[m].version)
    BY <2>2, WritesStand
  <2>4. QED  BY <2>1, <2>2, <2>3
<1>3. QED  BY <1>1, <1>2, NextParts

\* One that serves a call keeps them if what it serves is what a write made.
LEMMA ServeKeepsAuthors ==
  ASSUME Inductive, [Next]_vars, Authors, NEW n \in Numbers, NEW e, Serve(n, e),
         req[n].op \in {"read", "write"} => e.version # 0 /\ StillWrote(e.by, e.era, e.version)
  PROVE  Authors'
<1>1. effect'[n] = e /\ req' = req /\ \A m \in Numbers : m # n => wire'[m] = wire[m]
  BY DEF Inductive, Serve, TypeOK
<1>2. ASSUME NEW m \in Numbers, wire'[m] = "done", req'[m].op \in {"read", "write"}
      PROVE  effect'[m].version # 0 /\ StillWrote(effect'[m].by, effect'[m].era, effect'[m].version)
  <2>1. CASE m = n
    BY <1>1, <1>2, <2>1
  <2>2. CASE m # n
    <3>1. wire[m] = "done" /\ effect'[m] = effect[m] /\ req'[m] = req[m]
      BY <1>1, <1>2, <2>2, ServedOnce
    <3>2. effect[m].version # 0 /\ WroteVersion(effect[m].by, effect[m].era, effect[m].version)
      BY <1>2, <3>1 DEF Authors
    <3>3. StillWrote(effect[m].by, effect[m].era, effect[m].version)
      BY <3>2, WritesStand
    <3>4. QED  BY <3>1, <3>2, <3>3
  <2>3. QED  BY <2>1, <2>2
<1>3. QED  BY <1>2, NextParts

LEMMA OpenBaoKeepsAuthors ==
  ASSUME Inductive, [Next]_vars, Versions, Authors, NEW n \in Numbers, OpenBao(n)
  PROVE  Versions' /\ Authors'
<1>1. /\ TypeOK /\ n \in Nat /\ secret \in Seq([by: Nat, deleted: BOOLEAN]) /\ Len(secret) \in Nat
      /\ secret \in [1..Len(secret) -> [by: Nat, deleted: BOOLEAN]]
  BY NumbersAreNat, LenProperties DEF Inductive, TypeOK
<1>2. \A v \in 1..Len(secret) : StillWrote(secret[v].by, era, v)
  BY WritesStand DEF Versions
<1>3. CASE StoreVersion(n)
  <2> DEFINE entry == [by |-> n, deleted |-> FALSE]
             e == [era |-> era, version |-> Len(secret) + 1, by |-> n]
  <2>1. /\ secret' = Append(secret, entry) /\ era' = era /\ req[n].op = "write"
        /\ Serve(n, e)
    BY <1>3 DEF StoreVersion, Pending
  <2>2. entry \in [by: Nat, deleted: BOOLEAN] /\ entry.by = n
    BY <1>1
  <2>3. e.version = Len(secret) + 1 /\ e.by = n /\ e.era = era
    OBVIOUS
  <2> HIDE DEF entry, e
  <2>4. /\ Len(secret') = Len(secret) + 1 /\ secret'[Len(secret) + 1] = entry
        /\ \A v \in 1..Len(secret) : secret'[v] = secret[v]
    BY <1>1, <2>1, <2>2, AppendProperties
  <2>5. wire'[n] = "done" /\ effect'[n] = e /\ req' = req
    BY <1>1, <2>1 DEF Serve, TypeOK
  <2>6. StillWrote(n, era, Len(secret) + 1)
    BY <2>1, <2>3, <2>5 DEF StillWrote
  <2>7. \A v \in 1..Len(secret') : StillWrote(secret'[v].by, era', v)
    <3>1. ASSUME NEW v \in 1..Len(secret') PROVE v \in 1..Len(secret) \/ v = Len(secret) + 1
      BY <1>1, <2>4
    <3>2. QED  BY <1>2, <2>1, <2>2, <2>4, <2>6, <3>1
  <2>8. e.version # 0
    BY <1>1, <2>3
  <2>9. Authors'
    BY <2>1, <2>3, <2>6, <2>8, ServeKeepsAuthors
  <2>10. QED  BY <2>7, <2>9, NextParts
<1>4. CASE DeleteVersions(n)
  <2> DEFINE mark(v) == [secret[v] EXCEPT !.deleted = @ \/ v \in req[n].versions]
  <2>1. /\ secret' = [v \in 1..Len(secret) |-> mark(v)] /\ era' = era /\ req[n].op = "delete"
        /\ Serve(n, [era |-> era, version |-> Len(secret), by |-> 0])
    BY <1>4 DEF DeleteVersions, Pending
  <2>2. ASSUME NEW v \in 1..Len(secret)
        PROVE  mark(v).by = secret[v].by /\ mark(v) \in [by: Nat, deleted: BOOLEAN]
    <3>1. secret[v] \in [by: Nat, deleted: BOOLEAN]
      BY <1>1
    <3>2. mark(v).by = secret[v].by
      BY <3>1
    <3>3. mark(v) \in [by: Nat, deleted: BOOLEAN]
      BY <3>1
    <3>4. QED  BY <3>2, <3>3
  <2> HIDE DEF mark
  <2>3. secret' \in Seq([by: Nat, deleted: BOOLEAN]) /\ DOMAIN secret' = 1..Len(secret)
    BY <1>1, <2>1, <2>2, SeqDef
  <2>4. Len(secret') = Len(secret)
    BY <1>1, <2>3, LenProperties
  <2>5. \A v \in 1..Len(secret') : StillWrote(secret'[v].by, era', v)
    BY <1>2, <2>1, <2>2, <2>4
  <2>6. Authors'
    BY <2>1, ServeKeepsAuthors
  <2>7. QED  BY <2>5, <2>6, NextParts
<1>5. CASE DestroyHistory(n)
  <2>1. secret' = <<>> /\ req[n].op = "delete" /\ Serve(n, [era |-> era + 1, version |-> 0, by |-> 0])
    BY <1>5 DEF DestroyHistory, Pending
  <2>2. Len(secret') = 0
    BY <2>1, EmptySeq
  <2>3. Authors'
    BY <2>1, ServeKeepsAuthors
  <2>4. QED  BY <2>2, <2>3, NextParts
<1>6. CASE StoreMetadata(n) \/ ReadMetadata(n)
  <2>1. PICK e : Serve(n, e) /\ UNCHANGED <<era, secret>> /\ req[n].op \notin {"read", "write"}
    BY <1>6 DEF StoreMetadata, ReadMetadata, Pending, bao
  <2>2. Authors'
    BY <2>1, ServeKeepsAuthors
  <2>3. QED  BY <1>2, <2>1, <2>2, NextParts
<1>7. CASE ReadVersion(n)
  <2> DEFINE w == VersionWanted(n)
             e == [era |-> era, version |-> w, by |-> secret[w].by]
  <2>1. Serve(n, e) /\ UNCHANGED <<era, secret>> /\ w \in 1..Len(secret)
    BY <1>7 DEF ReadVersion, Readable, bao
  <2>2. e.era = era /\ e.version = w /\ e.by = secret[w].by /\ w # 0
    BY <1>1, <2>1
  <2> HIDE DEF w, e
  <2>3. Authors'
    BY <1>2, <2>1, <2>2, ServeKeepsAuthors
  <2>4. QED  BY <1>2, <2>1, <2>3, NextParts
<1>8. CASE Refuse(n)
  <2>1. UNCHANGED <<era, secret>> /\ \A m \in Numbers : wire'[m] = "done" => wire[m] = "done"
    BY <1>1, <1>8 DEF Refuse, Reason, TypeOK, bao
  <2>2. QED  BY <2>1, QuietKeepsAuthors
<1>9. QED  BY <1>3, <1>4, <1>5, <1>6, <1>7, <1>8 DEF OpenBao

LEMMA AnswersKept ==
  ASSUME Inductive, [Next]_vars, Answers
  PROVE  Answers'
<1> SUFFICES ASSUME NEW m \in Numbers, told'[m].outcome = "ok" PROVE told'[m].by = effect'[m].by
  BY DEF Answers
<1>1. TypeOK /\ Handled(m)
  BY DEF Inductive
<1>2. CASE told'[m] = told[m]
  <2>1. wire[m] = "done"
    BY <1>1, <1>2 DEF Handled
  <2>2. effect'[m] = effect[m]
    BY <2>1, ServedOnce
  <2>3. QED  BY <1>2, <2>2 DEF Answers
<1>3. CASE told'[m] # told[m]
  <2>1. ASSUME NEW n \in Numbers, NEW r \in Requests, Send(n, r) \/ NoClient(n, r)
        PROVE  FALSE
    BY <1>1, <1>3, <2>1 DEF Send, NoClient, Tell, TypeOK
  <2>2. ASSUME NEW n \in Numbers, NEW outcome, outcome # "ok", Fail(n, outcome)
        PROVE  FALSE
    BY <1>1, <1>3, <2>2 DEF Fail, Tell, TypeOK
  <2>3. ASSUME NEW n \in Numbers, AnswerRefused(n) \/ AnswerLost(n) PROVE FALSE
    BY <2>2, <2>3 DEF AnswerRefused, AnswerLost, LostOutcome, Translate
  <2>4. ASSUME NEW n \in Numbers, AnswerOk(n) PROVE told'[m].by = effect'[m].by
    <3>1. told'[n].by = effect[n].by /\ effect' = effect /\ m = n
      BY <1>1, <1>3, <2>4 DEF AnswerOk, TypeOK
    <3>2. QED  BY <3>1
  <2>5. told' = told => FALSE
    BY <1>3
  <2>6. ASSUME NEW n \in Numbers, OpenBao(n) PROVE told' = told
    BY <2>6 DEF OpenBao, StoreVersion, DeleteVersions, DestroyHistory, StoreMetadata,
                ReadVersion, ReadMetadata, Refuse, Serve
  <2>7. QED  BY <2>1, <2>3, <2>4, <2>5, <2>6 DEF Next, Broker, vars
<1>4. QED  BY <1>2, <1>3

LEMMA AuthorsKept == Inductive /\ Versions /\ Authors /\ [Next]_vars => Versions' /\ Authors'
<1> SUFFICES ASSUME Inductive, Versions, Authors, [Next]_vars PROVE Versions' /\ Authors'
  OBVIOUS
<1>1. TypeOK
  BY DEF Inductive
<1>2. ASSUME NEW n \in Numbers, NEW r \in Requests, Send(n, r) \/ NoClient(n, r)
      PROVE  Versions' /\ Authors'
  <2>1. UNCHANGED <<era, secret>> /\ \A m \in Numbers : wire'[m] = "done" => wire[m] = "done"
    BY <1>1, <1>2 DEF Send, NoClient, Arrive, TypeOK, bao
  <2>2. QED  BY <2>1, QuietKeepsAuthors
<1>3. ASSUME NEW n \in Numbers, Broker(n) PROVE Versions' /\ Authors'
  <2>1. UNCHANGED <<era, secret>> /\ wire' = wire
    BY <1>3 DEF Broker, AnswerOk, AnswerRefused, AnswerLost, Fail, bao
  <2>2. QED  BY <2>1, QuietKeepsAuthors
<1>4. CASE UNCHANGED vars
  BY <1>4, QuietKeepsAuthors DEF vars, bao
<1>5. QED  BY <1>2, <1>3, <1>4, OpenBaoKeepsAuthors DEF Next

\* Whatever overlaps, retries and is answered late, a reader is given the data that
\* were written under the number it is told.
THEOREM ReadersGetWrittenData == Spec => []ReadsWhatWasWritten
<1>1. Init => Versions /\ Authors /\ Answers
  BY EmptySeq DEF Init, Versions, Authors, Answers
<1>2. Inductive /\ Authors /\ Answers => ReadsWhatWasWritten
  BY DEF Inductive, Handled, Authors, Answers, ReadsWhatWasWritten
<1>3. QED  BY <1>1, <1>2, AuthorsKept, AnswersKept, KvInductive, PTL DEF Spec

\* No write that was applied is lost to another that overlapped it.
THEOREM WritesSurvive == Spec => []WritesLast
<1>1. Init => Versions /\ Authors
  BY EmptySeq DEF Init, Versions, Authors
<1>2. Inductive /\ Versions /\ Authors => WritesLast
  <2> SUFFICES ASSUME Inductive, Versions, Authors, NEW n \in Numbers, Wrote(n), effect[n].era = era
               PROVE  effect[n].version \in 1..Len(secret) /\ secret[effect[n].version].by = n
    BY DEF WritesLast
  <2> DEFINE v == effect[n].version
  <2>1. v # 0 /\ v <= Len(secret) /\ v \in Nat /\ Len(secret) \in Nat
    BY LenProperties DEF Inductive, Stored, Authors, Wrote, TypeOK, Served
  <2>2. v \in 1..Len(secret)
    BY <2>1
  <2>3. WroteVersion(secret[v].by, era, v)
    BY <2>2 DEF Versions
  <2>4. secret[v].by = n
    BY <2>3 DEF WroteVersion, Inductive, Distinct
  <2>5. QED  BY <2>2, <2>4
<1>3. QED  BY <1>1, <1>2, AuthorsKept, KvInductive, PTL DEF Spec
=============================================================================
