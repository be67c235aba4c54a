---------------------------- MODULE BrokerProofs ----------------------------
(***************************************************************************)
(* The request pipeline for any number of requests, inputs and pool        *)
(* threads: it runs the session of VaultSession, reaches OpenBao only for  *)
(* requests that fail no check, and implements AuditedService.             *)
(***************************************************************************)
EXTENDS Broker, TLAPS

-----------------------------------------------------------------------------
(* What VaultSessionProofs proves of the session, brought over *)

SP == INSTANCE VaultSessionProofs WITH
          Threads <- Requests,
          Kinds <- {"kv", "administration", "mounted"},
          MaxRequests <- Cardinality(Requests)

LEMMA SessionAssumptions ==
  /\ SP!NoThreadAssumption /\ SP!AuthMethodsAssumption
  /\ SP!KindsAssumption /\ SP!MaterialsAssumption
  BY SessionAssumption
  DEF SP!NoThreadAssumption, SP!AuthMethodsAssumption, SP!KindsAssumption, SP!MaterialsAssumption

\* SP extends the module that S instantiates, so their definitions agree.
LEMMA SameInductive == (S!Inductive <=> SP!Inductive) /\ (S!Inductive' <=> SP!Inductive')
  BY DEF S!Inductive, SP!Inductive, S!TypeOK, SP!TypeOK, S!Locations, SP!Locations,
         S!Outcomes, SP!Outcomes

LEMMA SameStep ==
  ASSUME NEW t \in Requests
  PROVE  S!Step(t) <=> SP!Step(t)
  BY DEF S!Step, SP!Step, S!GetCached, SP!GetCached, S!BeginLogin, SP!BeginLogin,
         S!LoginGranted, SP!LoginGranted, S!LoginUnreadable, SP!LoginUnreadable,
         S!LoginFailed, SP!LoginFailed, S!LoginRefused, SP!LoginRefused,
         S!CallAnswered, SP!CallAnswered, S!MountedDocumentAnswered, SP!MountedDocumentAnswered,
         S!KvRefused, SP!KvRefused, S!AdministrationRefused, SP!AdministrationRefused,
         S!CallFailed, SP!CallFailed, S!Invalidate, SP!Invalidate,
         S!Goto, SP!Goto, S!Finish, SP!Finish, S!LockFree, SP!LockFree,
         S!ClientAfterDrop, SP!ClientAfterDrop,
         S!sharedVars, SP!sharedVars, S!worldVars, SP!worldVars

LEMMA SameNext == [S!Next]_S!vars <=> [SP!Next]_SP!vars
<1>1. S!Environment <=> SP!Environment
  BY DEF S!Environment, SP!Environment, S!Start, SP!Start, S!Revoke, SP!Revoke,
         S!Rotate, SP!Rotate, S!Goto, SP!Goto, S!sharedVars, SP!sharedVars,
         S!threadVars, SP!threadVars
<1>2. S!vars = SP!vars /\ S!vars' = SP!vars'
  BY DEF S!vars, SP!vars, S!sharedVars, SP!sharedVars, S!threadVars, SP!threadVars,
         S!worldVars, SP!worldVars
<1>3. QED  BY <1>1, <1>2, SameStep DEF S!Next, SP!Next

\* Whatever the pipeline does is, for the session, one of its steps or nothing.
LEMMA SessionMoves == [Next]_vars => [S!Next]_S!vars
<1> SUFFICES ASSUME [Next]_vars PROVE [S!Next]_S!vars
  OBVIOUS
<1> DEFINE Idle == UNCHANGED sessionVars
<1>1. ASSUME Idle PROVE UNCHANGED S!vars
  BY <1>1 DEF sessionVars, S!vars, S!sharedVars, S!threadVars, S!worldVars
<1>2. ASSUME NEW r \in Requests, Handle(r) PROVE S!Next \/ Idle
  <2>1. CASE BeginRun(r)
    BY <2>1 DEF BeginRun, S!Next, S!Environment
  <2>2. CASE SessionStep(r)
    BY <2>2 DEF SessionStep, S!Next
  <2>3. CASE \/ MalformedRequest(r) \/ IdentifyCaller(r) \/ EnterHandler(r)
             \/ Refuse(r) \/ ArgumentsRaise(r) \/ ContractServed(r) \/ HealthServed(r)
             \/ RunUnauthenticated(r) \/ EndRun(r) \/ Answer(r)
    BY <2>3 DEF MalformedRequest, IdentifyCaller, EnterHandler, Refuse, ArgumentsRaise,
                ContractServed, HealthServed, RunUnauthenticated, EndRun, Answer
  <2>4. QED  BY <1>2, <2>1, <2>2, <2>3 DEF Handle
<1>3. ASSUME NEW r \in Requests, NEW i \in Inputs, Arrive(r, i) PROVE Idle
  BY <1>3 DEF Arrive
<1>4. CASE Environment
  BY <1>4 DEF Environment, S!Next, S!Environment
<1>5. CASE UNCHANGED vars
  BY <1>5, <1>1 DEF vars
<1>6. QED  BY <1>1, <1>2, <1>3, <1>4, <1>5 DEF Next

LEMMA SessionInit == Init => S!Inductive
<1>1. SP!Init => SP!Inductive
  BY SessionAssumptions, SP!InitInductive
<1>2. S!Init => SP!Init
  BY DEF S!Init, SP!Init
<1>3. QED  BY <1>1, <1>2, SameInductive DEF Init

LEMMA SessionNext == S!Inductive /\ [Next]_vars => S!Inductive'
<1>1. SP!Inductive /\ [SP!Next]_SP!vars => SP!Inductive'
  BY SessionAssumptions, SP!NextKeepsInductive
<1>2. QED  BY <1>1, SameInductive, SameNext, SessionMoves

\* The pipeline drives VaultClient only the way VaultSession says, so what is
\* proved of the session holds of the broker.
THEOREM BrokerRunsSession == Spec => S!Spec
<1>1. Init => S!Init
  BY DEF Init
<1>2. QED  BY <1>1, SessionMoves, PTL DEF Spec, S!Spec

-----------------------------------------------------------------------------
(* The pipeline's own invariant *)

\* The part of Inductive that is not the session's.
PipelineOK ==
    /\ input \in [Requests -> Inputs \union {NoThread}]
    /\ stage \in [Requests -> Stages]
    /\ pool \subseteq Requests
    /\ contacted \subseteq Requests
    /\ log \in [Requests -> {<<>>, <<"denied">>, <<"ok">>, <<"error">>, <<"unknown">>}]
    /\ status \in [Requests -> {"none", "2xx", "4xx", "5xx"}]
    /\ \A r \in Requests : Tracked(r)

LEMMA InductiveParts ==
  /\ Inductive <=> S!Inductive /\ PipelineOK
  /\ Inductive' <=> S!Inductive' /\ PipelineOK'
  BY DEF Inductive, TypeOK, PipelineOK, S!Inductive

LEMMA InitPipeline == Init => PipelineOK
  BY DEF Init, S!Init, PipelineOK, Stages, Tracked, Fails

\* A request is tracked as long as nothing that Tracked speaks of changes.
LEMMA Bystander ==
  ASSUME NEW q \in Requests, Tracked(q),
         pc'[q] = pc[q], input'[q] = input[q], stage'[q] = stage[q],
         q \in pool' <=> q \in pool, q \in contacted' <=> q \in contacted,
         log'[q] = log[q], status'[q] = status[q]
  PROVE  Tracked(q)'
  BY DEF Tracked, Fails, Audited, Raises, Abstract!Outcomes, Abstract!Replies

\* A record and the status that goes with it.
LEMMA RecordAgrees ==
  /\ "4xx" \in Abstract!Replies("denied") /\ "2xx" \in Abstract!Replies("ok")
  /\ "4xx" \in Abstract!Replies("error") /\ "5xx" \in Abstract!Replies("error")
  /\ "5xx" \in Abstract!Replies("unknown")
  /\ Abstract!Outcomes = {"denied", "ok", "error", "unknown"}
  /\ \A o : Append(<<>>, o) = <<o>>
  BY DEF Abstract!Replies, Abstract!Outcomes

\* The checks a request has passed once its handler lets it through are all
\* the checks it could have failed.
LEMMA PermittedFaultless ==
  ASSUME NEW r \in Requests, input[r] \in Inputs, Permitted(r),
         ~Fails(r, {"syntax", "identity", "instance", "schema"})
  PROVE  input[r].faults = {}
<1> DEFINE i == input[r]
<1>1. i.route \in Routes /\ i.faults \subseteq FaultsOf(i.route)
  BY InputsAssumption
<1>2. CASE i.route = "secret"
  BY <1>1, <1>2 DEF Permitted, Fails, Checks, FaultsOf, Faults
<1>3. CASE i.route = "administration"
  BY <1>1, <1>3 DEF Permitted, Raises, Fails, Checks, FaultsOf, Faults
<1>4. CASE i.route = "contract"
  BY <1>1, <1>4 DEF Permitted, Fails, Checks, FaultsOf
<1>5. CASE i.route = "health"
  BY <1>1, <1>5 DEF FaultsOf
<1>6. QED  BY <1>1, <1>2, <1>3, <1>4, <1>5 DEF Routes

LEMMA ArriveKeeps ==
  ASSUME PipelineOK, NEW r \in Requests, NEW i \in Inputs, Arrive(r, i)
  PROVE  PipelineOK'
<1>1. ASSUME NEW q \in Requests, q # r PROVE Tracked(q)'
  BY <1>1, Bystander DEF PipelineOK, Arrive, Enter, sessionVars
<1>2. Tracked(r)'
  BY DEF PipelineOK, Arrive, Enter, Tracked, sessionVars, Stages
<1>3. QED  BY <1>1, <1>2 DEF PipelineOK, Arrive, Enter, Stages

\* A refusal or a success leaves one record that the status agrees with.
LEMMA ConcludeKeeps ==
  ASSUME PipelineOK, NEW r \in Requests, NEW o \in Abstract!Outcomes, NEW s \in {"2xx", "4xx", "5xx"},
         s \in Abstract!Replies(o),
         stage[r] \in {"arrived", "identified", "handling", "running", "tokenless"},
         pc[r] = "idle", Conclude(r, o, s),
         UNCHANGED <<pc, input, pool, contacted>>
  PROVE  PipelineOK'
<1>1. log[r] = <<>> /\ Append(<<>>, o) = <<o>> /\ o \in {"denied", "ok", "error", "unknown"}
  BY RecordAgrees DEF PipelineOK, Tracked
<1>2. log' = [log EXCEPT ![r] = <<o>>] /\ status' = [status EXCEPT ![r] = s]
      /\ stage' = [stage EXCEPT ![r] = "audited"]
  BY <1>1 DEF Conclude, Enter
<1>3. ASSUME NEW q \in Requests, q # r PROVE Tracked(q)'
  BY <1>2, <1>3, Bystander DEF PipelineOK
<1>4. Tracked(r)'
  BY <1>2 DEF PipelineOK, Tracked, Fails, Abstract!Outcomes, Abstract!Replies
<1>5. QED  BY <1>1, <1>2, <1>3, <1>4 DEF PipelineOK, Stages

\* The event loop and the caller dependency.
LEMMA AdmissionKeeps ==
  ASSUME PipelineOK, NEW r \in Requests,
         MalformedRequest(r) \/ IdentifyCaller(r) \/ EnterHandler(r)
  PROVE  PipelineOK'
<1>1. pc[r] = "idle"
  BY DEF PipelineOK, Tracked, MalformedRequest, IdentifyCaller, EnterHandler
<1>2. CASE MalformedRequest(r)
  BY <1>1, <1>2, RecordAgrees, ConcludeKeeps DEF MalformedRequest, Deny, sessionVars
<1>3. CASE IdentifyCaller(r)
  <2>1. CASE Deny(r)
    BY <1>1, <1>3, <2>1, RecordAgrees, ConcludeKeeps DEF IdentifyCaller, Deny, sessionVars
  <2>2. CASE ~Deny(r)
    <3>1. /\ Enter(r, "identified") /\ stage[r] = "arrived"
          /\ UNCHANGED <<pc, input, pool, contacted, log, status>>
          /\ ~Fails(r, {"syntax"})
          /\ input[r].route = "health" \/ ~Fails(r, {"identity", "instance"})
      BY <1>3, <2>2 DEF IdentifyCaller, sessionVars
    <3>2. ASSUME NEW q \in Requests, q # r PROVE Tracked(q)'
      BY <3>1, <3>2, Bystander DEF PipelineOK, Enter
    <3>3. ~Fails(r, {"syntax", "identity", "instance"})
      <4>1. input[r] \in Inputs
        BY <3>1 DEF PipelineOK, Tracked
      <4>2. CASE input[r].route = "health"
        BY <4>1, <4>2, InputsAssumption DEF FaultsOf, Fails
      <4>3. CASE input[r].route # "health"
        BY <3>1, <4>3 DEF Fails
      <4>4. QED  BY <4>2, <4>3
    <3>4. Tracked(r)'
      BY <3>1, <3>3 DEF PipelineOK, Tracked, Enter, Fails
    <3>5. QED  BY <3>1, <3>2, <3>4 DEF PipelineOK, Enter, Stages
  <2>3. QED  BY <2>1, <2>2
<1>4. CASE EnterHandler(r)
  <2>1. ASSUME NEW q \in Requests, q # r PROVE Tracked(q)'
    BY <1>4, <2>1, Bystander DEF PipelineOK, EnterHandler, Enter, sessionVars
  <2>2. Tracked(r)'
    BY <1>4 DEF PipelineOK, Tracked, EnterHandler, Enter, Fails, sessionVars
  <2>3. QED  BY <1>4, <2>1, <2>2 DEF PipelineOK, EnterHandler, Enter, Stages
<1>5. QED  BY <1>2, <1>3, <1>4

\* The ways a handler ends without the session.
LEMMA HandlerEndsKeeps ==
  ASSUME PipelineOK, NEW r \in Requests,
         \/ Refuse(r) \/ ArgumentsRaise(r) \/ ContractServed(r) \/ HealthServed(r)
         \/ EndRun(r) \/ Answer(r)
  PROVE  PipelineOK'
<1>1. CASE Refuse(r)
  BY <1>1, RecordAgrees, ConcludeKeeps DEF PipelineOK, Tracked, Refuse, Deny, sessionVars
<1>2. CASE ContractServed(r)
  BY <1>2, RecordAgrees, ConcludeKeeps DEF PipelineOK, Tracked, ContractServed, sessionVars
<1>3. CASE EndRun(r)
  <2>1. pc[r] = "idle" /\ stage[r] \in {"running", "tokenless"} /\ UNCHANGED <<pc, input, pool, contacted>>
    BY <1>3 DEF PipelineOK, Tracked, EndRun, sessionVars
  <2>2. PICK o \in Abstract!Outcomes, s \in {"2xx", "4xx", "5xx"} :
            Conclude(r, o, s) /\ s \in Abstract!Replies(o)
    BY <1>3, RecordAgrees DEF EndRun, ConcludeRun
  <2>3. QED  BY <2>1, <2>2, ConcludeKeeps
<1>4. CASE ArgumentsRaise(r) \/ HealthServed(r)
  <2>1. /\ Enter(r, "audited") /\ stage[r] = "handling"
        /\ \E s \in {"2xx", "5xx"} : status' = [status EXCEPT ![r] = s]
        /\ UNCHANGED <<pc, input, pool, contacted, log>>
    BY <1>4 DEF ArgumentsRaise, HealthServed, sessionVars
  <2>2. ASSUME NEW q \in Requests, q # r PROVE Tracked(q)'
    BY <2>1, <2>2, Bystander DEF PipelineOK, Enter
  <2>3. ~Audited(r)'
    BY <1>4, <2>1 DEF ArgumentsRaise, HealthServed, Audited, Raises, Fails
  <2>4. Tracked(r)'
    BY <2>1, <2>3 DEF PipelineOK, Tracked, Enter, Fails
  <2>5. QED  BY <2>1, <2>2, <2>4 DEF PipelineOK, Enter, Stages
<1>5. CASE Answer(r)
  <2>1. ASSUME NEW q \in Requests, q # r PROVE Tracked(q)'
    BY <1>5, <2>1, Bystander DEF PipelineOK, Answer, Enter, sessionVars
  <2>2. Tracked(r)'
    BY <1>5 DEF PipelineOK, Tracked, Answer, Enter, Fails, Audited, Raises, sessionVars,
                Abstract!Outcomes, Abstract!Replies
  <2>3. QED  BY <1>5, <2>1, <2>2 DEF PipelineOK, Answer, Enter, Stages
<1>6. QED  BY <1>1, <1>2, <1>3, <1>4, <1>5

\* Only a request without a fault is handed to VaultClient, and while it is
\* there nothing else happens to it.
LEMMA RunKeeps ==
  ASSUME PipelineOK, S!Inductive, NEW r \in Requests,
         BeginRun(r) \/ SessionStep(r) \/ RunUnauthenticated(r)
  PROVE  PipelineOK'
<1>1. pc \in [Requests -> S!Locations]
  BY DEF S!Inductive, S!TypeOK
<1>2. CASE BeginRun(r) \/ RunUnauthenticated(r)
  <2>1. /\ stage[r] = "handling" /\ Permitted(r) /\ input[r].route # "health"
        /\ contacted' = contacted \union {r}
        /\ UNCHANGED <<input, pool, log, status>>
    BY <1>2 DEF BeginRun, RunUnauthenticated
  <2>2. \/ Enter(r, "running") /\ \E l : pc' = [pc EXCEPT ![r] = l]
        \/ Enter(r, "tokenless") /\ pc' = pc
    BY <1>2 DEF BeginRun, RunUnauthenticated, S!Start, S!Goto, sessionVars
  <2>3. input[r].faults = {}
    <3>1. input[r] \in Inputs /\ ~Fails(r, {"syntax", "identity", "instance", "schema"})
      BY <2>1 DEF PipelineOK, Tracked, Fails
    <3>2. QED  BY <2>1, <3>1, PermittedFaultless
  <2>4. ASSUME NEW q \in Requests, q # r PROVE Tracked(q)'
    BY <1>1, <2>1, <2>2, <2>4, Bystander DEF PipelineOK, Enter
  <2>5. Tracked(r)'
    BY <1>1, <2>1, <2>2, <2>3 DEF PipelineOK, Tracked, Enter, Fails
  <2>6. QED  BY <2>1, <2>2, <2>4, <2>5 DEF PipelineOK, Enter, Stages
<1>3. CASE SessionStep(r)
  <2>1. pc[r] # "idle" /\ \E l : pc' = [pc EXCEPT ![r] = l]
    BY <1>3 DEF SessionStep, S!Step, S!GetCached, S!BeginLogin, S!LoginGranted,
                S!LoginUnreadable, S!LoginFailed, S!LoginRefused, S!CallAnswered,
                S!MountedDocumentAnswered, S!KvRefused, S!AdministrationRefused,
                S!CallFailed, S!Invalidate, S!Finish, S!Goto
  <2>2. UNCHANGED pipelineVars
    BY <1>3 DEF SessionStep
  <2>3. ASSUME NEW q \in Requests, q # r PROVE Tracked(q)'
    BY <1>1, <2>1, <2>2, <2>3, Bystander DEF PipelineOK, pipelineVars
  <2>4. stage[r] = "running"
    BY <2>1 DEF PipelineOK, Tracked
  <2>5. Tracked(r)'
    BY <2>2, <2>4 DEF PipelineOK, Tracked, Fails, pipelineVars
  <2>6. QED  BY <2>2, <2>3, <2>5 DEF PipelineOK, pipelineVars
<1>4. QED  BY <1>2, <1>3

LEMMA NextKeepsInductive == Inductive /\ [Next]_vars => Inductive'
<1> SUFFICES ASSUME Inductive, [Next]_vars PROVE Inductive'
  OBVIOUS
<1>1. PipelineOK /\ S!Inductive /\ S!Inductive'
  BY InductiveParts, SessionNext
<1>2. ASSUME UNCHANGED <<pc, pipelineVars>> PROVE PipelineOK'
  <2>1. ASSUME NEW q \in Requests PROVE Tracked(q)'
    BY <1>1, <1>2, Bystander DEF PipelineOK, pipelineVars
  <2>2. QED  BY <1>1, <1>2, <2>1 DEF PipelineOK, pipelineVars
<1>3. ASSUME NEW r \in Requests, Handle(r) PROVE PipelineOK'
  BY <1>1, <1>3, AdmissionKeeps, HandlerEndsKeeps, RunKeeps DEF Handle
<1>4. ASSUME NEW r \in Requests, NEW i \in Inputs, Arrive(r, i) PROVE PipelineOK'
  BY <1>1, <1>4, ArriveKeeps
<1>5. ASSUME Environment PROVE PipelineOK'
  BY <1>2, <1>5 DEF Environment, S!Revoke, S!Rotate, S!threadVars, pipelineVars
<1>6. ASSUME UNCHANGED vars PROVE PipelineOK'
  BY <1>2, <1>6 DEF vars, sessionVars
<1>7. PipelineOK'
  BY <1>3, <1>4, <1>5, <1>6 DEF Next
<1>8. QED  BY <1>1, <1>7, InductiveParts

\* The inductive invariant of the pipeline and the session together.
THEOREM BrokerInductive == Spec => []Inductive
<1>1. Init => Inductive
  BY SessionInit, InitPipeline, InductiveParts
<1>2. QED  BY <1>1, NextKeepsInductive, PTL DEF Spec

\* Whoever waits for the session lock or for OpenBao occupies the pool.
THEOREM BrokerSessionUsersOccupyThePool == Spec => []SessionUsersOccupyThePool
<1>1. Inductive => SessionUsersOccupyThePool
  BY DEF Inductive, Tracked, SessionUsersOccupyThePool
<1>2. QED  BY <1>1, BrokerInductive, PTL

\* Only requests that fail no check of their route reach OpenBao.
THEOREM BrokerOnlyPermittedReachOpenBao == Spec => []OnlyPermittedReachOpenBao
<1>1. Inductive => OnlyPermittedReachOpenBao
  BY DEF Inductive, TypeOK, Tracked, OnlyPermittedReachOpenBao
<1>2. QED  BY <1>1, BrokerInductive, PTL

-----------------------------------------------------------------------------
(* The pipeline implements AuditedService *)

\* The abstract state of a request depends on nothing but its own.
LEMMA AbstractBystander ==
  ASSUME NEW q \in Requests, input'[q] = input[q], stage'[q] = stage[q], status'[q] = status[q]
  PROVE  AbstractPhase(q)' = AbstractPhase(q) /\ AbstractReply(q)' = AbstractReply(q)
  BY DEF AbstractPhase, AbstractReply, Audited, Raises, Fails

\* A step that no request's abstract state shows is a stutter.
LEMMA AbstractStill ==
  ASSUME \A q \in Requests : AbstractPhase(q)' = AbstractPhase(q) /\ AbstractReply(q)' = AbstractReply(q),
         UNCHANGED <<contacted, log>>
  PROVE  UNCHANGED Abstract!vars
  BY DEF Abstract!vars

\* Arriving is being received, by a request that is audited.
LEMMA ArriveRefines ==
  ASSUME Inductive, NEW r \in Requests, NEW i \in Inputs, Arrive(r, i)
  PROVE  [Abstract!Next]_Abstract!vars
<1>1. /\ stage[r] = "unseen" /\ stage' = [stage EXCEPT ![r] = "arrived"]
      /\ input' = [input EXCEPT ![r] = i] /\ UNCHANGED <<contacted, log, status>>
  BY DEF Arrive, Enter
<1>2. stage \in [Requests -> Stages] /\ input \in [Requests -> Inputs \union {NoThread}]
  BY DEF Inductive, TypeOK
<1>3. \A q \in Requests : q # r =>
         AbstractPhase(q)' = AbstractPhase(q) /\ AbstractReply(q)' = AbstractReply(q)
  BY <1>1, <1>2, AbstractBystander
<1>4. AbstractPhase(r) = "unseen" /\ AbstractReply(r) = "none"
  BY <1>1 DEF AbstractPhase, AbstractReply, Audited
<1>5. AbstractPhase(r)' \in {"unseen", "received"} /\ AbstractReply(r)' = "none"
  BY <1>1, <1>2 DEF AbstractPhase, AbstractReply
<1>6. CASE AbstractPhase(r)' = "received"
  <2>1. Abstract!Receive(r)
    BY <1>1, <1>3, <1>4, <1>5, <1>6 DEF Abstract!Receive
  <2>2. QED  BY <2>1 DEF Abstract!Next
<1>7. CASE AbstractPhase(r)' = "unseen"
  BY <1>1, <1>3, <1>4, <1>5, <1>7, AbstractStill
<1>8. QED  BY <1>5, <1>6, <1>7

\* Every record that Conclude writes is one the service may write.
LEMMA ConcludeRefines ==
  ASSUME Inductive, NEW r \in Requests, NEW o \in Abstract!Outcomes, NEW s,
         stage[r] \in {"arrived", "identified", "handling", "running", "tokenless"},
         Audited(r), Conclude(r, o, s), UNCHANGED <<input, contacted>>,
         o = "denied" => r \notin contacted,
         o \in {"error", "unknown"} => r \in contacted
  PROVE  Abstract!Next
<1>1. /\ stage \in [Requests -> Stages] /\ input \in [Requests -> Inputs \union {NoThread}]
      /\ log \in [Requests -> {<<>>, <<"denied">>, <<"ok">>, <<"error">>, <<"unknown">>}]
      /\ status \in [Requests -> {"none", "2xx", "4xx", "5xx"}] /\ log[r] = <<>>
  BY DEF Inductive, TypeOK, Tracked
<1>2. /\ stage' = [stage EXCEPT ![r] = "audited"] /\ log' = [log EXCEPT ![r] = <<o>>]
      /\ status' = [status EXCEPT ![r] = s]
  BY <1>1, RecordAgrees DEF Conclude, Enter
<1>3. \A q \in Requests : q # r =>
         AbstractPhase(q)' = AbstractPhase(q) /\ AbstractReply(q)' = AbstractReply(q)
  BY <1>1, <1>2, AbstractBystander
<1>4. AbstractPhase(r) = "received" /\ AbstractReply(r) = "none"
  BY DEF AbstractPhase, AbstractReply
<1>5. Audited(r)'
  BY <1>1, <1>2 DEF Audited, Raises, Fails
<1>6. AbstractPhase(r)' = "recorded" /\ AbstractReply(r)' = "none"
  BY <1>1, <1>2, <1>5 DEF AbstractPhase, AbstractReply
<1>7. Abstract!Record(r, o)
  BY <1>2, <1>3, <1>4, <1>6 DEF Abstract!Record
<1>8. QED  BY <1>7 DEF Abstract!Next

\* Moving on without a record is invisible.
LEMMA AdvanceRefines ==
  ASSUME Inductive, NEW r \in Requests,
         NEW t \in {"identified", "handling", "running", "tokenless"},
         stage[r] \in {"arrived", "identified", "handling"}, Enter(r, t),
         UNCHANGED <<input, log, status>>
  PROVE  /\ \A q \in Requests :
               AbstractPhase(q)' = AbstractPhase(q) /\ AbstractReply(q)' = AbstractReply(q)
         /\ Audited(r) => AbstractPhase(r) = "received"
<1>1. stage \in [Requests -> Stages] /\ stage' = [stage EXCEPT ![r] = t]
  BY DEF Inductive, TypeOK, Enter
<1>2. Audited(r)' = Audited(r)
  BY <1>1 DEF Audited, Raises, Fails
<1>3. AbstractPhase(r)' = AbstractPhase(r) /\ AbstractReply(r)' = AbstractReply(r)
  BY <1>1, <1>2 DEF AbstractPhase, AbstractReply
<1>4. ASSUME NEW q \in Requests, q # r
      PROVE  AbstractPhase(q)' = AbstractPhase(q) /\ AbstractReply(q)' = AbstractReply(q)
  BY <1>1, <1>4, AbstractBystander
<1>5. Audited(r) => AbstractPhase(r) = "received"
  BY DEF AbstractPhase
<1>6. QED  BY <1>3, <1>4, <1>5

LEMMA AdmissionRefines ==
  ASSUME Inductive, NEW r \in Requests,
         MalformedRequest(r) \/ IdentifyCaller(r) \/ EnterHandler(r)
  PROVE  [Abstract!Next]_Abstract!vars
<1>1. stage[r] \in {"arrived", "identified"} /\ r \notin contacted /\ input[r] \in Inputs
      /\ UNCHANGED <<input, contacted>>
  BY DEF Inductive, Tracked, MalformedRequest, IdentifyCaller, EnterHandler
<1>2. input[r].route = "health" => input[r].faults = {}
  BY <1>1, InputsAssumption DEF FaultsOf
<1>3. CASE Deny(r)
  <2>1. Fails(r, {"syntax", "identity", "instance", "schema"})
    BY <1>3, <1>1 DEF MalformedRequest, IdentifyCaller, EnterHandler, Fails, Deny, Conclude, Enter,
                      Inductive, TypeOK
  <2>2. Audited(r)
    BY <1>1, <1>2, <2>1 DEF Audited, Raises, Fails
  <2>3. QED  BY <1>1, <1>3, <2>2, RecordAgrees, ConcludeRefines DEF Deny
<1>4. CASE ~Deny(r)
  <2>1. (Enter(r, "identified") \/ Enter(r, "handling")) /\ UNCHANGED <<log, status>>
    BY <1>4 DEF MalformedRequest, IdentifyCaller, EnterHandler
  <2>2. QED  BY <1>1, <2>1, AdvanceRefines, AbstractStill
<1>5. QED  BY <1>3, <1>4

LEMMA HandlerRefines ==
  ASSUME Inductive, NEW r \in Requests,
         Refuse(r) \/ ContractServed(r) \/ EndRun(r)
  PROVE  [Abstract!Next]_Abstract!vars
<1>1. CASE Refuse(r)
  <2>1. stage[r] = "handling" /\ r \notin contacted /\ UNCHANGED <<input, contacted>>
        /\ Audited(r)
    BY <1>1 DEF Refuse, Inductive, Tracked, Audited, Checks, Fails
  <2>2. QED  BY <1>1, <2>1, RecordAgrees, ConcludeRefines DEF Refuse, Deny
<1>2. CASE ContractServed(r)
  <2>1. stage[r] = "handling" /\ UNCHANGED <<input, contacted>> /\ Audited(r)
    BY <1>2 DEF ContractServed, Permitted, Audited
  <2>2. QED  BY <1>2, <2>1, RecordAgrees, ConcludeRefines DEF ContractServed
<1>3. CASE EndRun(r)
  <2>1. stage[r] \in {"running", "tokenless"} /\ r \in contacted /\ UNCHANGED <<input, contacted>>
        /\ Audited(r)
    BY <1>3 DEF EndRun, Inductive, Tracked, Audited, Raises, Fails
  <2>2. PICK o \in Abstract!Outcomes, s \in {"2xx", "4xx", "5xx"} : Conclude(r, o, s) /\ o # "denied"
    BY <1>3, RecordAgrees DEF EndRun, ConcludeRun
  <2>3. QED  BY <2>1, <2>2, ConcludeRefines
<1>4. QED  BY <1>1, <1>2, <1>3

\* Handing a request to VaultClient is the contact with OpenBao.
LEMMA RunRefines ==
  ASSUME Inductive, NEW r \in Requests, BeginRun(r) \/ RunUnauthenticated(r)
  PROVE  [Abstract!Next]_Abstract!vars
<1>1. /\ stage[r] = "handling" /\ Permitted(r) /\ input[r].route # "health"
      /\ contacted' = contacted \union {r} /\ UNCHANGED <<input, log, status>>
      /\ Enter(r, "running") \/ Enter(r, "tokenless")
  BY DEF BeginRun, RunUnauthenticated
<1>2. Audited(r)
  BY <1>1 DEF Permitted, Audited
<1>3. /\ AbstractPhase(r) = "received"
      /\ \A q \in Requests :
            AbstractPhase(q)' = AbstractPhase(q) /\ AbstractReply(q)' = AbstractReply(q)
  BY <1>1, <1>2, AdvanceRefines
<1>4. Abstract!Contact(r)
  BY <1>1, <1>3 DEF Abstract!Contact
<1>5. QED  BY <1>4 DEF Abstract!Next

\* The requests AuditedService does not speak of end out of its sight.
LEMMA UnauditedRefines ==
  ASSUME Inductive, NEW r \in Requests, ArgumentsRaise(r) \/ HealthServed(r)
  PROVE  [Abstract!Next]_Abstract!vars
<1>1. /\ stage[r] = "handling" /\ Enter(r, "audited")
      /\ \E s : status' = [status EXCEPT ![r] = s]
      /\ UNCHANGED <<input, contacted, log>>
  BY DEF ArgumentsRaise, HealthServed
<1>2. /\ stage \in [Requests -> Stages] /\ stage' = [stage EXCEPT ![r] = "audited"]
      /\ status \in [Requests -> {"none", "2xx", "4xx", "5xx"}]
  BY <1>1 DEF Inductive, TypeOK, Enter
<1>3. ~Audited(r) /\ ~Audited(r)'
  BY <1>1 DEF ArgumentsRaise, HealthServed, Audited, Raises, Fails
<1>4. AbstractPhase(r)' = AbstractPhase(r) /\ AbstractReply(r)' = AbstractReply(r)
  BY <1>3 DEF AbstractPhase, AbstractReply
<1>5. ASSUME NEW q \in Requests, q # r
      PROVE  AbstractPhase(q)' = AbstractPhase(q) /\ AbstractReply(q)' = AbstractReply(q)
  BY <1>1, <1>2, <1>5, AbstractBystander
<1>6. QED  BY <1>1, <1>4, <1>5, AbstractStill

\* The answer is one the record allows.
LEMMA AnswerRefines ==
  ASSUME Inductive, NEW r \in Requests, Answer(r)
  PROVE  [Abstract!Next]_Abstract!vars
<1>1. /\ stage[r] = "audited" /\ stage' = [stage EXCEPT ![r] = "answered"]
      /\ UNCHANGED <<input, contacted, log, status>>
      /\ stage \in [Requests -> Stages]
  BY DEF Answer, Enter, Inductive, TypeOK
<1>2. \A q \in Requests : q # r =>
         AbstractPhase(q)' = AbstractPhase(q) /\ AbstractReply(q)' = AbstractReply(q)
  BY <1>1, AbstractBystander
<1>3. Audited(r)' = Audited(r)
  BY <1>1 DEF Audited, Raises, Fails
<1>4. CASE Audited(r)
  <2>1. AbstractPhase(r) = "recorded" /\ AbstractPhase(r)' = "answered"
        /\ AbstractReply(r)' = status[r]
    BY <1>1, <1>3, <1>4 DEF AbstractPhase, AbstractReply
  <2>2. status[r] \in Abstract!Replies(log[r][1])
    <3>1. PICK o \in Abstract!Outcomes : log[r] = <<o>> /\ status[r] \in Abstract!Replies(o)
      BY <1>1, <1>4 DEF Inductive, Tracked
    <3>2. log[r][1] = o
      BY <3>1
    <3>3. QED  BY <3>1, <3>2
  <2>3. Abstract!Answer(r)
    BY <1>1, <1>2, <2>1, <2>2 DEF Abstract!Answer
  <2>4. QED  BY <2>3 DEF Abstract!Next
<1>5. CASE ~Audited(r)
  <2>1. AbstractPhase(r)' = AbstractPhase(r) /\ AbstractReply(r)' = AbstractReply(r)
    BY <1>3, <1>5 DEF AbstractPhase, AbstractReply
  <2>2. QED  BY <1>1, <1>2, <2>1, AbstractStill
<1>6. QED  BY <1>4, <1>5

\* Exactly one record per audited request, written before the answer and in
\* agreement with it, and nothing denied ever reached OpenBao.
THEOREM BrokerImplementsAuditedService == Spec => ImplementsAuditedService
<1>1. Init => Abstract!Init
  BY DEF Init, Abstract!Init, AbstractPhase, AbstractReply, Audited
<1>2. Inductive /\ [Next]_vars => [Abstract!Next]_Abstract!vars
  <2> SUFFICES ASSUME Inductive, [Next]_vars PROVE [Abstract!Next]_Abstract!vars
    OBVIOUS
  <2>1. ASSUME UNCHANGED pipelineVars PROVE UNCHANGED Abstract!vars
    <3>1. \A q \in Requests :
             AbstractPhase(q)' = AbstractPhase(q) /\ AbstractReply(q)' = AbstractReply(q)
      BY <2>1, AbstractBystander DEF pipelineVars
    <3>2. QED  BY <2>1, <3>1, AbstractStill DEF pipelineVars
  <2>2. ASSUME NEW r \in Requests, Handle(r) PROVE [Abstract!Next]_Abstract!vars
    BY <2>1, <2>2, AdmissionRefines, HandlerRefines, RunRefines, UnauditedRefines, AnswerRefines
    DEF Handle, SessionStep
  <2>3. ASSUME NEW r \in Requests, NEW i \in Inputs, Arrive(r, i)
        PROVE  [Abstract!Next]_Abstract!vars
    BY <2>3, ArriveRefines
  <2>4. ASSUME Environment \/ UNCHANGED vars PROVE UNCHANGED Abstract!vars
    BY <2>1, <2>4 DEF Environment, vars
  <2>5. QED  BY <2>2, <2>3, <2>4 DEF Next
<1>3. QED
  BY <1>1, <1>2, BrokerInductive, PTL DEF Spec, ImplementsAuditedService, Abstract!Spec

-----------------------------------------------------------------------------
(* What is proved of the session, in the broker *)

\* Nothing the pipeline does lets two threads log in at once, makes a client that
\* no dropped one calls for, or leaves a refused client in the cache.
THEOREM BrokerSessionSafe ==
  Spec => [](S!LoginsExclusive /\ S!LoginsBounded /\ S!RefusedClientDropped)
<1>1. Inductive => S!LoginsExclusive /\ S!LoginsBounded /\ S!RefusedClientDropped
  BY DEF Inductive, S!Inductive, S!TypeOK, S!LoginsExclusive, S!LoginsBounded, S!RefusedClientDropped
<1>2. QED  BY <1>1, BrokerInductive, PTL

\* A request whose login OpenBao refused is never answered and keeps its pool
\* thread; so does, from then on, whoever waits for the session.
THEOREM RefusedLoginKeepsThread ==
  ASSUME NEW r \in Requests, NEW u \in Requests
  PROVE  Spec => [](pc[r] = "relock" /\ pc[u] \in {"get", "invalidate", "relock"} =>
                        [](u \in pool /\ stage[u] = "running"))
<1> DEFINE Waits == pc[u] \in {"get", "invalidate", "relock"}
<1>1. Inductive /\ pc[r] = "relock" => SP!Blocked(r)
  BY SessionAssumption, SameInductive
  DEF Inductive, SP!Inductive, SP!Blocked
<1>2. Inductive /\ SP!Blocked(r) /\ Waits /\ [Next]_vars => SP!Blocked(r)' /\ Waits'
  <2>1. SUFFICES ASSUME Inductive, SP!Blocked(r), Waits, [Next]_vars
                 PROVE  SP!Blocked(r)' /\ Waits'
    OBVIOUS
  <2>2. SP!Inductive /\ [SP!Next]_SP!vars
    BY <2>1, SameInductive, SameNext, SessionMoves DEF Inductive
  <2>3. SP!Blocked(r)' /\ SP!WaitersWait
    BY <2>1, <2>2, SessionAssumptions, SP!BlockedStays
  <2>4. QED  BY <2>1, <2>3 DEF SP!WaitersWait
<1>3. Inductive /\ Waits => u \in pool /\ stage[u] = "running"
  BY DEF Inductive, Tracked
<1>4. QED  BY <1>1, <1>2, <1>3, BrokerInductive, PTL DEF Spec
-----------------------------------------------------------------------------
(* What the audit log can be relied on for *)

\* Nothing that reached OpenBao is recorded as denied, or was a health probe.
DeniedReachedNothing == \A r \in contacted : log[r] # <<"denied">> /\ input[r].route # "health"

LEMMA NextKeepsDeniedReachedNothing ==
  Inductive /\ DeniedReachedNothing /\ [Next]_vars => DeniedReachedNothing'
<1> SUFFICES ASSUME Inductive, DeniedReachedNothing, [Next]_vars PROVE DeniedReachedNothing'
  OBVIOUS
<1>1. /\ contacted \subseteq Requests
      /\ \A q \in Requests : Tracked(q)
      /\ DOMAIN log = Requests
  BY DEF Inductive, TypeOK
<1>2. ASSUME UNCHANGED <<input, contacted, log>> PROVE DeniedReachedNothing'
  BY <1>2 DEF DeniedReachedNothing
<1>3. ASSUME NEW r \in Requests, NEW o, log' = [log EXCEPT ![r] = <<o>>],
             UNCHANGED <<input, contacted>>,
             o = "denied" => r \notin contacted
      PROVE  DeniedReachedNothing'
  BY <1>1, <1>3 DEF DeniedReachedNothing
<1>4. ASSUME NEW r \in Requests, contacted' = contacted \union {r}, log[r] = <<>>,
             input[r].route # "health", UNCHANGED <<input, log>>
      PROVE  DeniedReachedNothing'
  BY <1>4 DEF DeniedReachedNothing
<1>5. ASSUME NEW r \in Requests, NEW o, NEW s, Conclude(r, o, s), UNCHANGED <<input, contacted>>,
             stage[r] \notin {"audited", "answered"}, o = "denied" => r \notin contacted
      PROVE  DeniedReachedNothing'
  <2>1. log[r] = <<>> /\ Append(<<>>, o) = <<o>>
    BY <1>1, <1>5, RecordAgrees DEF Tracked
  <2>2. log' = [log EXCEPT ![r] = <<o>>]
    BY <1>5, <2>1 DEF Conclude
  <2>3. QED  BY <1>3, <1>5, <2>2
<1>6. ASSUME NEW r \in Requests, Handle(r) PROVE DeniedReachedNothing'
  <2>1. CASE MalformedRequest(r) \/ IdentifyCaller(r) \/ Refuse(r)
    <3>1. /\ stage[r] \in {"arrived", "identified", "handling"} /\ UNCHANGED <<input, contacted>>
          /\ Deny(r) \/ log' = log
      BY <2>1 DEF MalformedRequest, IdentifyCaller, Refuse
    <3>2. r \notin contacted
      BY <1>1, <3>1 DEF Tracked
    <3>3. QED  BY <1>2, <1>5, <3>1, <3>2 DEF Deny
  <2>2. CASE ContractServed(r)
    BY <1>5, <2>2 DEF ContractServed
  <2>3. CASE BeginRun(r) \/ RunUnauthenticated(r)
    <3>1. /\ stage[r] = "handling" /\ input[r].route # "health"
          /\ contacted' = contacted \union {r} /\ UNCHANGED <<input, log>>
      BY <2>3 DEF BeginRun, RunUnauthenticated
    <3>2. log[r] = <<>>
      BY <1>1, <3>1 DEF Tracked
    <3>3. QED  BY <1>4, <3>1, <3>2
  <2>4. CASE EndRun(r)
    <3>1. /\ stage[r] \in {"running", "tokenless"} /\ UNCHANGED <<input, contacted>>
          /\ \E o \in {"ok", "error", "unknown"}, s \in {"2xx", "4xx", "5xx"} : Conclude(r, o, s)
      BY <2>4 DEF EndRun, ConcludeRun
    <3>2. QED  BY <1>5, <3>1
  <2>5. CASE EnterHandler(r) \/ ArgumentsRaise(r) \/ HealthServed(r) \/ SessionStep(r) \/ Answer(r)
    BY <1>2, <2>5 DEF EnterHandler, ArgumentsRaise, HealthServed, SessionStep, Answer, pipelineVars
  <2>6. QED  BY <1>6, <2>1, <2>2, <2>3, <2>4, <2>5 DEF Handle
<1>7. ASSUME NEW r \in Requests, NEW i \in Inputs, Arrive(r, i) PROVE DeniedReachedNothing'
  <2>1. r \notin contacted
    BY <1>1, <1>7 DEF Arrive, Tracked
  <2>2. QED  BY <1>1, <1>7, <2>1 DEF Arrive, DeniedReachedNothing, Inductive, TypeOK
<1>8. ASSUME Environment \/ UNCHANGED vars PROVE DeniedReachedNothing'
  BY <1>2, <1>8 DEF Environment, vars, pipelineVars
<1>9. QED  BY <1>6, <1>7, <1>8 DEF Next

\* A request that reached OpenBao is answered only with a record that says so,
\* and with a status that agrees with the record; the only answers without any
\* record are those to health probes and to arguments on which
\* validate_arguments raises something other than ValueError.
ReachedIsRecorded ==
    \A r \in Requests : stage[r] = "answered" =>
        /\ r \in contacted =>
              \E o \in {"ok", "error", "unknown"} : log[r] = <<o>> /\ status[r] \in Abstract!Replies(o)
        /\ log[r] = <<>> => input[r].route = "health" \/ Raises(r)

\* However many requests share the pool and the session, each one that reached
\* OpenBao is answered only once `run` has recorded how it ended.
THEOREM BrokerReachedIsRecorded == Spec => []ReachedIsRecorded
<1>1. Init => DeniedReachedNothing
  BY DEF Init, DeniedReachedNothing
<1>2. Inductive /\ DeniedReachedNothing => ReachedIsRecorded
  <2> SUFFICES ASSUME Inductive, DeniedReachedNothing, NEW r \in Requests, stage[r] = "answered"
               PROVE  /\ r \in contacted => \E o \in {"ok", "error", "unknown"} :
                             log[r] = <<o>> /\ status[r] \in Abstract!Replies(o)
                      /\ log[r] = <<>> => input[r].route = "health" \/ Raises(r)
    BY DEF ReachedIsRecorded
  <2>1. Tracked(r)
    BY DEF Inductive
  <2>2. Audited(r) => \E o \in Abstract!Outcomes : log[r] = <<o>> /\ status[r] \in Abstract!Replies(o)
    BY <2>1 DEF Tracked
  <2>3. ASSUME r \in contacted
        PROVE  Audited(r) /\ log[r] # <<"denied">>
    BY <2>1, <2>3 DEF DeniedReachedNothing, Tracked, Audited, Raises, Fails
  <2>4. log[r] = <<>> => ~Audited(r)
    BY <2>2
  <2>5. log[r] = <<>> => input[r].route = "health" \/ Raises(r)
    BY <2>4 DEF Audited
  <2>6. QED  BY <2>2, <2>3, <2>5, RecordAgrees
<1>3. QED  BY <1>1, <1>2, NextKeepsDeniedReachedNothing, BrokerInductive, PTL DEF Spec

\* Whatever happens to a request after its record is neither in the record nor
\* against it: record, status and input stay, VaultClient is not called again.
Settled(r) ==
    /\ log'[r] = log[r] /\ status'[r] = status[r] /\ input'[r] = input[r]
    /\ pc[r] = "idle" /\ pc'[r] = "idle"
    /\ r \in contacted' <=> r \in contacted

RecordIsLast == \A r \in Requests : log[r] # <<>> => Settled(r)

LEMMA NextSettled == Inductive /\ [Next]_vars => RecordIsLast
<1> SUFFICES ASSUME Inductive, [Next]_vars, NEW r \in Requests, log[r] # <<>>
             PROVE  Settled(r)
  BY DEF RecordIsLast
<1>1. stage[r] \in {"audited", "answered"} /\ pc[r] = "idle"
  BY DEF Inductive, Tracked
<1>2. pc \in [Requests -> S!Locations]
  BY DEF Inductive, TypeOK, S!TypeOK
<1>3. ASSUME UNCHANGED <<pc, input, contacted, log, status>> PROVE Settled(r)
  BY <1>1, <1>3 DEF Settled
<1>4. ASSUME NEW q \in Requests, Handle(q) PROVE Settled(r)
  <2>1. CASE q = r
    <3>1. Answer(r)
      <4>1. ~S!Step(r)
        BY <1>1 DEF S!Step, S!GetCached, S!BeginLogin, S!LoginGranted,
                    S!LoginUnreadable, S!LoginFailed, S!LoginRefused, S!CallAnswered,
                    S!MountedDocumentAnswered, S!KvRefused, S!AdministrationRefused,
                    S!CallFailed, S!Invalidate
      <4>2. QED
        BY <1>1, <1>4, <2>1, <4>1
        DEF Handle, MalformedRequest, IdentifyCaller, EnterHandler, Refuse, ArgumentsRaise,
            ContractServed, HealthServed, BeginRun, SessionStep, RunUnauthenticated, EndRun
    <3>2. QED  BY <1>3, <3>1 DEF Answer, sessionVars
  <2>2. CASE q # r
    <3>1. CASE SessionStep(q)
      <4>1. \E l : pc' = [pc EXCEPT ![q] = l]
        BY <3>1 DEF SessionStep, S!Step, S!GetCached, S!BeginLogin, S!LoginGranted,
                    S!LoginUnreadable, S!LoginFailed, S!LoginRefused, S!CallAnswered,
                    S!MountedDocumentAnswered, S!KvRefused, S!AdministrationRefused,
                    S!CallFailed, S!Invalidate, S!Finish, S!Goto
      <4>2. QED  BY <1>1, <1>2, <2>2, <3>1, <4>1 DEF SessionStep, pipelineVars, Settled
    <3>2. CASE BeginRun(q) \/ RunUnauthenticated(q)
      <4>1. pc' = pc \/ \E l : pc' = [pc EXCEPT ![q] = l]
        BY <3>2 DEF BeginRun, RunUnauthenticated, S!Start, S!Goto, sessionVars
      <4>2. UNCHANGED <<input, log, status>> /\ contacted' = contacted \union {q}
        BY <3>2 DEF BeginRun, RunUnauthenticated
      <4>3. QED  BY <1>1, <1>2, <2>2, <4>1, <4>2 DEF Settled
    <3>3. CASE \/ MalformedRequest(q) \/ IdentifyCaller(q) \/ EnterHandler(q) \/ Refuse(q)
               \/ ArgumentsRaise(q) \/ ContractServed(q) \/ HealthServed(q) \/ EndRun(q) \/ Answer(q)
      <4>1. UNCHANGED <<pc, input, contacted>>
        BY <3>3 DEF MalformedRequest, IdentifyCaller, EnterHandler, Refuse, ArgumentsRaise,
                    ContractServed, HealthServed, EndRun, Answer, sessionVars
      <4>2. /\ log' = log \/ \E o : log' = [log EXCEPT ![q] = Append(@, o)]
            /\ status' = status \/ \E s : status' = [status EXCEPT ![q] = s]
        BY <3>3 DEF MalformedRequest, IdentifyCaller, EnterHandler, Refuse, ArgumentsRaise,
                    ContractServed, HealthServed, EndRun, Answer, Deny, ConcludeRun, Conclude
      <4>3. log'[r] = log[r] /\ status'[r] = status[r]
        BY <2>2, <4>2 DEF Inductive, TypeOK
      <4>4. QED  BY <1>1, <4>1, <4>3 DEF Settled
    <3>4. QED  BY <1>4, <3>1, <3>2, <3>3 DEF Handle
  <2>3. QED  BY <2>1, <2>2
<1>5. ASSUME NEW q \in Requests, NEW i \in Inputs, Arrive(q, i) PROVE Settled(r)
  <2>1. q # r
    BY <1>1, <1>5 DEF Arrive
  <2>2. QED  BY <1>1, <1>5, <2>1 DEF Arrive, Settled, sessionVars, Inductive, TypeOK
<1>6. ASSUME Environment PROVE Settled(r)
  BY <1>3, <1>6 DEF Environment, S!Revoke, S!Rotate, S!threadVars, pipelineVars
<1>7. ASSUME UNCHANGED vars PROVE Settled(r)
  BY <1>3, <1>7 DEF vars, sessionVars, pipelineVars
<1>8. QED  BY <1>4, <1>5, <1>6, <1>7 DEF Next

\* Once a request is recorded, no step of any request rewrites its record, lets
\* it reach OpenBao, or sends it back into the session: a retry, a late answer
\* or a second handler cannot change what the log says of it.
THEOREM BrokerRecordIsLast == Spec => [][RecordIsLast]_vars
<1>1. QED  BY NextSettled, BrokerInductive, PTL DEF Spec
=============================================================================
