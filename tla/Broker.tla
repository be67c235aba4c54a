------------------------------- MODULE Broker -------------------------------
(***************************************************************************)
(* The request pipeline of broker/app.py over the shared session of        *)
(* VaultSession.  A request is parsed by the event loop, identified by the *)
(* `caller` dependency on a pool thread, validated, given a pool thread    *)
(* for its handler, authorized, run against OpenBao, audited and answered. *)
(* Its pool thread is the thread VaultSession knows it by.                 *)
(***************************************************************************)
EXTENDS Naturals, Sequences, FiniteSets

CONSTANTS
    Requests,     \* the requests of one behaviour
    Inputs,       \* what arrives: records of a route and the checks it fails
    PoolSize,     \* the tokens of the thread pool that sync handlers run on
    NoThread, AuthMethods, Materials

Routes == {"secret", "administration", "contract", "health"}

\* What can be wrong with a request, by the place that finds it: "syntax" a
\* body that is no JSON, "schema" one of the wrong shape, "uncaught" arguments
\* on which validate_arguments raises something other than ValueError.
Faults == {"syntax", "identity", "instance", "schema",
           "path", "prefix", "permission",
           "digest", "operation", "uncaught", "family"}

\* The faults a request of each route can have: a GET has no body to be
\* malformed, and validate_arguments raises one thing.
FaultsOf(route) ==
    CASE route = "secret" -> Faults \ {"digest", "operation", "uncaught", "family"}
      [] route = "administration" -> Faults \ {"path", "prefix", "permission"}
      [] route = "contract" -> {"identity", "instance", "family"}
      [] route = "health" -> {}

ASSUME InputsAssumption ==
    /\ Inputs \subseteq [route : Routes, faults : SUBSET Faults]
    /\ \A i \in Inputs : i.faults \subseteq FaultsOf(i.route)
    /\ \A i \in Inputs : ~({"operation", "uncaught"} \subseteq i.faults)
ASSUME PoolSizeAssumption == PoolSize \in Nat \ {0}
ASSUME SessionAssumption ==
    /\ NoThread \notin Requests
    /\ AuthMethods \subseteq {"approle", "token"}
    /\ "good" \in Materials /\ Materials \subseteq {"good", "refused", "unreadable"}

VARIABLES
    auth, lock, client, made, drops, pc, kind, held, outcome, live, material, started,
    input,      \* what each request asks for, NoThread before it arrives
    stage,      \* how far each request has come
    pool,       \* the requests whose handler occupies a pool thread
    contacted,  \* the requests authorized and handed to VaultClient
    log,        \* the audit records of each request
    status      \* the class of the HTTP status each request is answered with

S == INSTANCE VaultSession WITH
         Threads <- Requests,
         Kinds <- {"kv", "administration", "mounted"},
         MaxRequests <- Cardinality(Requests)

sessionVars ==
    <<auth, lock, client, made, drops, pc, kind, held, outcome, live, material, started>>
pipelineVars == <<input, stage, pool, contacted, log, status>>
vars == <<sessionVars, pipelineVars>>

Init ==
    /\ S!Init
    /\ input = [r \in Requests |-> NoThread]
    /\ stage = [r \in Requests |-> "unseen"]
    /\ pool = {}
    /\ contacted = {}
    /\ log = [r \in Requests |-> <<>>]
    /\ status = [r \in Requests |-> "none"]

Fails(r, checks) == input[r].faults \intersect checks # {}

Enter(r, s) == stage' = [stage EXCEPT ![r] = s]

\* audit.record, and the status of the exception raised or the value returned.
Conclude(r, o, s) ==
    /\ log' = [log EXCEPT ![r] = Append(@, o)]
    /\ status' = [status EXCEPT ![r] = s]
    /\ Enter(r, "audited")

\* Mutant: a refusal filed under a name no reader of the log knows.
DenyMislabelled(r) == Conclude(r, "refused", "4xx")
Deny(r) == Conclude(r, "denied", "4xx")

-----------------------------------------------------------------------------
(* the event loop and the caller dependency *)

Arrive(r, i) ==
    /\ stage[r] = "unseen"
    /\ input' = [input EXCEPT ![r] = i]
    /\ Enter(r, "arrived")
    /\ UNCHANGED <<sessionVars, pool, contacted, log, status>>

\* RequestValidationError, before the caller is known or after.
MalformedRequest(r) ==
    /\ \/ stage[r] = "arrived" /\ Fails(r, {"syntax"})
       \/ stage[r] = "identified" /\ Fails(r, {"schema"})
    /\ Deny(r)
    /\ UNCHANGED <<sessionVars, input, pool, contacted>>

\* `caller` holds a pool thread, but only for as long as it computes; the
\* health route does not depend on it.
IdentifyCaller(r) ==
    /\ stage[r] = "arrived"
    /\ ~Fails(r, {"syntax"})
    /\ input[r].route = "health" \/ Cardinality(pool) < PoolSize
    /\ IF input[r].route # "health" /\ Fails(r, {"identity", "instance"})
       THEN Deny(r)
       ELSE Enter(r, "identified") /\ UNCHANGED <<log, status>>
    /\ UNCHANGED <<sessionVars, input, pool, contacted>>

\* Mutant: an `async def` handler, run by the event loop and not by the pool.
EnterHandlerOnLoop(r) ==
    /\ stage[r] = "identified"
    /\ ~Fails(r, {"schema"})
    /\ Enter(r, "handling")
    /\ UNCHANGED <<sessionVars, input, pool, contacted, log, status>>

EnterHandler(r) ==
    /\ stage[r] = "identified"
    /\ ~Fails(r, {"schema"})
    /\ Cardinality(pool) < PoolSize
    /\ pool' = pool \union {r}
    /\ Enter(r, "handling")
    /\ UNCHANGED <<sessionVars, input, contacted, log, status>>

-----------------------------------------------------------------------------
(* the handlers, each on its pool thread *)

\* What the handler of a route checks before it does anything else.
Checks(route) ==
    CASE route = "secret" -> {"path", "prefix", "permission"}
      [] route = "administration" -> {"digest", "operation", "family"}
      [] route = "contract" -> {"family"}
      [] route = "health" -> {}

\* validate_arguments comes after the digest and before the family.
Raises(r) == Fails(r, {"uncaught"}) /\ ~Fails(r, {"syntax", "identity", "instance", "schema", "digest"})

\* Mutant: authorize forgets may_write and may_delete.
PermittedByPrefix(r) == ~Raises(r) /\ ~Fails(r, Checks(input[r].route) \ {"permission"})
Permitted(r) == ~Raises(r) /\ ~Fails(r, Checks(input[r].route))

Refuse(r) ==
    /\ stage[r] = "handling"
    /\ ~Raises(r)
    /\ Fails(r, Checks(input[r].route))
    /\ Deny(r)
    /\ UNCHANGED <<sessionVars, input, pool, contacted>>

\* KeyError or TypeError out of validate_arguments: only ValueError is caught,
\* so the framework answers 500 and nothing is recorded.
ArgumentsRaise(r) ==
    /\ stage[r] = "handling"
    /\ Raises(r)
    /\ status' = [status EXCEPT ![r] = "5xx"]
    /\ Enter(r, "audited")
    /\ UNCHANGED <<sessionVars, input, pool, contacted, log>>

ContractServed(r) ==
    /\ stage[r] = "handling"
    /\ input[r].route = "contract"
    /\ Permitted(r)
    /\ Conclude(r, "ok", "2xx")
    /\ UNCHANGED <<sessionVars, input, pool, contacted>>

\* vault.health builds a client of its own: no lock, no token, no record.
HealthServed(r) ==
    /\ stage[r] = "handling"
    /\ input[r].route = "health"
    /\ status' = [status EXCEPT ![r] = "2xx"]
    /\ Enter(r, "audited")
    /\ UNCHANGED <<sessionVars, input, pool, contacted, log>>

\* run() calls into VaultClient.
BeginRun(r) ==
    /\ stage[r] = "handling"
    /\ Permitted(r)
    /\ \/ input[r].route = "secret" /\ S!Start(r, "kv")
       \/ input[r].route = "administration"
          /\ \E k \in {"administration", "mounted"} : S!Start(r, k)
    /\ contacted' = contacted \union {r}
    /\ Enter(r, "running")
    /\ UNCHANGED <<input, pool, log, status>>

SessionStep(r) ==
    /\ S!Step(r)
    /\ UNCHANGED pipelineVars

\* initialize, unseal, join and the public status reads carry no token.
RunUnauthenticated(r) ==
    /\ stage[r] = "handling"
    /\ input[r].route = "administration"
    /\ Permitted(r)
    /\ contacted' = contacted \union {r}
    /\ Enter(r, "tokenless")
    /\ UNCHANGED <<sessionVars, input, pool, log, status>>

\* The three ways run() ends.  Mutant: without its blanket `except Exception`
\* an unforeseen error leaves run() with no record.
ConcludeNamedErrorsOnly(r, o, s) ==
    IF o = "error" /\ s = "5xx"
    THEN /\ status' = [status EXCEPT ![r] = s]
         /\ Enter(r, "audited")
         /\ UNCHANGED log
    ELSE Conclude(r, o, s)
ConcludeRun(r, o, s) == Conclude(r, o, s)

Succeeded(r) == outcome[r] = "ok" \/ stage[r] = "tokenless"

EndRun(r) ==
    /\ \/ stage[r] = "running" /\ pc[r] = "idle"
       \/ stage[r] = "tokenless"
    /\ \/ Succeeded(r) /\ ConcludeRun(r, "ok", "2xx")
       \/ \E s \in {"4xx", "5xx"} : ConcludeRun(r, "error", s)
       \/ input[r].route = "administration" /\ ConcludeRun(r, "unknown", "5xx")
    /\ UNCHANGED <<sessionVars, input, pool, contacted>>

\* Mutant: the pool thread is never given back.
AnswerKeepingThread(r) ==
    /\ stage[r] = "audited"
    /\ Enter(r, "answered")
    /\ UNCHANGED <<sessionVars, input, pool, contacted, log, status>>

\* The handler returns or raises, its thread goes back to the pool, and the
\* response is sent.
Answer(r) ==
    /\ stage[r] = "audited"
    /\ pool' = pool \ {r}
    /\ Enter(r, "answered")
    /\ UNCHANGED <<sessionVars, input, contacted, log, status>>

-----------------------------------------------------------------------------
Handle(r) ==
    \/ MalformedRequest(r) \/ IdentifyCaller(r) \/ EnterHandler(r)
    \/ Refuse(r) \/ ArgumentsRaise(r) \/ ContractServed(r) \/ HealthServed(r)
    \/ BeginRun(r) \/ SessionStep(r) \/ RunUnauthenticated(r) \/ EndRun(r)
    \/ Answer(r)

Environment ==
    /\ \/ \E c \in live : S!Revoke(c)
       \/ \E m \in Materials : S!Rotate(m)
    /\ UNCHANGED pipelineVars

Next == \/ \E r \in Requests : Handle(r) \/ \E i \in Inputs : Arrive(r, i)
        \/ Environment

Spec == Init /\ [][Next]_vars

\* The event loop and the pool threads run whatever can run; nothing says in
\* which order waiting requests are given a pool thread or the session lock.
FairSpec == Spec /\ \A r \in Requests : WF_vars(Handle(r))

-----------------------------------------------------------------------------
(* Properties *)

Stages == {"unseen", "arrived", "identified", "handling", "running",
           "tokenless", "audited", "answered"}

TypeOK ==
    /\ S!TypeOK
    /\ input \in [Requests -> Inputs \union {NoThread}]
    /\ stage \in [Requests -> Stages]
    /\ pool \subseteq Requests
    /\ contacted \subseteq Requests
    /\ log \in [Requests -> {<<>>, <<"denied">>, <<"ok">>, <<"error">>, <<"unknown">>}]
    /\ status \in [Requests -> {"none", "2xx", "4xx", "5xx"}]

\* The requests that AuditedService speaks of: all but health probes and those
\* on which validate_arguments raises something other than ValueError.
Audited(r) == stage[r] # "unseen" /\ input[r].route # "health" /\ ~Raises(r)
AbstractPhase(r) == IF ~Audited(r) THEN "unseen"
                    ELSE IF stage[r] = "audited" THEN "recorded"
                    ELSE IF stage[r] = "answered" THEN "answered" ELSE "received"
AbstractReply(r) == IF AbstractPhase(r) = "answered" THEN status[r] ELSE "none"
Abstract == INSTANCE AuditedService WITH
                phase <- [r \in Requests |-> AbstractPhase(r)],
                records <- log,
                reply <- [r \in Requests |-> AbstractReply(r)]

\* How far a request has come, against what it has passed, done and left behind.
Tracked(r) ==
    /\ stage[r] # "unseen" => input[r] \in Inputs
    /\ stage[r] \in {"identified", "handling", "running", "tokenless"} =>
          ~Fails(r, {"syntax", "identity", "instance"})
    /\ stage[r] \in {"handling", "running", "tokenless"} => ~Fails(r, {"schema"}) /\ r \in pool
    /\ pc[r] # "idle" => stage[r] = "running"
    /\ stage[r] \in {"unseen", "arrived", "identified", "handling"} => r \notin contacted
    /\ stage[r] \in {"running", "tokenless"} => r \in contacted /\ input[r].route # "health"
    /\ r \in contacted => stage[r] # "unseen" /\ input[r].faults = {}
    /\ stage[r] \notin {"audited", "answered"} => log[r] = <<>> /\ status[r] = "none"
    /\ stage[r] \in {"audited", "answered"} /\ Audited(r) =>
          \E o \in Abstract!Outcomes : log[r] = <<o>> /\ status[r] \in Abstract!Replies(o)

Inductive == TypeOK /\ S!Inductive /\ \A r \in Requests : Tracked(r)

\* A thread inside VaultClient is a pool thread running that request's handler,
\* so everyone who waits for the session lock also occupies the pool.
SessionUsersOccupyThePool ==
    \A r \in Requests : pc[r] # "idle" => r \in pool /\ stage[r] = "running"

\* Refusal happens before OpenBao is touched: only a request that fails no
\* check reaches it, whichever of several checks it fails.
OnlyPermittedReachOpenBao == \A r \in contacted : input[r].faults = {}

\* "Every request is audited": an answered request has a record.
EveryRequestAudited ==
    \A r \in Requests :
        stage[r] = "answered" /\ input[r].route # "health" => log[r] # <<>>

\* Exactly one record per request, written before the answer, agreeing with
\* it, and a denied request never reached OpenBao: the pipeline implements
\* AuditedService.
ImplementsAuditedService == Abstract!Spec

\* Every request, a health probe included, is answered although there are more
\* requests than pool threads and one login serves them all, unless OpenBao has
\* refused that login.
EveryRequestAnswered ==
    \A r \in Requests :
        (stage[r] = "arrived") ~> (stage[r] = "answered" \/ \E u \in Requests : pc[u] = "relock")
=============================================================================
