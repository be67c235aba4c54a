---------------------------- MODULE VaultSession ----------------------------
(***************************************************************************)
(* The broker's authenticated session with OpenBao (broker/vault.py): one  *)
(* hvac client shared by every request thread, made on demand by _get      *)
(* under a non-reentrant threading.Lock and thrown away by invalidate.     *)
(*                                                                         *)
(* A request is one thread's walk through                                  *)
(*   "get"        waiting for the lock at the head of _get                 *)
(*   "login"      inside _login, holding the lock                          *)
(*   "relock"     inside _translate, called by _login, waiting for a lock  *)
(*                the thread itself holds                                  *)
(*   "call"       its call to OpenBao is in flight, no lock held           *)
(*   "invalidate" waiting for the lock at the head of invalidate           *)
(* and back to "idle" with an outcome.  Clients are numbered in the order  *)
(* they are made; 0 stands for None.  Handing out a cached client and      *)
(* dropping it are single steps: each is one critical section that touches *)
(* nothing but what the lock protects.                                     *)
(***************************************************************************)
EXTENDS Naturals, FiniteSets

CONSTANTS
    Threads,      \* the threads that handle requests
    NoThread,     \* nobody holds the lock
    AuthMethods,  \* the values BrokerConfig.auth_method may have
    Kinds,        \* the kinds of request that arrive
    Materials,    \* the states the credential material can be in
    MaxRequests   \* bound: requests started in one behaviour

ASSUME NoThreadAssumption == NoThread \notin Threads
ASSUME AuthMethodsAssumption == AuthMethods \subseteq {"approle", "token"}
ASSUME KindsAssumption == Kinds \subseteq {"kv", "administration", "mounted"}
ASSUME MaterialsAssumption ==
    "good" \in Materials /\ Materials \subseteq {"good", "refused", "unreadable"}

VARIABLES
    auth,      \* auth_method, fixed at start
    lock,      \* VaultClient._lock: the thread inside the critical section
    client,    \* VaultClient._client
    made,      \* clients made so far
    live,      \* the clients whose token OpenBao still honours
    material,  \* the AppRole pair or token file, as OpenBao would judge it
    pc,        \* where each thread is
    kind,      \* the kind of request each thread handles
    held,      \* the client each thread's request works with
    outcome,   \* how each thread's latest request ended
    drops,     \* calls of invalidate that have completed
    started    \* requests started

sharedVars == <<lock, client, made, drops>>
threadVars == <<pc, kind, held, outcome>>
worldVars == <<auth, live, material, started>>
vars == <<sharedVars, threadVars, worldVars>>

Locations == {"idle", "get", "login", "relock", "call", "invalidate"}
Outcomes == {"none", "ok", "refused", "denied", "failed", "misconfigured"}

TypeOK ==
    /\ auth \in AuthMethods
    /\ lock \in Threads \union {NoThread}
    /\ client \in Nat
    /\ made \in Nat
    /\ live \subseteq Nat
    /\ material \in Materials
    /\ pc \in [Threads -> Locations]
    /\ kind \in [Threads -> {"kv", "administration", "mounted"}]
    /\ held \in [Threads -> Nat]
    /\ outcome \in [Threads -> Outcomes]
    /\ drops \in Nat
    /\ started \in Nat

\* check_credentials has passed, so the material was readable at start.
Init ==
    /\ auth \in AuthMethods
    /\ lock = NoThread
    /\ client = 0 /\ made = 0 /\ drops = 0
    /\ live = {}
    /\ material \in Materials \ {"unreadable"}
    /\ pc = [t \in Threads |-> "idle"]
    /\ kind = [t \in Threads |-> "kv"]
    /\ held = [t \in Threads |-> 0]
    /\ outcome = [t \in Threads |-> "none"]
    /\ started = 0

\* `with self._lock` finds the lock free.  Mutant: the lock is not taken.
LockNotTaken == TRUE
LockFree == lock = NoThread

\* What invalidate leaves in _client.  Mutant: it leaves the client there.
ClientKept == client
ClientAfterDrop == 0

Goto(t, l) == pc' = [pc EXCEPT ![t] = l]

\* The request of t leaves VaultClient with outcome o.
Finish(t, o) == /\ Goto(t, "idle")
                /\ outcome' = [outcome EXCEPT ![t] = o]

-----------------------------------------------------------------------------
(* _get *)

Start(t, k) ==
    /\ pc[t] = "idle"
    /\ started < MaxRequests
    /\ Goto(t, "get")
    /\ kind' = [kind EXCEPT ![t] = k]
    /\ held' = [held EXCEPT ![t] = 0]
    /\ outcome' = [outcome EXCEPT ![t] = "none"]
    /\ started' = started + 1
    /\ UNCHANGED <<sharedVars, auth, live, material>>

GetCached(t) ==
    /\ pc[t] = "get"
    /\ LockFree
    /\ client # 0
    /\ held' = [held EXCEPT ![t] = client]
    /\ Goto(t, "call")
    /\ UNCHANGED <<sharedVars, kind, outcome, worldVars>>

BeginLogin(t) ==
    /\ pc[t] = "get"
    /\ LockFree
    /\ client = 0
    /\ lock' = t
    /\ Goto(t, "login")
    /\ UNCHANGED <<client, made, drops, kind, held, outcome, worldVars>>

-----------------------------------------------------------------------------
(* _login, under the lock *)

\* With an AppRole OpenBao issues a token; with token auth the client takes
\* the configured token untested, so it may be dead from the start.
LoginGranted(t) ==
    /\ pc[t] = "login"
    /\ \/ material = "good" /\ live' = live \union {made + 1}
       \/ material = "refused" /\ auth = "token" /\ live' = live
    /\ made' = made + 1
    /\ client' = made'
    /\ held' = [held EXCEPT ![t] = made']
    /\ lock' = NoThread
    /\ Goto(t, "call")
    /\ UNCHANGED <<drops, kind, outcome, auth, material, started>>

\* Mutant: a lock taken without `with`, not released on this way out.
LoginUnreadableHoldingLock(t) ==
    /\ pc[t] = "login"
    /\ material = "unreadable"
    /\ Finish(t, "misconfigured")
    /\ UNCHANGED <<sharedVars, kind, held, worldVars>>

\* ConfigError from read_secret_env, turned into VaultMisconfigured by _get.
LoginUnreadable(t) ==
    /\ pc[t] = "login"
    /\ material = "unreadable"
    /\ lock' = NoThread
    /\ Finish(t, "misconfigured")
    /\ UNCHANGED <<client, made, drops, kind, held, worldVars>>

\* Any error of the login request but 401 and 403, or an answer with no token.
LoginFailed(t) ==
    /\ pc[t] = "login"
    /\ auth = "approle"
    /\ material # "unreadable"
    /\ lock' = NoThread
    /\ Finish(t, "failed")
    /\ UNCHANGED <<client, made, drops, kind, held, worldVars>>

\* 401 or 403: _login calls _translate, which calls invalidate.
LoginRefused(t) ==
    /\ pc[t] = "login"
    /\ auth = "approle"
    /\ material = "refused"
    /\ Goto(t, "relock")
    /\ UNCHANGED <<sharedVars, kind, held, outcome, worldVars>>

-----------------------------------------------------------------------------
(* the call to OpenBao, no lock held *)

CallAnswered(t) ==
    /\ pc[t] = "call"
    /\ kind[t] # "mounted"
    /\ held[t] \in live
    /\ Finish(t, "ok")
    /\ UNCHANGED <<sharedVars, kind, held, worldVars>>

\* A mounted operation has fetched the OpenAPI document; its second request
\* goes through _get again and may be handed another client.
MountedDocumentAnswered(t) ==
    /\ pc[t] = "call"
    /\ kind[t] = "mounted"
    /\ held[t] \in live
    /\ kind' = [kind EXCEPT ![t] = "administration"]
    /\ held' = [held EXCEPT ![t] = 0]
    /\ Goto(t, "get")
    /\ UNCHANGED <<sharedVars, outcome, worldVars>>

\* hvac raises Forbidden or Unauthorized on a KV call: for a token OpenBao no
\* longer honours, and equally for a live token whose policy denies the path.
KvRefused(t) ==
    /\ pc[t] = "call"
    /\ kind[t] = "kv"
    /\ Goto(t, "invalidate")
    /\ UNCHANGED <<sharedVars, kind, held, outcome, worldVars>>

\* The administration transport only looks at the status: nothing is dropped.
AdministrationRefused(t) ==
    /\ pc[t] = "call"
    /\ kind[t] # "kv"
    /\ Finish(t, "denied")
    /\ UNCHANGED <<sharedVars, kind, held, worldVars>>

CallFailed(t) ==
    /\ pc[t] = "call"
    /\ Finish(t, "failed")
    /\ UNCHANGED <<sharedVars, kind, held, worldVars>>

\* invalidate() drops whatever client is cached, not the one that was refused.
\* Only "invalidate" can ever get here: at "relock" the lock is the thread's own.
Invalidate(t) ==
    /\ pc[t] \in {"invalidate", "relock"}
    /\ LockFree
    /\ client' = ClientAfterDrop
    /\ drops' = drops + 1
    /\ Finish(t, "refused")
    /\ UNCHANGED <<lock, made, kind, held, worldVars>>

-----------------------------------------------------------------------------
(* OpenBao and the operator *)

\* A lease runs out (nothing renews it), or an operator revokes the token.
Revoke(c) ==
    /\ live' = live \ {c}
    /\ UNCHANGED <<sharedVars, threadVars, auth, material, started>>

\* Under token auth every client carries the configured token, so its refusal
\* takes them all down together.
Rotate(m) ==
    /\ material' = m
    /\ live' = IF auth = "token" /\ m = "refused" THEN {} ELSE live
    /\ UNCHANGED <<sharedVars, threadVars, auth, started>>

-----------------------------------------------------------------------------
Step(t) ==
    \/ GetCached(t) \/ BeginLogin(t)
    \/ LoginGranted(t) \/ LoginUnreadable(t) \/ LoginFailed(t) \/ LoginRefused(t)
    \/ CallAnswered(t) \/ MountedDocumentAnswered(t)
    \/ KvRefused(t) \/ AdministrationRefused(t) \/ CallFailed(t)
    \/ Invalidate(t)

Environment ==
    \/ \E t \in Threads, k \in Kinds : Start(t, k)
    \/ \E c \in live : Revoke(c)
    \/ \E m \in Materials : Rotate(m)

Next == (\E t \in Threads : Step(t)) \/ Environment

Spec == Init /\ [][Next]_vars

\* The operating system runs every thread that can run, and every request to
\* OpenBao is answered or times out (timeout=30).  Which waiting thread gets a
\* free lock is not promised, so no step has strong fairness.
FairSpec == Spec /\ \A t \in Threads : WF_vars(Step(t))

-----------------------------------------------------------------------------
(* Properties *)

\* What makes the ones below inductive: a thread logs in only while nothing is
\* cached, the cached client is the newest one, and none was made but to
\* replace a dropped one.
Inductive ==
    /\ TypeOK
    /\ \A t \in Threads : lock = t <=> pc[t] \in {"login", "relock"}
    /\ lock # NoThread => client = 0
    /\ client # 0 => client = made
    /\ made <= drops + (IF client = 0 THEN 0 ELSE 1)
    /\ \A t \in Threads : held[t] <= made
    /\ \A t \in Threads : pc[t] = "call" => held[t] # 0
    /\ \A t \in Threads :
          pc[t] = "idle" /\ outcome[t] = "refused" /\ client # 0 => held[t] # client

\* One thread at a time is logging in, and it is the thread that holds the
\* lock: _get never logs in outside the critical section, and no path through
\* _login (a login that fails, unreadable material) leaves the lock behind.
LoginsExclusive == \A t \in Threads : lock = t <=> pc[t] \in {"login", "relock"}

\* Requests that arrive together share one login: a new client is made only to
\* replace one that was dropped.
LoginsBounded == made <= drops + 1

\* A KV request that OpenBao refused has left the broker without the client it
\* was refused with, whatever the other threads did meanwhile: the next request
\* does not meet the same dead token.
RefusedClientDropped ==
    \A t \in Threads :
        pc[t] = "idle" /\ outcome[t] = "refused" /\ client # 0 => held[t] # client

\* The lock makes _get atomic: the session behaves as the shared cache of
\* ClientCache, in which making a client and caching it is a single step.
Cache == INSTANCE ClientCache
ImplementsClientCache == Cache!Spec

\* Every request that enters VaultClient leaves it, unless OpenBao has refused
\* a login before: that one keeps the lock.
RequestsEnd ==
    \A t \in Threads :
        (pc[t] # "idle") ~> (pc[t] = "idle" \/ \E u \in Threads : pc[u] = "relock")

\* The comment in _translate: a refused AppRole "is logged locally and reported
\* as a bare failure".  A request whose login was refused is answered.
RefusedLoginReported == \A t \in Threads : (pc[t] = "relock") ~> (pc[t] = "idle")
=============================================================================
