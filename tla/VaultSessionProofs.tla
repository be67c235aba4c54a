------------------------- MODULE VaultSessionProofs -------------------------
(***************************************************************************)
(* The safety of the shared session for any number of threads and of       *)
(* requests, and that it implements the atomic cache of ClientCache.       *)
(***************************************************************************)
EXTENDS VaultSession, TLAPS

\* The initial states satisfy the inductive invariant.
LEMMA InitInductive == Init => Inductive
  BY NoThreadAssumption, MaterialsAssumption DEF Init, Inductive, TypeOK, Locations, Outcomes

\* Taking a request in and handing out the cached client keep it.
LEMMA GetKeepsInductive ==
  ASSUME Inductive, NEW t \in Threads,
         (\E k \in Kinds : Start(t, k)) \/ GetCached(t) \/ BeginLogin(t)
  PROVE  Inductive'
<1>1. CASE \E k \in Kinds : Start(t, k)
  BY <1>1, KindsAssumption
  DEF Inductive, TypeOK, Locations, Outcomes, Start, Goto, sharedVars
<1>2. CASE GetCached(t)
  BY <1>2 DEF Inductive, TypeOK, Locations, Outcomes, GetCached, Goto, LockFree, sharedVars, worldVars
<1>3. CASE BeginLogin(t)
  BY <1>3, NoThreadAssumption
  DEF Inductive, TypeOK, Locations, Outcomes, BeginLogin, Goto, LockFree, worldVars
<1>4. QED  BY <1>1, <1>2, <1>3

\* However a login ends, it keeps it: only the lock's holder logs in, so
\* nothing is cached and the new client is newer than any a thread holds.
LEMMA LoginKeepsInductive ==
  ASSUME Inductive, NEW t \in Threads,
         LoginGranted(t) \/ LoginUnreadable(t) \/ LoginFailed(t) \/ LoginRefused(t)
  PROVE  Inductive'
<1>1. CASE LoginGranted(t)
  <2>1. lock = t /\ client = 0
    BY <1>1, NoThreadAssumption DEF LoginGranted, Inductive
  <2>8. lock' = NoThread /\ client' = made' /\ made' = made + 1
    BY <1>1 DEF LoginGranted
  <2>2. TypeOK'
    <3>1. live' \subseteq Nat
      <4>1. live \subseteq Nat /\ made + 1 \in Nat
        BY DEF Inductive, TypeOK
      <4>2. live' = live \union {made + 1} \/ live' = live
        BY <1>1 DEF LoginGranted
      <4>3. QED  BY <4>1, <4>2
    <3>2. QED  BY <1>1, <3>1 DEF Inductive, TypeOK, Locations, LoginGranted, Goto
  <2>3. \A u \in Threads : held'[u] <= made'
    BY <1>1 DEF Inductive, TypeOK, LoginGranted
  <2>4. \A u \in Threads : pc'[u] = "idle" => held'[u] # client'
    BY <1>1 DEF Inductive, TypeOK, LoginGranted, Goto
  <2>5. \A u \in Threads : lock' = u <=> pc'[u] \in {"login", "relock"}
    BY <1>1, <2>1, NoThreadAssumption DEF Inductive, TypeOK, LoginGranted, Goto
  <2>6. made' <= drops' + 1
    BY <1>1, <2>1 DEF Inductive, TypeOK, LoginGranted
  <2>9. client' # 0
    BY <2>8 DEF Inductive, TypeOK
  <2>7. \A u \in Threads : pc'[u] = "call" => held'[u] # 0
    BY <1>1 DEF Inductive, TypeOK, LoginGranted, Goto
  <2>10. QED  BY <2>2, <2>3, <2>4, <2>5, <2>6, <2>7, <2>8, <2>9 DEF Inductive
<1>2. CASE LoginUnreadable(t)
  BY <1>2, NoThreadAssumption
  DEF Inductive, TypeOK, Locations, Outcomes, LoginUnreadable, Finish, Goto, worldVars
<1>3. CASE LoginFailed(t)
  BY <1>3, NoThreadAssumption
  DEF Inductive, TypeOK, Locations, Outcomes, LoginFailed, Finish, Goto, worldVars
<1>4. CASE LoginRefused(t)
  BY <1>4 DEF Inductive, TypeOK, Locations, Outcomes, LoginRefused, Goto, sharedVars, worldVars
<1>5. QED  BY <1>1, <1>2, <1>3, <1>4

\* However the call to OpenBao ends, it keeps it.
LEMMA CallKeepsInductive ==
  ASSUME Inductive, NEW t \in Threads,
         \/ CallAnswered(t) \/ MountedDocumentAnswered(t) \/ KvRefused(t)
         \/ AdministrationRefused(t) \/ CallFailed(t) \/ Invalidate(t)
  PROVE  Inductive'
<1>1. CASE CallAnswered(t)
  BY <1>1 DEF Inductive, TypeOK, Locations, Outcomes, CallAnswered, Finish, Goto, sharedVars, worldVars
<1>2. CASE MountedDocumentAnswered(t)
  BY <1>2 DEF Inductive, TypeOK, Locations, Outcomes, MountedDocumentAnswered, Goto, sharedVars, worldVars
<1>3. CASE KvRefused(t)
  BY <1>3 DEF Inductive, TypeOK, Locations, Outcomes, KvRefused, Goto, sharedVars, worldVars
<1>4. CASE AdministrationRefused(t)
  BY <1>4 DEF Inductive, TypeOK, Locations, Outcomes, AdministrationRefused, Finish, Goto, sharedVars, worldVars
<1>5. CASE CallFailed(t)
  BY <1>5 DEF Inductive, TypeOK, Locations, Outcomes, CallFailed, Finish, Goto, sharedVars, worldVars
<1>6. CASE Invalidate(t)
  BY <1>6, NoThreadAssumption
  DEF Inductive, TypeOK, Locations, Outcomes, Invalidate, LockFree, ClientAfterDrop, Finish, Goto, worldVars
<1>7. QED  BY <1>1, <1>2, <1>3, <1>4, <1>5, <1>6

\* A token that dies and a rotation of the material keep it.
LEMMA WorldKeepsInductive ==
  ASSUME Inductive, (\E c \in live : Revoke(c)) \/ (\E m \in Materials : Rotate(m))
  PROVE  Inductive'
  BY DEF Inductive, TypeOK, Revoke, Rotate, sharedVars, threadVars

LEMMA NextKeepsInductive == Inductive /\ [Next]_vars => Inductive'
<1> SUFFICES ASSUME Inductive, [Next]_vars PROVE Inductive'
  OBVIOUS
<1>1. CASE UNCHANGED vars
  BY <1>1 DEF Inductive, TypeOK, vars, sharedVars, threadVars, worldVars
<1>2. CASE Next
  BY <1>2, GetKeepsInductive, LoginKeepsInductive, CallKeepsInductive, WorldKeepsInductive
  DEF Next, Step, Environment
<1>3. QED  BY <1>1, <1>2

\* The inductive invariant holds in every reachable state of _get, _login and
\* invalidate, whatever the threads, the requests and the revocations.
THEOREM SessionInductive == Spec => []Inductive
<1>1. QED  BY InitInductive, NextKeepsInductive, PTL DEF Spec

\* At most one thread is in _login, the one that holds the lock.
THEOREM SessionLoginsExclusive == Spec => []LoginsExclusive
<1>1. Inductive => LoginsExclusive  BY DEF Inductive, LoginsExclusive
<1>2. QED  BY <1>1, SessionInductive, PTL

\* Logins never outnumber the dropped clients by more than one.
THEOREM SessionLoginsBounded == Spec => []LoginsBounded
<1>1. Inductive => LoginsBounded  BY DEF Inductive, TypeOK, LoginsBounded
<1>2. QED  BY <1>1, SessionInductive, PTL

\* A client OpenBao refused for a KV request is never cached once it ended.
THEOREM SessionRefusedClientDropped == Spec => []RefusedClientDropped
<1>1. Inductive => RefusedClientDropped  BY DEF Inductive, RefusedClientDropped
<1>2. QED  BY <1>1, SessionInductive, PTL

-----------------------------------------------------------------------------
\* A step of the session is a step of the atomic cache or leaves it alone.
LEMMA StepImplementsCache ==
  ASSUME Inductive, NEW t \in Threads, Step(t)
  PROVE  [Cache!Next]_<<client, made, held>>
<1>1. CASE GetCached(t)
  BY <1>1 DEF GetCached, sharedVars, Cache!Next, Cache!Fetch
<1>2. CASE LoginGranted(t)
  <2>1. client = 0
    BY <1>2, NoThreadAssumption DEF LoginGranted, Inductive
  <2>2. Cache!Create(t)
    BY <1>2, <2>1 DEF LoginGranted, Cache!Create
  <2>3. QED  BY <2>2 DEF Cache!Next
<1>3. CASE MountedDocumentAnswered(t)
  BY <1>3 DEF MountedDocumentAnswered, sharedVars, Cache!Next, Cache!Release
<1>4. CASE Invalidate(t)
  BY <1>4 DEF Invalidate, ClientAfterDrop, Cache!Next, Cache!Drop
<1>5. CASE \/ BeginLogin(t) \/ LoginUnreadable(t) \/ LoginFailed(t) \/ LoginRefused(t)
           \/ CallAnswered(t) \/ KvRefused(t) \/ AdministrationRefused(t) \/ CallFailed(t)
  BY <1>5 DEF BeginLogin, LoginUnreadable, LoginFailed, LoginRefused, CallAnswered,
              KvRefused, AdministrationRefused, CallFailed, sharedVars
<1>6. QED  BY <1>1, <1>2, <1>3, <1>4, <1>5 DEF Step

\* The lock makes _get atomic: every behaviour of the session is one of the
\* shared cache that makes, caches and hands out a client in a single step.
THEOREM SessionImplementsClientCache == Spec => ImplementsClientCache
<1>1. Init => Cache!Init
  BY DEF Init, Cache!Init
<1>2. Inductive /\ [Next]_vars => [Cache!Next]_<<client, made, held>>
  <2> SUFFICES ASSUME Inductive, [Next]_vars PROVE [Cache!Next]_<<client, made, held>>
    OBVIOUS
  <2>1. ASSUME NEW t \in Threads, NEW k \in Kinds, Start(t, k)
        PROVE  Cache!Next
    BY <2>1 DEF Start, sharedVars, Cache!Next, Cache!Release
  <2>2. CASE (\E c \in live : Revoke(c)) \/ (\E m \in Materials : Rotate(m))
    BY <2>2 DEF Revoke, Rotate, sharedVars, threadVars
  <2>3. CASE UNCHANGED vars
    BY <2>3 DEF vars, sharedVars, threadVars
  <2>4. QED  BY <2>1, <2>2, <2>3, StepImplementsCache DEF Next, Environment
<1>3. QED
  BY <1>1, <1>2, SessionInductive, PTL DEF Spec, ImplementsClientCache, Cache!Spec

-----------------------------------------------------------------------------
(* A refused login blocks the session *)

\* The thread waits for the lock it holds itself, and nothing is cached.
Blocked(t) == pc[t] = "relock" /\ lock = t /\ client = 0

\* Whoever waits for the lock goes on waiting.
WaitersWait == \A u \in Threads : pc[u] \in {"get", "invalidate", "relock"} => pc'[u] = pc[u]

LEMMA BlockedStays ==
  ASSUME NEW t \in Threads, Inductive, Blocked(t), [Next]_vars
  PROVE  Blocked(t)' /\ WaitersWait
<1>1. /\ lock = t /\ lock # NoThread /\ pc[t] = "relock" /\ client = 0
      /\ \A u \in Threads : u # t => pc[u] \notin {"login", "relock"}
      /\ pc \in [Threads -> Locations]
  BY NoThreadAssumption DEF Blocked, Inductive, TypeOK
<1>2. CASE UNCHANGED vars
  BY <1>1, <1>2 DEF Blocked, WaitersWait, vars, sharedVars, threadVars
<1>3. ASSUME NEW u \in Threads, Step(u) \/ \E k \in Kinds : Start(u, k)
      PROVE  /\ pc[u] \notin {"get", "invalidate", "relock"} /\ u # t
             /\ UNCHANGED <<lock, client>> /\ \E l \in Locations : pc' = [pc EXCEPT ![u] = l]
  <2>1. ~LockFree /\ pc[u] # "login"
    BY <1>1 DEF LockFree
  <2>2. CASE \E k \in Kinds : Start(u, k)
    BY <1>1, <2>2 DEF Start, Goto, Locations, sharedVars
  <2>3. CASE Step(u)
    <3>1. \/ CallAnswered(u) \/ MountedDocumentAnswered(u) \/ KvRefused(u)
          \/ AdministrationRefused(u) \/ CallFailed(u)
      BY <2>1, <2>3 DEF Step, GetCached, BeginLogin, LoginGranted, LoginUnreadable, LoginFailed,
                        LoginRefused, Invalidate
    <3>2. QED  BY <1>1, <3>1 DEF CallAnswered, MountedDocumentAnswered, KvRefused,
                  AdministrationRefused, CallFailed, Finish, Goto, Locations, sharedVars
  <2>4. QED  BY <1>3, <2>2, <2>3
<1>4. ASSUME NEW u \in Threads, Step(u) \/ \E k \in Kinds : Start(u, k)
      PROVE  Blocked(t)' /\ WaitersWait
  BY <1>1, <1>3, <1>4 DEF Blocked, WaitersWait
<1>5. CASE (\E c \in live : Revoke(c)) \/ (\E m \in Materials : Rotate(m))
  BY <1>1, <1>5 DEF Revoke, Rotate, Blocked, WaitersWait, sharedVars, threadVars
<1>6. QED  BY <1>2, <1>4, <1>5 DEF Next, Environment

\* Once _login has been refused the session never works again: its thread never
\* leaves VaultClient, no client is ever made or handed out, and every thread that
\* comes to _get or invalidate stays there.
THEOREM RefusedLoginBlocks ==
  ASSUME NEW t \in Threads
  PROVE  Spec => [](pc[t] = "relock" => []Blocked(t) /\ [][WaitersWait]_vars)
<1>1. Inductive /\ pc[t] = "relock" => Blocked(t)
  BY NoThreadAssumption DEF Inductive, Blocked
<1>2. Inductive /\ Blocked(t) /\ [Next]_vars => Blocked(t)' /\ [WaitersWait]_vars
  BY BlockedStays
<1>3. QED  BY <1>1, <1>2, SessionInductive, PTL DEF Spec
-----------------------------------------------------------------------------
(* A dead token stays cached until a KV request meets it *)

\* A thread comes to invalidate only with a KV request that OpenBao refused.
OnlyKvDrops == \A t \in Threads : pc[t] = "invalidate" => kind[t] = "kv"

\* The cached client stays the cached one, and dead if it is dead.
ClientKeeps == client' = client /\ (client \notin live => client' \notin live')
DropUnderWay == \E t \in Threads : pc[t] = "invalidate" /\ kind[t] = "kv"

LEMMA NextKeepsOnlyKvDrops == Inductive /\ OnlyKvDrops /\ [Next]_vars => OnlyKvDrops'
<1> SUFFICES ASSUME Inductive, OnlyKvDrops, [Next]_vars PROVE OnlyKvDrops'
  OBVIOUS
<1>1. pc \in [Threads -> Locations] /\ kind \in [Threads -> {"kv", "administration", "mounted"}]
  BY DEF Inductive, TypeOK
<1>2. CASE UNCHANGED vars \/ (\E c \in live : Revoke(c)) \/ (\E m \in Materials : Rotate(m))
  BY <1>2 DEF OnlyKvDrops, vars, threadVars, Revoke, Rotate
<1>3. ASSUME NEW u \in Threads, NEW k \in Kinds, Start(u, k) PROVE OnlyKvDrops'
  BY <1>1, <1>3 DEF OnlyKvDrops, Start, Goto
<1>4. ASSUME NEW u \in Threads, Step(u) PROVE OnlyKvDrops'
  <2>1. CASE KvRefused(u)
    BY <1>1, <2>1 DEF OnlyKvDrops, KvRefused, Goto
  <2>2. CASE MountedDocumentAnswered(u)
    BY <1>1, <2>2 DEF OnlyKvDrops, MountedDocumentAnswered, Goto
  <2>3. CASE \/ GetCached(u) \/ BeginLogin(u) \/ LoginGranted(u) \/ LoginUnreadable(u)
             \/ LoginFailed(u) \/ LoginRefused(u) \/ CallAnswered(u) \/ AdministrationRefused(u)
             \/ CallFailed(u) \/ Invalidate(u)
    <3>1. kind' = kind /\ \E l \in {"idle", "login", "relock", "call"} : pc' = [pc EXCEPT ![u] = l]
      BY <2>3 DEF GetCached, BeginLogin, LoginGranted, LoginUnreadable, LoginFailed, LoginRefused,
                  CallAnswered, AdministrationRefused, CallFailed, Invalidate, Finish, Goto
    <3>2. QED  BY <1>1, <3>1 DEF OnlyKvDrops
  <2>4. QED  BY <1>4, <2>1, <2>2, <2>3 DEF Step
<1>5. QED  BY <1>2, <1>3, <1>4 DEF Next, Environment

\* Only a KV request that OpenBao refused gets rid of the cached client: no answer
\* to an administration request, no failure and no rotation does, and a client whose
\* token is dead does not come to life again.
THEOREM DeadClientKept == Spec => [][client # 0 /\ ~DropUnderWay => ClientKeeps]_vars
<1>1. Init => OnlyKvDrops
  BY DEF Init, OnlyKvDrops
<1>2. Inductive /\ OnlyKvDrops /\ [Next]_vars => [client # 0 /\ ~DropUnderWay => ClientKeeps]_vars
  <2> SUFFICES ASSUME Inductive, OnlyKvDrops, Next, client # 0, ~DropUnderWay
               PROVE  ClientKeeps
    OBVIOUS
  <2>1. \A t \in Threads : pc[t] \notin {"login", "relock", "invalidate"}
    BY NoThreadAssumption DEF Inductive, OnlyKvDrops, DropUnderWay
  <2>2. CASE (\E c \in live : Revoke(c)) \/ (\E m \in Materials : Rotate(m))
    BY <2>2 DEF Revoke, Rotate, sharedVars, ClientKeeps
  <2>3. ASSUME NEW u \in Threads, NEW k \in Kinds, Start(u, k) PROVE ClientKeeps
    BY <2>3 DEF Start, sharedVars, ClientKeeps
  <2>4. ASSUME NEW u \in Threads, Step(u) PROVE ClientKeeps
    <3>1. \/ GetCached(u) \/ CallAnswered(u) \/ MountedDocumentAnswered(u) \/ KvRefused(u)
          \/ AdministrationRefused(u) \/ CallFailed(u)
      BY <2>1, <2>4 DEF Step, BeginLogin, LoginGranted, LoginUnreadable, LoginFailed, LoginRefused,
                        Invalidate
    <3>2. QED  BY <3>1 DEF GetCached, CallAnswered, MountedDocumentAnswered, KvRefused,
                  AdministrationRefused, CallFailed, sharedVars, worldVars, ClientKeeps
  <2>5. QED  BY <2>2, <2>3, <2>4 DEF Next, Environment
<1>3. QED  BY <1>1, <1>2, NextKeepsOnlyKvDrops, SessionInductive, PTL DEF Spec
=============================================================================
