----------------------- MODULE AdminOperationsProofs -----------------------
(***************************************************************************)
(* What a caller is told of an administration operation, which mount       *)
(* serves a mounted one, whose token goes with a reviewed one and which    *)
(* paths it may have, for any arguments, engines and mounts, and for any   *)
(* number of requests; and what the check of values lets through.          *)
(***************************************************************************)
EXTENDS AdminOperations, FiniteSetTheorems, TLAPS

-----------------------------------------------------------------------------
(* What AdminTransportProofs proves of the transport, brought over *)

TP == INSTANCE AdminTransportProofs WITH Operations <- Calls, MaxAttempts <- 1

LEMMA TransportAssumptions == TP!OperationsAssumption /\ TP!MaxAttemptsAssumption
  BY DEF TP!OperationsAssumption, TP!MaxAttemptsAssumption, Calls, Mutations, Kinds

\* TP extends the module that T instantiates, so their definitions agree.
LEMMA SameInductive == (T!Inductive <=> TP!Inductive) /\ (T!Inductive' <=> TP!Inductive')
  BY DEF T!Inductive, TP!Inductive, T!TypeOK, TP!TypeOK, T!Tracked, TP!Tracked,
         T!Current, TP!Current, T!Attempts, TP!Attempts, T!Places, TP!Places, T!Fates, TP!Fates

LEMMA SameTransport ==
  ASSUME NEW c \in Calls
  PROVE  T!Transport(c) <=> TP!Transport(c)
  BY DEF T!Transport, TP!Transport, T!NoToken, TP!NoToken, T!CannotConnect, TP!CannotConnect,
         T!Send, TP!Send, T!AnswerLost, TP!AnswerLost, T!Redirected, TP!Redirected,
         T!RejectedStatus, TP!RejectedStatus, T!ServerError, TP!ServerError,
         T!Accepted, TP!Accepted, T!BodyRead, TP!BodyRead, T!BodyUnusable, TP!BodyUnusable,
         T!Report, TP!Report, T!ReportInDoubt, TP!ReportInDoubt, T!Current, TP!Current

LEMMA TransportKeeps ==
  ASSUME T!Inductive, NEW c \in Calls,
         \/ T!Transport(c) \/ T!Submit(c)
         \/ \E fate \in {"applied", "rejected"} : T!Decide(c, 1, fate)
  PROVE  T!Inductive'
<1>1. 1 \in TP!Attempts
  BY DEF TP!Attempts
<1>2. CASE T!Transport(c)
  BY <1>2, SameInductive, SameTransport, TransportAssumptions, TP!TransportKeepsInductive
<1>3. CASE T!Submit(c)
  <2>1. TP!Submit(c)
    BY <1>3 DEF T!Submit, TP!Submit
  <2>2. QED  BY <2>1, SameInductive, TransportAssumptions, TP!SubmitKeepsInductive
<1>4. CASE \E fate \in {"applied", "rejected"} : T!Decide(c, 1, fate)
  <2>1. PICK fate \in {"applied", "rejected"} : T!Decide(c, 1, fate)
    BY <1>4
  <2>2. TP!Decide(c, 1, fate)
    BY <2>1 DEF T!Decide, TP!Decide
  <2>3. QED  BY <1>1, <2>2, SameInductive, TransportAssumptions, TP!DecideKeepsInductive
<1>5. QED  BY <1>2, <1>3, <1>4

LEMMA TransportStays == T!Inductive /\ UNCHANGED transport => T!Inductive'
  BY DEF transport, T!Inductive, T!TypeOK, T!Tracked, T!Current

\* What the invariant of the transport says of one call, made once.
LEMMA CallTracked ==
  ASSUME T!Inductive, NEW c \in Calls
  PROVE  /\ at[c] \in {"idle", "headers", "waiting", "reading", "reported"}
         /\ report[c] \in {"none", "ok", "error", "unknown"}
         /\ at[c] # "idle" => attempt[c] = 1
         /\ at[c] = "idle" => attempt[c] = 0 /\ wire[c][1] = "unsent"
         /\ report[c] # "none" <=> at[c] = "reported"
         /\ report[c] = "ok" => wire[c][1] = "applied"
  BY DEF T!Inductive, T!TypeOK, T!Tracked, T!Current, T!Attempts, T!Places

-----------------------------------------------------------------------------
(* What each kind of step does to the calls *)

\* Nothing that Tracked speaks of is disturbed at a call.
Kept(c) == /\ at[c] = "idle" <=> at'[c] = "idle"
           /\ report[c] = "ok" => report'[c] = "ok"
           /\ wire'[c][1] = "applied" => wire[c][1] = "applied"

LEMMA TransportStep ==
  ASSUME T!Inductive, NEW c \in Calls, T!Transport(c)
  PROVE  \A d \in Calls : Kept(d)
<1> SUFFICES ASSUME NEW d \in Calls PROVE Kept(d)
  OBVIOUS
<1>0. /\ at \in [Calls -> {"idle", "headers", "waiting", "reading", "reported"}]
      /\ report \in [Calls -> {"none", "ok", "error", "unknown"}]
      /\ wire \in [Calls -> [1..1 -> {"unsent", "pending", "applied", "rejected"}]]
  BY DEF T!Inductive, T!TypeOK, T!Places, T!Fates, T!Attempts
<1>1. at[c] \in {"headers", "waiting", "reading"} /\ report[c] = "none" /\ attempt[c] = 1
  <2>1. at[c] \in {"headers", "waiting", "reading"}
    BY DEF T!Transport, T!NoToken, T!CannotConnect, T!Send, T!AnswerLost, T!Redirected,
           T!RejectedStatus, T!ServerError, T!Accepted, T!BodyRead, T!BodyUnusable
  <2>2. QED  BY <2>1, CallTracked
<1>2. \/ /\ at' = [at EXCEPT ![c] = "waiting"] /\ report' = report
         /\ wire' = [wire EXCEPT ![c][1] = "pending"]
      \/ at' = [at EXCEPT ![c] = "reading"] /\ report' = report /\ wire' = wire
      \/ \E outcome : /\ at' = [at EXCEPT ![c] = "reported"] /\ wire' = wire
                      /\ report' = [report EXCEPT ![c] = outcome]
  BY <1>1
  DEF T!Transport, T!NoToken, T!CannotConnect, T!Send, T!AnswerLost, T!Redirected,
      T!RejectedStatus, T!ServerError, T!Accepted, T!BodyRead, T!BodyUnusable,
      T!Report, T!ReportInDoubt
<1>3. QED  BY <1>0, <1>1, <1>2 DEF Kept

LEMMA SubmitStep ==
  ASSUME T!Inductive, NEW c \in Calls, T!Submit(c)
  PROVE  /\ at[c] = "idle" /\ at'[c] = "headers" /\ report' = report /\ wire' = wire
         /\ \A d \in Calls : d # c => Kept(d)
<1>0. /\ at \in [Calls -> {"idle", "headers", "waiting", "reading", "reported"}]
      /\ report \in [Calls -> {"none", "ok", "error", "unknown"}]
  BY DEF T!Inductive, T!TypeOK, T!Places
<1>1. at[c] = "idle" /\ report[c] = "none"
  <2>1. attempt[c] < 1
    BY DEF T!Submit
  <2>2. QED  BY <2>1, CallTracked
<1>2. QED  BY <1>0, <1>1 DEF T!Submit, Kept

LEMMA DecideStep ==
  ASSUME T!Inductive, NEW c \in Calls, NEW fate \in {"applied", "rejected"}, T!Decide(c, 1, fate)
  PROVE  /\ at[c] # "idle" /\ report[c] # "ok" /\ at' = at /\ report' = report
         /\ wire[c][1] = "pending" /\ wire'[c][1] = fate
         /\ \A d \in Calls : d # c => Kept(d)
<1>0. wire \in [Calls -> [1..1 -> {"unsent", "pending", "applied", "rejected"}]]
  BY DEF T!Inductive, T!TypeOK, T!Fates, T!Attempts
<1>1. wire[c][1] = "pending" /\ at' = at /\ report' = report
  BY DEF T!Decide
<1>2. at[c] # "idle" /\ report[c] # "ok"
  BY <1>1, CallTracked
<1>3. wire'[c][1] = fate /\ \A d \in Calls : d # c => wire'[d] = wire[d]
  BY <1>0 DEF T!Decide
<1>4. QED  BY <1>1, <1>2, <1>3 DEF Kept

-----------------------------------------------------------------------------
(* The invariant *)

LEMMA KindsAreCalls ==
  /\ \A r \in Requests, k \in Kinds : <<r, k>> \in Calls
  /\ \A r \in Requests : Target(r) \in Calls
  /\ \A r \in Requests : \E k \in {"read", "mutation"} : Target(r) = <<r, k>>
  BY DEF Calls, Kinds, Target

\* The part of Inductive that is the transport's, and the rest.
OwnTypes ==
    /\ request \in [Requests -> AllArguments \union {None}]
    /\ verdict \in [Requests -> {"none", "refused", "raised", "error"}]
    /\ mounted \in MountTables
    /\ document \in [Requests -> Documents \union {None}]
    /\ served \in [Requests -> [mount : MountPaths, table : MountTables] \union {None}]

LEMMA InductiveParts ==
  /\ Inductive <=> T!Inductive /\ OwnTypes /\ NoNesting(mounted) /\ \A r \in Requests : Tracked(r)
  /\ Inductive' <=> T!Inductive' /\ OwnTypes' /\ NoNesting(mounted)' /\ \A r \in Requests : Tracked(r)'
  BY DEF Inductive, TypeOK, OwnTypes, T!Inductive

LEMMA InitInductive == Init => Inductive
<1> SUFFICES ASSUME Init PROVE Inductive
  OBVIOUS
<1>1. T!Inductive
  <2>1. TP!Init
    BY DEF Init, T!Init, TP!Init, T!Attempts, TP!Attempts
  <2>2. QED  BY <2>1, SameInductive, TransportAssumptions, TP!InitInductive
<1>2. OwnTypes
  BY FirstMountsAssumption DEF Init, OwnTypes, MountTables
<1>3. NoNesting(mounted)
  BY DEF Init
<1>4. ASSUME NEW r \in Requests PROVE Tracked(r)
  <2>1. \A k \in Kinds : at[<<r, k>>] = "idle" /\ wire[<<r, k>>][1] = "unsent"
    BY KindsAreCalls DEF Init, T!Init, T!Attempts
  <2>2. request[r] = None /\ verdict[r] = "none" /\ served[r] = None
    BY DEF Init
  <2>3. QED  BY <2>1, <2>2 DEF Tracked, Sent, Kinds
<1>5. QED  BY <1>1, <1>2, <1>3, <1>4, InductiveParts

\* A request is tracked as long as nothing that Tracked speaks of changes.
LEMMA Bystander ==
  ASSUME NEW r \in Requests, Tracked(r), \A k \in Kinds : Kept(<<r, k>>),
         request'[r] = request[r], verdict'[r] = verdict[r],
         document'[r] = document[r], served'[r] = served[r]
  PROVE  Tracked(r)'
<1>1. Target(r)' = Target(r)
  BY DEF Target
<1>2. "document" \in Kinds /\ \A k \in Kinds : Sent(<<r, k>>)' <=> Sent(<<r, k>>)
  BY DEF Kept, Sent, Kinds
<1>3. Sent(Target(r))' <=> Sent(Target(r))
  BY <1>1, <1>2 DEF Target, Kinds, Sent, Kept
<1>4. QED  BY <1>1, <1>2, <1>3 DEF Tracked, Kept

\* A request that has not begun has no call and no verdict.
LEMMA NotBegun ==
  ASSUME NEW r \in Requests, Inductive, request[r] = None
  PROVE  /\ verdict[r] = "none" /\ served[r] = None
         /\ \A k \in Kinds : at[<<r, k>>] = "idle" /\ wire[<<r, k>>][1] = "unsent"
<1>1. T!Inductive /\ Tracked(r)
  BY InductiveParts
<1>2. \A k \in Kinds : at[<<r, k>>] = "idle"
  BY <1>1, ArgumentsAssumption DEF Tracked, Sent
<1>3. \A k \in Kinds : wire[<<r, k>>][1] = "unsent"
  BY <1>1, <1>2, KindsAreCalls, CallTracked
<1>4. QED  BY <1>1, <1>2, <1>3 DEF Tracked

\* A document that is in was given, by a request for a mounted operation.
LEMMA DocumentGiven ==
  ASSUME NEW r \in Requests, Inductive, DocumentIn(r)
  PROVE  /\ request[r] \in ArgumentsOf(r) /\ ContractOutcome(request[r]) = "accepted"
         /\ IsMounted(request[r]) /\ document[r] # None
         /\ \A k \in Kinds : Sent(<<r, k>>) => k = "document"
<1>1. T!Inductive /\ Tracked(r) /\ <<r, "document">> \in Calls /\ "document" \in Kinds
  BY InductiveParts, KindsAreCalls DEF Kinds
<1>2. Sent(<<r, "document">>) /\ wire[<<r, "document">>][1] = "applied"
  BY <1>1, CallTracked DEF DocumentIn, Sent
<1>3. QED  BY <1>1, <1>2 DEF Tracked, DocumentIn, Sent

\* Where only a request that has begun or been concluded moves, the others stay.
LEMMA OthersTracked ==
  ASSUME Inductive, NEW r \in Requests, NEW p \in Requests, p # r,
         \A c \in Calls : c[1] # r => Kept(c),
         request'[p] = request[p], verdict'[p] = verdict[p],
         document'[p] = document[p], served'[p] = served[p]
  PROVE  Tracked(p)'
<1>1. \A k \in Kinds : Kept(<<p, k>>)
  BY KindsAreCalls
<1>2. Tracked(p)
  BY InductiveParts
<1>3. QED  BY <1>1, <1>2, Bystander

LEMMA StillKept == UNCHANGED transport => \A c \in Calls : Kept(c)
  BY DEF transport, Kept

\* The arguments arrive and nothing is sent.
LEMMA ConcludeAtOnce ==
  ASSUME Inductive, NEW r \in Requests, NEW q \in ArgumentsOf(r),
         Begin(r, q), NEW outcome \in {"refused", "raised", "error"}, Conclude(r, outcome)
  PROVE  Inductive'
<1>1. T!Inductive' /\ \A c \in Calls : Kept(c)
  BY InductiveParts, TransportStays, StillKept DEF Conclude
<1>2. OwnTypes /\ OwnTypes'
  BY InductiveParts DEF OwnTypes, Begin, Conclude, AllArguments
<1>3. NoNesting(mounted)'
  BY InductiveParts DEF Begin, NoNesting
<1>4. ASSUME NEW p \in Requests PROVE Tracked(p)'
  <2>1. CASE p # r
    BY <1>1, <1>2, <2>1, OthersTracked DEF OwnTypes, Begin, Conclude
  <2>2. CASE p = r
    <3>1. /\ served'[r] = None /\ request'[r] = q
          /\ \A k \in Kinds : at'[<<r, k>>] = "idle" /\ wire'[<<r, k>>][1] = "unsent"
      BY <1>2, NotBegun DEF Begin, Conclude, transport, OwnTypes
    <3>2. "document" \in Kinds /\ q # None
      BY ArgumentsAssumption DEF Kinds
    <3>3. QED  BY <2>2, <3>1, <3>2 DEF Tracked, Sent
  <2>3. QED  BY <2>1, <2>2
<1>5. QED  BY <1>1, <1>2, <1>3, <1>4, InductiveParts

LEMMA ExecuteKeeps ==
  ASSUME Inductive, NEW r \in Requests, NEW q \in ArgumentsOf(r), Execute(r, q)
  PROVE  Inductive'
<1> DEFINE kind == IF q.operation = "execute_mounted_operation" THEN "document"
                   ELSE IF Mutation(q) THEN "mutation" ELSE "read"
<1>0. kind \in Kinds /\ <<r, kind>> \in Calls /\ "document" \in Kinds
  BY KindsAreCalls DEF Kinds
<1>1. T!Inductive /\ OwnTypes /\ T!Submit(<<r, kind>>) /\ Begin(r, q)
  BY InductiveParts DEF Execute
<1>2. T!Inductive'
  BY <1>0, <1>1, TransportKeeps
<1>3. /\ at'[<<r, kind>>] = "headers" /\ report' = report /\ wire' = wire
      /\ \A d \in Calls : d # <<r, kind>> => Kept(d)
  BY <1>0, <1>1, SubmitStep
<1>4. OwnTypes'
  BY <1>1 DEF OwnTypes, Begin, Execute, AllArguments
<1>5. NoNesting(mounted)'
  BY InductiveParts DEF Begin, Execute, NoNesting
<1>6. ASSUME NEW p \in Requests PROVE Tracked(p)'
  <2>1. CASE p # r
    BY <1>1, <1>3, <2>1, OthersTracked DEF OwnTypes, Begin, Execute
  <2>2. CASE p = r
    <3>1. /\ served'[r] = None /\ request'[r] = q /\ verdict'[r] = "none"
          /\ wire'[<<r, "document">>][1] = "unsent"
      BY <1>0, <1>1, <1>3, NotBegun DEF Begin, Execute, OwnTypes
    <3>2. \A k \in Kinds : Sent(<<r, k>>)' => k = kind
      <4>1. \A k \in Kinds : at[<<r, k>>] = "idle"
        BY <1>1, NotBegun DEF Begin
      <4>2. \A k \in Kinds : k # kind => at'[<<r, k>>] = "idle"
        BY <1>3, <4>1, KindsAreCalls DEF Kept
      <4>3. QED  BY <4>2 DEF Sent
    <3>3. q # None /\ ContractOutcome(q) = "accepted"
      BY ArgumentsAssumption DEF Execute
    <3>4. kind # "document" => <<r, kind>> = Target(r)' /\ ~IsMounted(q)
      BY <3>1 DEF Target, IsMounted
    <3>5. kind = "document" => IsMounted(q)
      BY DEF IsMounted
    <3>6. QED  BY <2>2, <3>1, <3>2, <3>3, <3>4, <3>5 DEF Tracked
  <2>3. QED  BY <2>1, <2>2
<1>7. QED  BY <1>2, <1>4, <1>5, <1>6, InductiveParts

LEMMA SendCheckedKeeps ==
  ASSUME Inductive, NEW r \in Requests, SendChecked(r)
  PROVE  Inductive'
<1>0. Target(r) \in Calls /\ Target(r) # <<r, "document">> /\ <<r, "document">> \in Calls
  BY KindsAreCalls DEF Kinds, Target
<1>1. T!Inductive /\ OwnTypes /\ T!Submit(Target(r)) /\ DocumentIn(r) /\ Tracked(r)
  BY InductiveParts DEF SendChecked
<1>2. T!Inductive'
  BY <1>0, <1>1, TransportKeeps
<1>3. /\ report' = report /\ wire' = wire
      /\ \A d \in Calls : d # Target(r) => Kept(d)
  BY <1>0, <1>1, SubmitStep
<1>4. OwnTypes'
  BY <1>1 DEF OwnTypes, SendChecked, DocumentIn
<1>5. NoNesting(mounted)'
  BY InductiveParts DEF SendChecked, DocumentIn, NoNesting
<1>6. ASSUME NEW p \in Requests PROVE Tracked(p)'
  <2>0. Target(r)[1] = r
    BY DEF Target
  <2>1. CASE p # r
    BY <1>1, <1>3, <2>0, <2>1, OthersTracked DEF SendChecked, DocumentIn
  <2>2. CASE p = r
    <3>1. /\ request' = request /\ verdict' = verdict /\ document' = document /\ served' = served
          /\ Advertised(request[r], document[r]) /\ verdict[r] = "none"
          /\ report[<<r, "document">>] = "ok"
      BY DEF SendChecked, DocumentIn
    <3>2. /\ request[r] \in ArgumentsOf(r) /\ ContractOutcome(request[r]) = "accepted"
          /\ IsMounted(request[r]) /\ document[r] # None
          /\ \A k \in Kinds : Sent(<<r, k>>) => k = "document"
      BY <1>1, DocumentGiven
    <3>3. Target(r)' = Target(r) /\ \E k \in Kinds : k # "document" /\ Target(r) = <<r, k>>
      BY <3>1 DEF Target, Kinds
    <3>4. \A k \in Kinds : Sent(<<r, k>>)' => k = "document" \/ <<r, k>> = Target(r)
      BY <1>3, <3>2, KindsAreCalls DEF Kept, Sent
    <3>5. served[r] = None
      BY <1>1, <3>2, <3>3 DEF Tracked
    <3>6. request[r] # None
      BY <3>2, ArgumentsAssumption
    <3>7. QED  BY <1>3, <2>2, <3>1, <3>2, <3>3, <3>4, <3>5, <3>6 DEF Tracked
  <2>3. QED  BY <2>1, <2>2
<1>7. QED  BY <1>2, <1>4, <1>5, <1>6, InductiveParts

LEMMA NotAdvertisedKeeps ==
  ASSUME Inductive, NEW r \in Requests, NotAdvertised(r)
  PROVE  Inductive'
<1>0. DocumentIn(r) /\ Conclude(r, "error")
  BY DEF NotAdvertised
<1>1. T!Inductive' /\ \A c \in Calls : Kept(c)
  BY <1>0, InductiveParts, TransportStays, StillKept DEF Conclude
<1>2. OwnTypes /\ OwnTypes'
  BY <1>0, InductiveParts DEF OwnTypes, DocumentIn, Conclude
<1>3. NoNesting(mounted)'
  BY <1>0, InductiveParts DEF DocumentIn, NoNesting
<1>4. ASSUME NEW p \in Requests PROVE Tracked(p)'
  <2>1. CASE p # r
    BY <1>0, <1>1, <1>2, <2>1, OthersTracked DEF OwnTypes, DocumentIn, Conclude
  <2>2. CASE p = r
    <3>1. Tracked(r) /\ verdict'[r] = "error" /\ UNCHANGED <<transport, request, document, served>>
      BY <1>0, <1>2, InductiveParts DEF DocumentIn, Conclude, OwnTypes
    <3>2. /\ request[r] \in ArgumentsOf(r) /\ ContractOutcome(request[r]) = "accepted"
          /\ IsMounted(request[r]) /\ \A k \in Kinds : Sent(<<r, k>>) => k = "document"
      BY <1>0, DocumentGiven
    <3>3. \A k \in Kinds : Sent(<<r, k>>)' <=> Sent(<<r, k>>)
      BY <3>1 DEF Sent, transport
    <3>4. served'[r] = None /\ wire' = wire /\ document' = document /\ request' = request
      BY <3>1, <3>2 DEF Tracked, Target, Kinds, transport
    <3>5. request[r] # None
      BY <3>2, ArgumentsAssumption
    <3>6. QED  BY <2>2, <3>1, <3>2, <3>3, <3>4, <3>5 DEF Tracked
  <2>3. QED  BY <2>1, <2>2
<1>5. QED  BY <1>1, <1>2, <1>3, <1>4, InductiveParts

LEMMA TransportActionKeeps ==
  ASSUME Inductive, NEW c \in Calls, Transport(c) \/ Decline(c)
  PROVE  Inductive'
<1>1. /\ T!Inductive /\ UNCHANGED <<request, verdict, mounted, document, served>>
      /\ T!Transport(c) \/ T!Decide(c, 1, "rejected")
  BY InductiveParts DEF Transport, Decline
<1>2. T!Inductive'
  BY <1>1, TransportKeeps
<1>3. \A d \in Calls : Kept(d)
  <2>1. CASE T!Transport(c)
    BY <1>1, <2>1, TransportStep
  <2>2. CASE T!Decide(c, 1, "rejected")
    BY <1>1, <2>2, DecideStep DEF Kept
  <2>3. QED  BY <1>1, <2>1, <2>2
<1>4. OwnTypes' /\ NoNesting(mounted)'
  BY <1>1, InductiveParts DEF OwnTypes, NoNesting
<1>5. ASSUME NEW p \in Requests PROVE Tracked(p)'
  <2>1. Tracked(p) /\ \A k \in Kinds : Kept(<<p, k>>)
    BY <1>3, KindsAreCalls, InductiveParts
  <2>2. QED  BY <1>1, <2>1, Bystander
<1>6. QED  BY <1>2, <1>4, <1>5, InductiveParts

LEMMA DescribeKeeps ==
  ASSUME Inductive, NEW r \in Requests, Describe(r)
  PROVE  Inductive'
<1>0. T!Inductive /\ OwnTypes /\ <<r, "document">> \in Calls /\ "document" \in Kinds
  BY InductiveParts, KindsAreCalls DEF Kinds
<1>1. PICK listed \in Listings(mounted) :
          document' = [document EXCEPT ![r] = [mounted |-> mounted, listed |-> listed]]
  BY DEF Describe
<1>2. T!Decide(<<r, "document">>, 1, "applied") /\ UNCHANGED <<request, verdict, mounted, served>>
  BY DEF Describe
<1>3. /\ at[<<r, "document">>] # "idle" /\ report[<<r, "document">>] # "ok"
      /\ at' = at /\ report' = report
      /\ \A d \in Calls : d # <<r, "document">> => Kept(d)
  BY <1>0, <1>2, DecideStep
<1>4. T!Inductive'
  BY <1>0, <1>2, TransportKeeps
<1>5. [mounted |-> mounted, listed |-> listed] \in [mounted : MountTables, listed : SUBSET MountPaths]
  BY <1>0 DEF OwnTypes, Listings
<1>6. [mounted |-> mounted, listed |-> listed] # None
  BY <1>5, NoneAssumption DEF MountTables
<1>7. OwnTypes' /\ NoNesting(mounted)'
  BY <1>0, <1>1, <1>2, <1>5, InductiveParts DEF OwnTypes, NoNesting, Documents
<1>8. ASSUME NEW p \in Requests PROVE Tracked(p)'
  <2>1. CASE p # r
    BY <1>0, <1>1, <1>2, <1>3, <2>1, OthersTracked DEF OwnTypes
  <2>2. CASE p = r
    <3>1. Tracked(r) /\ Sent(<<r, "document">>)
      BY <1>3, InductiveParts DEF Sent
    <3>2. /\ request[r] \in ArgumentsOf(r) /\ ContractOutcome(request[r]) = "accepted"
          /\ IsMounted(request[r]) /\ verdict[r] \in {"none", "error"}
          /\ \A k \in Kinds : Sent(<<r, k>>) => k = "document"
      BY <1>0, <1>3, <3>1 DEF Tracked
    <3>3. \A k \in Kinds : Sent(<<r, k>>)' <=> Sent(<<r, k>>)
      BY <1>3 DEF Sent
    <3>4. document'[r] # None /\ request' = request /\ verdict' = verdict /\ served' = served
      BY <1>0, <1>1, <1>2, <1>6 DEF OwnTypes
    <3>5. served[r] = None
      BY <3>1, <3>2 DEF Tracked, Target, Kinds
    <3>6. request[r] # None
      BY <3>2, ArgumentsAssumption
    <3>7. QED  BY <2>2, <3>2, <3>3, <3>4, <3>5, <3>6 DEF Tracked
  <2>3. QED  BY <2>1, <2>2
<1>9. QED  BY <1>4, <1>7, <1>8, InductiveParts

\* OpenBao applies a call of a request's own.
LEMMA ApplyKeeps ==
  ASSUME Inductive, NEW r \in Requests, T!Decide(Target(r), 1, "applied")
  PROVE  T!Inductive' /\ Sent(Target(r)) /\ \A p \in Requests, k \in Kinds :
             /\ Sent(<<p, k>>)' <=> Sent(<<p, k>>)
             /\ report'[<<p, k>>] = report[<<p, k>>]
             /\ wire'[<<p, "document">>][1] = "applied" => wire[<<p, "document">>][1] = "applied"
<1>1. T!Inductive /\ Target(r) \in Calls /\ "document" \in Kinds
  BY InductiveParts, KindsAreCalls DEF Kinds
<1>2. \A p \in Requests : Target(r) # <<p, "document">>
  BY DEF Target
<1>3. /\ at[Target(r)] # "idle" /\ at' = at /\ report' = report
      /\ \A d \in Calls : d # Target(r) => Kept(d)
  BY <1>1, DecideStep
<1>4. T!Inductive'
  BY <1>1, TransportKeeps
<1>5. QED  BY <1>1, <1>2, <1>3, <1>4, KindsAreCalls DEF Kept, Sent

LEMMA ServeReviewedKeeps ==
  ASSUME Inductive, NEW r \in Requests, ServeReviewed(r)
  PROVE  Inductive'
<1>1. /\ T!Decide(Target(r), 1, "applied") /\ mounted' \in MountTables /\ NoNesting(mounted')
      /\ UNCHANGED <<request, verdict, document, served>>
  BY DEF ServeReviewed
<1>2. T!Inductive'
  BY <1>1, ApplyKeeps
<1>3. OwnTypes' /\ NoNesting(mounted)'
  BY <1>1, InductiveParts DEF OwnTypes, NoNesting
<1>4. ASSUME NEW p \in Requests PROVE Tracked(p)'
  <2>1. /\ \A k \in Kinds : Sent(<<p, k>>)' <=> Sent(<<p, k>>)
        /\ \A k \in Kinds : report'[<<p, k>>] = report[<<p, k>>]
        /\ wire'[<<p, "document">>][1] = "applied" => wire[<<p, "document">>][1] = "applied"
    BY <1>1, ApplyKeeps DEF Kinds
  <2>2. Tracked(p) /\ Target(p)' = Target(p) /\ "document" \in Kinds
    BY <1>1, InductiveParts DEF Target, Kinds
  <2>3. Sent(Target(p))' <=> Sent(Target(p))
    BY <2>1, <2>2 DEF Target, Kinds, Sent
  <2>4. QED  BY <1>1, <2>1, <2>2, <2>3 DEF Tracked
<1>5. QED  BY <1>2, <1>3, <1>4, InductiveParts

LEMMA ServeMountedKeeps ==
  ASSUME Inductive, NEW r \in Requests, ServeMounted(r)
  PROVE  Inductive'
<1>1. /\ T!Decide(Target(r), 1, "applied") /\ UNCHANGED <<request, verdict, mounted, document>>
      /\ request[r] # None /\ IsMounted(request[r])
  BY DEF ServeMounted, Accepted, IsMounted
<1>2. PICK m \in MountPaths :
          /\ mounted[m] # None /\ IsPrefix(m, request[r].fields["path"].segments)
          /\ served' = [served EXCEPT ![r] = [mount |-> m, table |-> mounted]]
  BY DEF ServeMounted
<1>3. T!Inductive' /\ Sent(Target(r))
  BY <1>1, ApplyKeeps
<1>4. OwnTypes /\ NoNesting(mounted)
  BY InductiveParts
<1>5. OwnTypes' /\ NoNesting(mounted)'
  BY <1>1, <1>2, <1>4 DEF OwnTypes, NoNesting
<1>6. ASSUME NEW p \in Requests PROVE Tracked(p)'
  <2>1. /\ \A k \in Kinds : Sent(<<p, k>>)' <=> Sent(<<p, k>>)
        /\ \A k \in Kinds : report'[<<p, k>>] = report[<<p, k>>]
        /\ wire'[<<p, "document">>][1] = "applied" => wire[<<p, "document">>][1] = "applied"
    BY <1>1, ApplyKeeps DEF Kinds
  <2>2. Tracked(p) /\ Target(p)' = Target(p) /\ "document" \in Kinds
    BY <1>1, InductiveParts DEF Target, Kinds
  <2>3. Sent(Target(p))' <=> Sent(Target(p))
    BY <2>1, <2>2 DEF Target, Kinds, Sent
  <2>4. \/ served'[p] = served[p]
        \/ /\ p = r /\ served'[p].mount = m /\ served'[p].table = mounted
    BY <1>2, <1>4 DEF OwnTypes
  <2>5. served'[p] # None =>
         /\ request[p] # None /\ IsMounted(request[p]) /\ Sent(Target(p))
         /\ NoNesting(served'[p].table) /\ served'[p].table[served'[p].mount] # None
         /\ IsPrefix(served'[p].mount, request[p].fields["path"].segments)
    <3>1. CASE served'[p] = served[p]
      BY <2>2, <3>1 DEF Tracked
    <3>2. CASE p = r /\ served'[p].mount = m /\ served'[p].table = mounted
      BY <1>1, <1>2, <1>3, <1>4, <3>2
    <3>3. QED  BY <2>4, <3>1, <3>2
  <2>6. QED  BY <1>1, <2>1, <2>2, <2>3, <2>5 DEF Tracked
<1>7. QED  BY <1>3, <1>5, <1>6, InductiveParts

LEMMA NextKeepsInductive == Inductive /\ [Next]_vars => Inductive'
<1> SUFFICES ASSUME Inductive, [Next]_vars PROVE Inductive'
  OBVIOUS
<1>1. ASSUME NEW r \in Requests, NEW q \in ArgumentsOf(r),
             Refuse(r, q) \/ Raise(r, q) \/ FailToWrap(r, q)
      PROVE  Inductive'
  BY <1>1, ConcludeAtOnce DEF Refuse, Raise, FailToWrap
<1>2. ASSUME NEW r \in Requests, NEW q \in ArgumentsOf(r), Execute(r, q) PROVE Inductive'
  BY <1>2, ExecuteKeeps
<1>3. ASSUME NEW r \in Requests, SendChecked(r) \/ NotAdvertised(r) PROVE Inductive'
  BY <1>3, SendCheckedKeeps, NotAdvertisedKeeps
<1>4. ASSUME NEW r \in Requests, Describe(r) \/ ServeReviewed(r) \/ ServeMounted(r)
      PROVE  Inductive'
  BY <1>4, DescribeKeeps, ServeReviewedKeeps, ServeMountedKeeps
<1>5. ASSUME NEW c \in Calls, Transport(c) \/ Decline(c) PROVE Inductive'
  BY <1>5, TransportActionKeeps
<1>6. CASE UNCHANGED vars
  <2>1. T!Inductive' /\ \A c \in Calls : Kept(c)
    BY <1>6, InductiveParts, TransportStays, StillKept DEF vars
  <2>2. OwnTypes' /\ NoNesting(mounted)'
    BY <1>6, InductiveParts DEF OwnTypes, NoNesting, vars
  <2>3. ASSUME NEW p \in Requests PROVE Tracked(p)'
    <3>1. Tracked(p) /\ \A k \in Kinds : Kept(<<p, k>>)
      BY <2>1, KindsAreCalls, InductiveParts
    <3>2. QED  BY <1>6, <3>1, Bystander DEF vars
  <2>4. QED  BY <2>1, <2>2, <2>3, InductiveParts
<1>7. QED  BY <1>1, <1>2, <1>3, <1>4, <1>5, <1>6 DEF Next

\* Only what the contract accepts is sent, marked as its method asks, and a
\* mounted operation only after a document that advertised it.
THEOREM OperationsInductive == Spec => []Inductive
<1>1. QED  BY InitInductive, NextKeepsInductive, PTL DEF Spec

-----------------------------------------------------------------------------
(* The transport inside *)

\* Every step sends, transports or decides one call, or leaves the transport alone.
LEMMA StepsOfTheTransport == [Next]_vars => [T!Next]_T!vars
<1> SUFFICES ASSUME [Next]_vars PROVE T!Next \/ UNCHANGED transport
  BY DEF transport, T!vars
<1>1. CASE UNCHANGED vars
  BY <1>1 DEF vars
<1>2. ASSUME NEW r \in Requests, NEW q \in ArgumentsOf(r),
             Refuse(r, q) \/ Raise(r, q) \/ FailToWrap(r, q)
      PROVE  UNCHANGED transport
  BY <1>2 DEF Refuse, Raise, FailToWrap, Conclude
<1>3. ASSUME NEW c \in Calls, T!Submit(c) PROVE T!Next
  BY <1>3 DEF T!Next
<1>4. ASSUME NEW c \in Calls, NEW fate \in {"applied", "rejected"}, T!Decide(c, 1, fate) PROVE T!Next
  <2>1. 1 \in T!Attempts
    BY DEF T!Attempts
  <2>2. QED  BY <1>4, <2>1 DEF T!Next
<1>5. ASSUME NEW r \in Requests, NEW q \in ArgumentsOf(r), Execute(r, q)
      PROVE  T!Next
  BY <1>3, <1>5 DEF Execute, Calls, Kinds
<1>6. ASSUME NEW r \in Requests, SendChecked(r) PROVE T!Next
  BY <1>3, <1>6, KindsAreCalls DEF SendChecked
<1>7. ASSUME NEW r \in Requests, NotAdvertised(r) PROVE UNCHANGED transport
  BY <1>7 DEF NotAdvertised, Conclude
<1>8. ASSUME NEW r \in Requests, Describe(r) \/ ServeReviewed(r) \/ ServeMounted(r) PROVE T!Next
  BY <1>4, <1>8, KindsAreCalls DEF Describe, ServeReviewed, ServeMounted, Kinds
<1>9. ASSUME NEW c \in Calls, Transport(c) \/ Decline(c) PROVE T!Next
  BY <1>4, <1>9 DEF Transport, Decline, T!Next
<1>10. QED  BY <1>1, <1>2, <1>5, <1>6, <1>7, <1>8, <1>9 DEF Next

\* However the broker picks its calls, checks them and meets an OpenBao whose mounts
\* change, what becomes of every call is a behaviour of the transport alone.
THEOREM OperationsUseTransport == Spec => T!Spec
<1>1. Init => T!Init
  BY DEF Init
<1>2. QED  BY <1>1, StepsOfTheTransport, PTL DEF Spec, T!Spec

-----------------------------------------------------------------------------
(* An error is the truth *)

LEMMA RowParts ==
  ASSUME NEW methods, NEW pattern
  PROVE  Row(methods, pattern).methods = methods /\ LeaseRow(methods, pattern).methods = methods
  BY DEF Row, LeaseRow

LEMMA OptionalRows ==
  ASSUME NEW methods, NEW pattern, NEW last, NEW row \in Optionally(methods, pattern, last)
  PROVE  row.methods = methods
  BY RowParts DEF Optionally

\* No reviewed path may be PUT to or patched.
LEMMA ReviewedMethods ==
  ASSUME NEW row \in AccessPaths \union FinalPaths \union SecretEnginePaths \union AuthPaths
  PROVE  row.methods \subseteq All
<1>1. CASE row \in AccessPaths
  BY <1>1, RowParts, OptionalRows DEF AccessPaths, All
<1>2. CASE row \in FinalPaths
  BY <1>2, RowParts DEF FinalPaths, All
<1>3. CASE row \in SecretEnginePaths
  BY <1>3, RowParts, OptionalRows DEF SecretEnginePaths, All
<1>4. CASE row \in AuthPaths
  BY <1>4, RowParts, OptionalRows DEF AuthPaths, LoginPaths, OidcPaths, ValidatePaths, All
<1>5. QED  BY <1>1, <1>2, <1>3, <1>4

LEMMA AcceptedIsValid ==
  ASSUME NEW q, ContractOutcome(q) = "accepted"
  PROVE  Validator(q.operation, q.fields)
  BY DEF ContractOutcome

\* What is sent with a method of change is marked as a mutation: the methods of
\* the reviewed and of the mounted operations and the flag agree.
LEMMA MutationFlag ==
  ASSUME NEW q, ContractOutcome(q) = "accepted", SentMethod(q) # "GET"
  PROVE  Mutation(q)
<1>1. Validator(q.operation, q.fields)
  BY AcceptedIsValid
<1>2. CASE q.operation \in Proxies
  <2>1. PICK rows : ValidReviewedProxy(q.fields, rows)
                    /\ rows \in {AccessPaths, FinalPaths, SecretEnginePaths, AuthPaths}
    BY <1>1, <1>2 DEF Validator, Proxies, ValidAuthenticationProxy
  <2>2. PICK row \in rows : q.fields["method"].text \in row.methods
    BY <2>1 DEF ValidReviewedProxy, Matches
  <2>3. q.fields["method"].text \in All
    BY <2>1, <2>2, ReviewedMethods
  <2>4. q.fields["method"].text \notin {"LIST", "GET"}
    BY <1>2 DEF SentMethod
  <2>5. QED  BY <1>2, <2>3, <2>4 DEF Mutation, All
<1>3. CASE q.operation = "execute_mounted_operation"
  BY <1>1, <1>3 DEF Validator, ValidMountedOperation, SentMethod, Mutation, Proxies
<1>4. CASE q.operation \notin Proxies \union {"execute_mounted_operation"}
  BY <1>4 DEF SentMethod, MethodOf, Mutation, MutatingOperations
<1>5. QED  BY <1>2, <1>3, <1>4

\* A request for a change that is told to have failed has changed nothing and
\* never will, whichever operation it names and whatever it brings.
THEOREM ErrorsTrue == Spec => []ErrorMeansUnchanged
<1>1. Inductive => ErrorMeansUnchanged
  <2> SUFFICES ASSUME Inductive, NEW r \in Requests, Told(r) \in {"refused", "raised", "error"},
                      NEW k \in {"read", "mutation"}, Sent(<<r, k>>), SentMethod(request[r]) # "GET"
               PROVE  wire[<<r, k>>][1] \notin {"applied", "pending"}
    BY DEF ErrorMeansUnchanged
  <2>1. T!Inductive /\ Tracked(r) /\ k \in Kinds /\ "document" \in Kinds /\ k # "document"
    BY InductiveParts DEF Kinds
  <2>2. /\ ContractOutcome(request[r]) = "accepted" /\ <<r, k>> = Target(r) /\ verdict[r] = "none"
        /\ IsMounted(request[r]) => report[<<r, "document">>] = "ok"
    BY <2>1 DEF Tracked
  <2>3. Target(r) = <<r, "mutation">> /\ Target(r) \in Calls /\ Target(r) \in Mutations
    BY <2>2, MutationFlag, KindsAreCalls DEF Target, Mutations
  <2>4. report[<<r, "document">>] # "error"
    <3>1. ASSUME report[<<r, "document">>] = "error" PROVE FALSE
      <4>1. Sent(<<r, "document">>)
        BY <2>1, <3>1, CallTracked, KindsAreCalls DEF Sent
      <4>2. QED  BY <2>1, <2>2, <3>1, <4>1 DEF Tracked
    <3>2. QED  BY <3>1
  <2>5. report[Target(r)] = "error"
    <3>1. Told(r) = report[Target(r)]
      BY <2>2, <2>4 DEF Told
    <3>2. QED  BY <2>1, <2>3, <3>1, CallTracked
  <2>6. TP!ReportsTrue
    BY <2>1, SameInductive, TransportAssumptions, TP!InductiveReportsTrue
  <2>7. QED  BY <2>2, <2>3, <2>5, <2>6 DEF TP!ReportsTrue, TP!Attempts
<1>2. QED  BY <1>1, OperationsInductive, PTL

-----------------------------------------------------------------------------
(* The schema check agrees with a reading keyword by keyword *)

\* Intervals from 1 are ordered by inclusion as their ends are, and inclusion of
\* finite sets is well-founded.
LEMMA LeastOf ==
  ASSUME NEW n \in Nat, NEW S \in SUBSET (1..n), S # {}
  PROVE  \E i \in S : \A j \in S : i <= j
<1> DEFINE R == StrictSubsetOrdering(1..n)
           Chain == {1..i : i \in S}
<1>1. IsFiniteSet(1..n)
  BY FS_Interval
<1>2. IsWellFoundedOn(R, SUBSET (1..n))
  BY <1>1, FS_StrictSubsetOrderingWellFounded, FS_FiniteSubsetsOfFinite
<1>3. Chain \subseteq SUBSET (1..n) /\ Chain # {}
  <2>1. \A i \in S : 1..i \subseteq 1..n
    OBVIOUS
  <2>2. QED  BY <2>1
<1>4. PICK x \in Chain : \A y \in Chain : ~(<<y, x>> \in R)
  <2> HIDE DEF R, Chain
  <2>1. QED  BY <1>2, <1>3, WFMin
<1>5. PICK i \in S : x = 1..i
  OBVIOUS
<1>6. ASSUME NEW j \in S, j < i PROVE FALSE
  <2>1. 1..j \in Chain /\ 1..j \subseteq 1..i /\ 1..j \subseteq 1..n /\ 1..i \subseteq 1..n
    BY <1>6
  <2>2. i \in 1..i /\ i \notin 1..j
    BY <1>6
  <2>3. <<1..j, 1..i>> \in R
    BY <2>1, <2>2 DEF StrictSubsetOrdering
  <2>4. QED  BY <1>4, <1>5, <2>1, <2>3
<1>7. QED  BY <1>6

\* Induction up to N, for a set of numbers.
LEMMA UpTo ==
  ASSUME NEW N \in Nat, NEW S, 0 \in S,
         \A n \in 0..(N - 1) : n \in S => n + 1 \in S
  PROVE  \A n \in 0..N : n \in S
<1> SUFFICES ASSUME NEW m \in 0..N, m \notin S PROVE FALSE
  OBVIOUS
<1> DEFINE missed == {n \in 1..N : n \notin S}
<1>1. PICK n \in missed : \A k \in missed : n <= k
  <2>1. missed \in SUBSET (1..N) /\ missed # {}
    OBVIOUS
  <2> HIDE DEF missed
  <2>2. QED  BY <2>1, LeastOf
<1>2. n - 1 \in 0..(N - 1) /\ n - 1 \notin missed /\ n = (n - 1) + 1
  BY <1>1
<1>3. n - 1 \in S
  BY <1>2
<1>4. n \in S
  BY <1>2, <1>3
<1>5. QED  BY <1>1, <1>4

\* The functions of the levels left that climb from first, a step for each level.
Climbs(S, first, step) ==
    {f \in [Levels -> S] : f[0] = first /\ \A n \in 1..(MaxDepth + 1) : f[n] = step[f[n - 1]]}

\* A function of the levels left may be given by what one level adds to those below.
LEMMA LevelsExist ==
  ASSUME NEW S, NEW first \in S, NEW step, \A s \in S : step[s] \in S
  PROVE  Climbs(S, first, step) # {}
<1> DEFINE N == MaxDepth + 1
           Built == {n \in 0..N : \E f \in [0..n -> S] :
                         f[0] = first /\ \A i \in 1..n : f[i] = step[f[i - 1]]}
<1>0. N \in Nat /\ Levels = 0..N
  BY MaxDepthAssumption DEF Levels
<1>1. 0 \in Built
  <2> DEFINE f == [i \in 0..0 |-> first]
  <2>1. f \in [0..0 -> S] /\ f[0] = first /\ \A i \in 1..0 : f[i] = step[f[i - 1]]
    OBVIOUS
  <2> HIDE DEF f
  <2>2. QED  BY <1>0, <2>1
<1>2. ASSUME NEW n \in 0..(N - 1), n \in Built PROVE n + 1 \in Built
  <2>1. PICK f \in [0..n -> S] : f[0] = first /\ \A i \in 1..n : f[i] = step[f[i - 1]]
    BY <1>2
  <2> DEFINE g == [i \in 0..(n + 1) |-> IF i <= n THEN f[i] ELSE step[f[n]]]
  <2>2. step[f[n]] \in S
    BY <1>0
  <2>3. g \in [0..(n + 1) -> S]
    BY <1>0, <2>2
  <2>4. g[0] = first
    BY <1>0, <2>1
  <2>5. ASSUME NEW i \in 1..(n + 1) PROVE g[i] = step[g[i - 1]]
    <3>1. CASE i = n + 1
      <4>1. g[n + 1] = step[f[n]] /\ g[n] = f[n] /\ i - 1 = n
        BY <1>0, <3>1
      <4> HIDE DEF g
      <4>2. QED  BY <3>1, <4>1
    <3>2. CASE i \in 1..n
      BY <1>0, <2>1, <3>2
    <3>3. QED  BY <1>0, <3>1, <3>2
  <2>6. n + 1 \in 0..N
    BY <1>0
  <2> HIDE DEF g
  <2>7. QED  BY <2>3, <2>4, <2>5, <2>6
<1>3. N \in Built
  <2> HIDE DEF N, Built
  <2>1. \A n \in 0..N : n \in Built
    BY <1>0, <1>1, <1>2, UpTo
  <2>2. QED  BY <1>0, <2>1
<1>4. QED  BY <1>0, <1>3 DEF Climbs

Pairs == Schemas \X Values

\* What one more level accepts, admits and lets pass for plain.
AcceptStep == [inner \in SUBSET Pairs |->
                  {pair \in Schemas \X Values : Accepts(Resolved(pair[1]), pair[2], inner)}]
AdmitStep == [inner \in SUBSET Pairs |->
                  {pair \in Schemas \X Values : Admits(Resolved(pair[1]), pair[2], inner)}]
PlainStep == [inner \in SUBSET Schemas |->
                  {schema \in Schemas : /\ PlainAlone(Resolved(schema))
                                        /\ PartsOf(Resolved(schema)) \subseteq inner}]

\* The recursive functions of OpenApiSchema are what their equations say.
LEMMA AcceptedLevels ==
  /\ accepted[0] = {}
  /\ \A n \in 1..(MaxDepth + 1) : accepted[n] =
        {pair \in Schemas \X Values : Accepts(Resolved(pair[1]), pair[2], accepted[n - 1])}
<1>1. PICK f \in [Levels -> SUBSET Pairs] :
          f[0] = {} /\ \A n \in 1..(MaxDepth + 1) : f[n] = AcceptStep[f[n - 1]]
  <2>1. \A s \in SUBSET Pairs : AcceptStep[s] \in SUBSET Pairs
    BY DEF AcceptStep, Pairs
  <2>2. {} \in SUBSET Pairs
    OBVIOUS
  <2>3. Climbs(SUBSET Pairs, {}, AcceptStep) # {}
    BY <2>1, <2>2, LevelsExist
  <2>4. QED  BY <2>3 DEF Climbs
<1>2. /\ 0 \in Levels /\ \A n \in 1..(MaxDepth + 1) : n \in Levels /\ n # 0 /\ n - 1 \in Levels
      /\ \A n \in Levels : n # 0 => n \in 1..(MaxDepth + 1)
  BY MaxDepthAssumption DEF Levels
<1>3. \A n \in Levels : f[n] =
          IF n = 0 THEN {}
          ELSE LET inner == f[n - 1]
               IN  {pair \in Schemas \X Values : Accepts(Resolved(pair[1]), pair[2], inner)}
  BY <1>1, <1>2 DEF AcceptStep
<1>4. f = [n \in Levels |->
               IF n = 0 THEN {}
               ELSE LET inner == f[n - 1]
                    IN  {pair \in Schemas \X Values : Accepts(Resolved(pair[1]), pair[2], inner)}]
  BY <1>1, <1>3
<1>5. accepted = [n \in Levels |->
               IF n = 0 THEN {}
               ELSE LET inner == accepted[n - 1]
                    IN  {pair \in Schemas \X Values : Accepts(Resolved(pair[1]), pair[2], inner)}]
  BY <1>4 DEF accepted
<1>6. QED  BY <1>2, <1>5
LEMMA AdmittedLevels ==
  /\ admitted[0] = {}
  /\ \A n \in 1..(MaxDepth + 1) : admitted[n] =
        {pair \in Schemas \X Values : Admits(Resolved(pair[1]), pair[2], admitted[n - 1])}
<1>1. PICK f \in [Levels -> SUBSET Pairs] :
          f[0] = {} /\ \A n \in 1..(MaxDepth + 1) : f[n] = AdmitStep[f[n - 1]]
  <2>1. \A s \in SUBSET Pairs : AdmitStep[s] \in SUBSET Pairs
    BY DEF AdmitStep, Pairs
  <2>2. {} \in SUBSET Pairs
    OBVIOUS
  <2>3. Climbs(SUBSET Pairs, {}, AdmitStep) # {}
    BY <2>1, <2>2, LevelsExist
  <2>4. QED  BY <2>3 DEF Climbs
<1>2. /\ 0 \in Levels /\ \A n \in 1..(MaxDepth + 1) : n \in Levels /\ n # 0 /\ n - 1 \in Levels
      /\ \A n \in Levels : n # 0 => n \in 1..(MaxDepth + 1)
  BY MaxDepthAssumption DEF Levels
<1>3. \A n \in Levels : f[n] =
          IF n = 0 THEN {}
          ELSE LET inner == f[n - 1]
               IN  {pair \in Schemas \X Values : Admits(Resolved(pair[1]), pair[2], inner)}
  BY <1>1, <1>2 DEF AdmitStep
<1>4. f = [n \in Levels |->
               IF n = 0 THEN {}
               ELSE LET inner == f[n - 1]
                    IN  {pair \in Schemas \X Values : Admits(Resolved(pair[1]), pair[2], inner)}]
  BY <1>1, <1>3
<1>5. admitted = [n \in Levels |->
               IF n = 0 THEN {}
               ELSE LET inner == admitted[n - 1]
                    IN  {pair \in Schemas \X Values : Admits(Resolved(pair[1]), pair[2], inner)}]
  BY <1>4 DEF admitted
<1>6. QED  BY <1>2, <1>5
LEMMA PlainLevels ==
  /\ plain[0] = Schemas
  /\ \A n \in 1..(MaxDepth + 1) : plain[n] =
        {schema \in Schemas : /\ PlainAlone(Resolved(schema))
                               /\ PartsOf(Resolved(schema)) \subseteq plain[n - 1]}
<1>1. PICK f \in [Levels -> SUBSET Schemas] :
          f[0] = Schemas /\ \A n \in 1..(MaxDepth + 1) : f[n] = PlainStep[f[n - 1]]
  <2>1. \A s \in SUBSET Schemas : PlainStep[s] \in SUBSET Schemas
    BY DEF PlainStep
  <2>2. Schemas \in SUBSET Schemas
    OBVIOUS
  <2>3. Climbs(SUBSET Schemas, Schemas, PlainStep) # {}
    BY <2>1, <2>2, LevelsExist
  <2>4. QED  BY <2>3 DEF Climbs
<1>2. /\ 0 \in Levels /\ \A n \in 1..(MaxDepth + 1) : n \in Levels /\ n # 0 /\ n - 1 \in Levels
      /\ \A n \in Levels : n # 0 => n \in 1..(MaxDepth + 1)
  BY MaxDepthAssumption DEF Levels
<1>3. \A n \in Levels : f[n] =
          IF n = 0 THEN Schemas
          ELSE LET inner == f[n - 1]
               IN  {schema \in Schemas : /\ PlainAlone(Resolved(schema))
                                         /\ PartsOf(Resolved(schema)) \subseteq inner}
  BY <1>1, <1>2 DEF PlainStep
<1>4. f = [n \in Levels |->
               IF n = 0 THEN Schemas
               ELSE LET inner == f[n - 1]
                    IN  {schema \in Schemas : /\ PlainAlone(Resolved(schema))
                                         /\ PartsOf(Resolved(schema)) \subseteq inner}]
  BY <1>1, <1>3
<1>5. plain = [n \in Levels |->
               IF n = 0 THEN Schemas
               ELSE LET inner == plain[n - 1]
                    IN  {schema \in Schemas : /\ PlainAlone(Resolved(schema))
                                         /\ PartsOf(Resolved(schema)) \subseteq inner}]
  BY <1>4 DEF plain
<1>6. QED  BY <1>2, <1>5

\* A schema of the document, or what a reference to none resolves to.
Known(schema) == schema \in Schemas \union {Malformed}

\* What the assumption on schemas says of one of them.
LEMMA SchemaFacts ==
  ASSUME NEW schema, Known(schema)
  PROVE  /\ PartsOf(schema) \subseteq Schemas
         /\ \A k \in Combinations : Has(schema, k) =>
               schema[k] \in Seq(Schemas) /\ Len(schema[k]) \in Nat
               /\ \A i \in 1..Len(schema[k]) : schema[k][i] \in PartsOf(schema)
         /\ Has(schema, "enum") => schema["enum"] \in Seq(Values)
<1>1. CASE schema \in Schemas
  <2>1. /\ PartsOf(schema) \subseteq Schemas
        /\ \A k \in Combinations : Has(schema, k) => schema[k] \in Seq(Schemas)
        /\ Has(schema, "enum") => schema["enum"] \in Seq(Values)
    BY <1>1, SchemasAssumption DEF Has
  <2>2. ASSUME NEW k \in Combinations, Has(schema, k)
        PROVE  /\ schema[k] \in Seq(Schemas) /\ Len(schema[k]) \in Nat
               /\ \A i \in 1..Len(schema[k]) : schema[k][i] \in PartsOf(schema)
    <3>1. schema[k] \in Seq(Schemas) /\ Len(schema[k]) \in Nat
      BY <2>1, <2>2
    <3>2. \A i \in 1..Len(schema[k]) : schema[k][i] \in ToSet(schema[k])
      BY DEF ToSet
    <3>3. ToSet(schema[k]) \subseteq PartsOf(schema)
      BY <2>2 DEF PartsOf, Has
    <3>4. QED  BY <3>1, <3>2, <3>3
  <2>3. QED  BY <2>1, <2>2
<1>2. CASE schema = Malformed
  BY <1>2 DEF Malformed, PartsOf, Has, Combinations
<1>3. QED  BY <1>1, <1>2 DEF Known

\* Where types fit, Python's equality is the schema's.
LEMMA EnumAgrees ==
  ASSUME NEW schema, Known(schema), NEW value \in Values, PlainAlone(schema),
         ScalarMatches(schema, value)
  PROVE  EnumAccepts(schema, value) <=>
             (Has(schema, "enum") => \E v \in ToSet(schema["enum"]) : SameValue(v, value))
<1> SUFFICES ASSUME Has(schema, "enum")
             PROVE  (\E i \in 1..Len(schema["enum"]) : PythonEqual(schema["enum"][i], value))
                      <=> \E v \in ToSet(schema["enum"]) : SameValue(v, value)
  BY DEF EnumAccepts
<1>1. schema["enum"] \in Seq(Values) /\ Has(schema, "type")
  BY SchemaFacts DEF PlainAlone
<1>2. \A v \in ToSet(schema["enum"]) : v \in Values /\ ScalarMatches(schema, v)
  BY <1>1 DEF PlainAlone, ToSet
<1>3. ASSUME NEW v \in ToSet(schema["enum"]) PROVE PythonEqual(v, value) <=> SameValue(v, value)
  <2>1. /\ v \in Values
        /\ schema["type"] = v.is \/ (schema["type"] = "number" /\ v.is = "integer")
        /\ schema["type"] = value.is \/ (schema["type"] = "number" /\ value.is = "integer")
    BY <1>1, <1>2, <1>3 DEF ScalarMatches
  <2>2. CASE schema["type"] = "boolean"
    <3>1. v \in [is: {"boolean"}, truth: BOOLEAN] /\ value \in [is: {"boolean"}, truth: BOOLEAN]
      BY <2>1, <2>2, ValuesAssumption
    <3>2. v.is = "boolean" /\ value.is = "boolean" /\ (v = value <=> (v.truth <=> value.truth))
      BY <3>1
    <3>3. QED  BY <3>1, <3>2 DEF PythonEqual, SameValue, Numeric, AsNumber
  <2>3. CASE schema["type"] \in {"integer", "number"}
    BY <2>1, <2>3 DEF PythonEqual, SameValue, Numeric, AsNumber
  <2>4. CASE schema["type"] \notin {"boolean", "integer", "number"}
    BY <2>1, <2>4 DEF PythonEqual, SameValue, Numeric, AsNumber
  <2>5. QED  BY <2>2, <2>3, <2>4
<1>4. ToSet(schema["enum"]) = {schema["enum"][i] : i \in 1..Len(schema["enum"])}
  BY <1>1 DEF ToSet
<1>5. QED  BY <1>3, <1>4

\* One of several is one set of one.
LEMMA ExactlyOne ==
  ASSUME NEW n \in Nat, NEW S \in SUBSET (1..n)
  PROVE  Cardinality(S) = 1 <=> \E i \in S : S = {i}
<1>1. IsFiniteSet(S)
  <2>1. IsFiniteSet(1..n)
    BY FS_Interval
  <2>2. QED  BY <2>1, FS_Subset
<1>2. QED  BY <1>1, FS_Singleton

\* allOf, anyOf and oneOf, which the code counts.
LEMMA CombinationsAgree ==
  ASSUME NEW schema, Known(schema), NEW value, NEW inner, PlainAlone(schema)
  PROVE  CombinationsAdmit(schema, value, inner) <=>
           /\ Has(schema, "allOf") =>
                \A i \in 1..Len(schema["allOf"]) : <<schema["allOf"][i], value>> \in inner
           /\ Has(schema, "oneOf") => /\ ~Has(schema, "anyOf")
                                      /\ Cardinality(Alternatives(schema["oneOf"], value, inner)) = 1
           /\ Has(schema, "anyOf") => Alternatives(schema["anyOf"], value, inner) # {}
<1>1. Has(schema, "oneOf") => Len(schema["oneOf"]) \in Nat
  BY SchemaFacts DEF Combinations
<1>2. Has(schema, "oneOf") =>
        (Cardinality(Alternatives(schema["oneOf"], value, inner)) = 1 <=>
           \E i \in Alternatives(schema["oneOf"], value, inner) :
               Alternatives(schema["oneOf"], value, inner) = {i})
  BY <1>1, ExactlyOne DEF Alternatives
<1>3. Has(schema, "oneOf") => ~Has(schema, "anyOf")
  BY DEF PlainAlone
<1>4. QED  BY <1>2, <1>3 DEF CombinationsAdmit, Alternatives

\* The branch that the code takes for a type looks at every keyword of a plain schema.
LEMMA TypedAgrees ==
  ASSUME NEW schema, NEW value \in Values, NEW inner, PlainAlone(schema),
         ~Has(schema, "oneOf"), ~Has(schema, "anyOf")
  PROVE  TypedAccepts(schema, value, inner) <=>
           /\ ScalarMatches(schema, value)
           /\ FieldsAdmitted(schema, value, inner)
           /\ ItemsAdmitted(schema, value, inner)
           /\ LimitsAdmit(schema, value)
<1>1. CASE Has(schema, "type") /\ schema["type"] = "object"
  <2>1. ~Has(schema, "items") /\ ~Has(schema, "minItems") /\ ~Has(schema, "maxItems")
    BY <1>1 DEF PlainAlone, Has
  <2>2. ScalarMatches(schema, value) <=> value.is = "object"
    BY <1>1 DEF ScalarMatches
  <2>3. value.is = "object" => LimitsAdmit(schema, value) /\ ItemsAdmitted(schema, value, inner)
    BY <2>1 DEF LimitsAdmit, ItemsAdmitted, Says, Numeric
  <2>4. ASSUME value.is = "object"
        PROVE  ObjectAccepts(schema, value, inner) <=> FieldsAdmitted(schema, value, inner)
    BY <1>1, <2>4 DEF ObjectAccepts, FieldsAdmitted, Says, RequiredAndKnownFields, Unchecked, FieldSchema
  <2>5. QED  BY <1>1, <2>2, <2>3, <2>4 DEF TypedAccepts, ObjectAccepts
<1>2. CASE ~(Has(schema, "type") /\ schema["type"] = "object")
  <2>1. /\ ~Has(schema, "properties") /\ ~Has(schema, "required")
        /\ ~Has(schema, "additionalProperties")
    BY <1>2 DEF PlainAlone, Has
  <2>2. CASE Has(schema, "type") /\ schema["type"] = "array"
    <3>1. ScalarMatches(schema, value) <=> value.is = "array"
      BY <2>2 DEF ScalarMatches
    <3>2. value.is = "array" => LimitsAdmit(schema, value) /\ FieldsAdmitted(schema, value, inner)
      BY DEF LimitsAdmit, FieldsAdmitted, Says, Numeric
    <3>3. Has(schema, "items")
      BY <2>2 DEF PlainAlone
    <3>4. ASSUME value.is = "array"
          PROVE  ArrayAccepts(schema, value, inner) <=> ItemsAdmitted(schema, value, inner)
      BY <3>3, <3>4 DEF ArrayAccepts, ItemsAdmitted, Says, Within
    <3>5. QED  BY <2>1, <2>2, <3>1, <3>2, <3>4 DEF TypedAccepts, ArrayAccepts
  <2>3. CASE ~(Has(schema, "type") /\ schema["type"] = "array")
    <3>1. ~Has(schema, "items") /\ ~Has(schema, "minItems") /\ ~Has(schema, "maxItems")
      BY <2>3 DEF PlainAlone, Has
    <3>2. ItemsAdmitted(schema, value, inner)
      BY <3>1 DEF ItemsAdmitted, Says
    <3>3. ScalarMatches(schema, value) => FieldsAdmitted(schema, value, inner)
      BY <1>2, <2>1 DEF ScalarMatches, FieldsAdmitted, Says
    <3>4. ScalarConstraints(schema, value) <=> LimitsAdmit(schema, value)
      BY DEF ScalarConstraints, LimitsAdmit, Says, Within, Numeric
    <3>5. QED  BY <1>2, <2>1, <2>3, <3>2, <3>3, <3>4 DEF TypedAccepts
  <2>4. QED  BY <2>2, <2>3
<1>3. QED  BY <1>1, <1>2

\* One level of the check and of the reading agree over the same levels below.
LEMMA StepAgrees ==
  ASSUME NEW schema, Known(schema), NEW value \in Values, NEW inner, PlainAlone(schema)
  PROVE  Accepts(schema, value, inner) <=> Admits(schema, value, inner)
<1> DEFINE typed == Has(schema, "type") =>
               value.is = schema["type"] \/ (value.is = "integer" /\ schema["type"] = "number")
           listed == Has(schema, "enum") => \E v \in ToSet(schema["enum"]) : SameValue(v, value)
<1>0. typed <=> ScalarMatches(schema, value)
  BY DEF ScalarMatches
<1>1. typed => (EnumAccepts(schema, value) <=> listed)
  BY <1>0, EnumAgrees
<1>2. CASE Has(schema, "oneOf") \/ Has(schema, "anyOf")
  <2>1. \A k \in {"type", "enum", "properties", "required", "additionalProperties", "items",
                  "minItems", "maxItems", "minLength", "maxLength", "format", "minimum", "maximum"} :
            ~Has(schema, k)
    BY <1>2 DEF PlainAlone, Has, Combinations
  <2>2. /\ FieldsAdmitted(schema, value, inner) /\ ItemsAdmitted(schema, value, inner)
        /\ LimitsAdmit(schema, value) /\ EnumAccepts(schema, value) /\ typed /\ listed
    BY <2>1 DEF FieldsAdmitted, ItemsAdmitted, LimitsAdmit, EnumAccepts, Says
  <2> HIDE DEF typed, listed
  <2>3. Admits(schema, value, inner) <=>
          /\ ~Has(schema, "malformed")
          /\ \/ value.is = "null" /\ Has(schema, "nullable") /\ schema["nullable"]
             \/ CombinationsAdmit(schema, value, inner)
    BY <2>2 DEF Admits, Says, typed, listed
  <2>4. QED  BY <1>2, <2>2, <2>3, CombinationsAgree DEF Accepts
<1>3. CASE ~Has(schema, "oneOf") /\ ~Has(schema, "anyOf")
  <2>1. TypedAccepts(schema, value, inner) <=>
          /\ typed
          /\ FieldsAdmitted(schema, value, inner)
          /\ ItemsAdmitted(schema, value, inner)
          /\ LimitsAdmit(schema, value)
    BY <1>0, <1>3, TypedAgrees
  <2>2. CombinationsAdmit(schema, value, inner) <=>
          (Has(schema, "allOf") =>
             \A i \in 1..Len(schema["allOf"]) : <<schema["allOf"][i], value>> \in inner)
    BY <1>3, CombinationsAgree
  <2>3. Admits(schema, value, inner) <=>
          /\ ~Has(schema, "malformed")
          /\ \/ value.is = "null" /\ Has(schema, "nullable") /\ schema["nullable"]
             \/ /\ typed /\ listed
                /\ CombinationsAdmit(schema, value, inner)
                /\ FieldsAdmitted(schema, value, inner)
                /\ ItemsAdmitted(schema, value, inner)
                /\ LimitsAdmit(schema, value)
    BY DEF Admits, Says
  <2> HIDE DEF typed, listed
  <2>4. QED  BY <1>1, <1>3, <2>1, <2>2, <2>3 DEF Accepts
<1>4. QED  BY <1>2, <1>3

\* What a level accepts is up to the parts of the schema at the level below.
LEMMA AcceptsByParts ==
  ASSUME NEW schema, Known(schema), NEW value \in Values, NEW inner, NEW other,
         \A part \in PartsOf(schema), v \in Values : <<part, v>> \in inner <=> <<part, v>> \in other
  PROVE  Accepts(schema, value, inner) <=> Accepts(schema, value, other)
<1>1. ASSUME NEW k \in Combinations, Has(schema, k)
      PROVE  /\ Alternatives(schema[k], value, inner) = Alternatives(schema[k], value, other)
             /\ \A i \in 1..Len(schema[k]) :
                    <<schema[k][i], value>> \in inner <=> <<schema[k][i], value>> \in other
  BY <1>1, SchemaFacts DEF Alternatives
<1>2. ObjectAccepts(schema, value, inner) <=> ObjectAccepts(schema, value, other)
  <2> SUFFICES ASSUME value.is = "object", RequiredAndKnownFields(schema, value),
                      NEW name \in DOMAIN value.fields, ~Unchecked(schema, name)
               PROVE  <<FieldSchema(schema, name), value.fields[name]>> \in inner
                        <=> <<FieldSchema(schema, name), value.fields[name]>> \in other
    BY DEF ObjectAccepts
  <2>1. value.fields[name] \in Values
    BY ValuesAssumption
  <2>2. FieldSchema(schema, name) \in PartsOf(schema)
    <3>1. CASE Has(schema, "properties") /\ name \in DOMAIN schema["properties"]
      <4> DEFINE declared == {schema["properties"][n] : n \in DOMAIN schema["properties"]}
                 all == {{schema[k][n] : n \in DOMAIN schema[k]} : k \in {"properties"} \intersect DOMAIN schema}
      <4>1. FieldSchema(schema, name) \in declared
        BY <3>1 DEF FieldSchema
      <4>2. declared \in all
        BY <3>1 DEF Has
      <4> HIDE DEF declared
      <4>3. all \subseteq SUBSET PartsOf(schema)
        BY DEF PartsOf
      <4> HIDE DEF all
      <4>4. QED  BY <4>1, <4>2, <4>3
    <3>2. CASE ~(Has(schema, "properties") /\ name \in DOMAIN schema["properties"])
      <4>1. Has(schema, "additionalProperties")
        BY <3>2 DEF RequiredAndKnownFields
      <4>2. QED  BY <3>2, <4>1 DEF FieldSchema, PartsOf, Has
    <3>3. QED  BY <3>1, <3>2
  <2>3. QED  BY <2>1, <2>2
<1>3. ArrayAccepts(schema, value, inner) <=> ArrayAccepts(schema, value, other)
  <2> SUFFICES ASSUME value.is = "array", Has(schema, "items"), NEW i \in 1..Len(value.items)
               PROVE  <<schema["items"], value.items[i]>> \in inner
                        <=> <<schema["items"], value.items[i]>> \in other
    BY DEF ArrayAccepts
  <2>1. value.items[i] \in Values
    BY ValuesAssumption
  <2>2. schema["items"] \in PartsOf(schema)
    BY DEF PartsOf, Has
  <2>3. QED  BY <2>1, <2>2
<1>4. TypedAccepts(schema, value, inner) <=> TypedAccepts(schema, value, other)
  BY <1>2, <1>3 DEF TypedAccepts
<1>5. QED  BY <1>1, <1>4 DEF Accepts, Combinations

\* A reference leads to a schema of the document or to a malformed one.
LEMMA ResolvedIsKnown ==
  ASSUME NEW schema \in Schemas PROVE Known(Resolved(schema))
  BY SchemasAssumption DEF Resolved, Known, Has

\* By induction over the levels left.
LEMMA SameToDepth ==
  \A n \in Levels : \A schema \in plain[n], value \in Values :
      <<schema, value>> \in accepted[n] <=> <<schema, value>> \in admitted[n]
<1> DEFINE Same == {n \in Levels : \A schema \in plain[n], value \in Values :
                        <<schema, value>> \in accepted[n] <=> <<schema, value>> \in admitted[n]}
           N == MaxDepth + 1
<1>0. N \in Nat /\ Levels = 0..N
  BY MaxDepthAssumption DEF Levels
<1>1. 0 \in Same
  BY <1>0, AcceptedLevels, AdmittedLevels
<1>2. ASSUME NEW n \in 0..(N - 1), n \in Same PROVE n + 1 \in Same
  <2>1. n + 1 \in 1..N /\ n + 1 \in Levels /\ (n + 1) - 1 = n
    BY <1>0
  <2>2. /\ accepted[n + 1] = {pair \in Schemas \X Values : Accepts(Resolved(pair[1]), pair[2], accepted[n])}
        /\ admitted[n + 1] = {pair \in Schemas \X Values : Admits(Resolved(pair[1]), pair[2], admitted[n])}
        /\ plain[n + 1] = {schema \in Schemas : /\ PlainAlone(Resolved(schema))
                                                /\ PartsOf(Resolved(schema)) \subseteq plain[n]}
    BY <2>1, AcceptedLevels, AdmittedLevels, PlainLevels
  <2>3. ASSUME NEW schema \in plain[n + 1], NEW value \in Values
        PROVE  <<schema, value>> \in accepted[n + 1] <=> <<schema, value>> \in admitted[n + 1]
    <3> DEFINE whole == Resolved(schema)
    <3>1. schema \in Schemas /\ PlainAlone(whole) /\ PartsOf(whole) \subseteq plain[n]
      BY <2>2
    <3>2. Known(whole)
      BY <3>1, ResolvedIsKnown
    <3>3. \A part \in PartsOf(whole), v \in Values :
              <<part, v>> \in accepted[n] <=> <<part, v>> \in admitted[n]
      BY <1>2, <3>1
    <3> HIDE DEF whole
    <3>4. Accepts(whole, value, accepted[n]) <=> Accepts(whole, value, admitted[n])
      BY <3>2, <3>3, AcceptsByParts
    <3>5. Accepts(whole, value, admitted[n]) <=> Admits(whole, value, admitted[n])
      BY <3>1, <3>2, StepAgrees
    <3>6. QED  BY <2>2, <3>1, <3>4, <3>5 DEF whole
  <2>4. QED  BY <2>1, <2>3
<1>3. \A n \in 0..N : n \in Same
  <2> HIDE DEF N, Same
  <2>1. QED  BY <1>0, <1>1, <1>2, UpTo
<1>4. QED  BY <1>0, <1>3

\* _validate_openapi_value lets through exactly the values that a schema admits,
\* read keyword by keyword, for every plain schema, however deeply composed or
\* self-referential, and every value.
THEOREM SchemaCheckExact ==
  \A schema \in plain[MaxDepth + 1], value \in Values :
      CheckAccepts(schema, value) <=> <<schema, value>> \in admitted[MaxDepth + 1]
<1>1. MaxDepth + 1 \in Levels
  BY MaxDepthAssumption DEF Levels
<1>2. QED  BY <1>1, SameToDepth DEF CheckAccepts

\* So an operation declares what the check of its query and body lets through.
LEMMA AcceptedIsAdmitted ==
  ASSUME NEW operation, NEW query, NEW body, ArgumentsAccepted(operation, query, body)
  PROVE  ArgumentsAdmitted(operation, query, body)
<1>1. ASSUME NEW schema, NEW value, CheckAccepts(schema, value) PROVE Admitted(schema, value)
  <2>1. value \in Values
    <3>1. accepted[MaxDepth + 1] \subseteq Schemas \X Values
      <4>1. MaxDepth + 1 \in 1..(MaxDepth + 1)
        BY MaxDepthAssumption
      <4>2. QED  BY <4>1, AcceptedLevels
    <3>2. QED  BY <1>1, <3>1 DEF CheckAccepts
  <2>2. QED  BY <1>1, <2>1, SchemaCheckExact DEF Admitted
<1>2. QueryAccepted(operation, query) /\ BodyAccepted(operation, body)
  BY DEF ArgumentsAccepted
<1>3. ASSUME NEW i \in 1..Len(operation.parameters)
      PROVE  IF operation.parameters[i].name \in DOMAIN query
             THEN Admitted(operation.parameters[i].schema, query[operation.parameters[i].name])
             ELSE ~operation.parameters[i].required
  <2> DEFINE parameter == operation.parameters[i]
  <2>1. parameter \in Parameter(operation, parameter.name)
    BY DEF Parameter
  <2>2. IF parameter.name \in DOMAIN query
        THEN CheckAccepts(parameter.schema, query[parameter.name])
        ELSE ~parameter.required
    BY <1>2, <2>1 DEF QueryAccepted
  <2>3. CheckAccepts(parameter.schema, query[parameter.name])
        => Admitted(parameter.schema, query[parameter.name])
    BY <1>1
  <2>4. QED  BY <2>2, <2>3, Zenon
<1>4. \A name \in DOMAIN query : Parameter(operation, name) # {}
  <2> TAKE name \in DOMAIN query
  <2>1. PICK i \in 1..Len(operation.parameters) : operation.parameters[i].name = name
    BY <1>2 DEF QueryAccepted
  <2>2. operation.parameters[i] \in Parameter(operation, name)
    BY <2>1 DEF Parameter
  <2>3. QED  BY <2>2
<1>5. IF Has(operation, "body") THEN Admitted(operation.body, body) ELSE DOMAIN body.fields = {}
  <2>1. CheckAccepts(operation.body, body) => Admitted(operation.body, body)
    BY <1>1
  <2>2. IF Has(operation, "body") THEN CheckAccepts(operation.body, body)
        ELSE DOMAIN body.fields = {}
    BY <1>2 DEF BodyAccepted
  <2>3. QED  BY <2>1, <2>2
<1>6. QED  BY <1>3, <1>4, <1>5 DEF ArgumentsAdmitted

-----------------------------------------------------------------------------
(* A mounted operation is served by its mount *)

\* Of two prefixes of a path one is a prefix of the other.
LEMMA PrefixesNest ==
  ASSUME NEW m \in Seq(STRING), NEW n \in Seq(STRING), NEW path \in Seq(STRING),
         IsPrefix(m, path), IsPrefix(n, path)
  PROVE  IsPrefix(m, n) \/ IsPrefix(n, m)
<1>1. Len(m) \in Nat /\ Len(n) \in Nat
  OBVIOUS
<1>2. CASE Len(m) <= Len(n)
  <2>1. SubSeq(m, 1, Len(m)) = SubSeq(n, 1, Len(m))
    BY <1>1, <1>2 DEF IsPrefix
  <2>2. QED  BY <1>2, <2>1 DEF IsPrefix
<1>3. CASE Len(n) <= Len(m)
  <2>1. SubSeq(n, 1, Len(n)) = SubSeq(m, 1, Len(n))
    BY <1>1, <1>3 DEF IsPrefix
  <2>2. QED  BY <1>3, <2>1 DEF IsPrefix
<1>4. QED  BY <1>1, <1>2, <1>3

LEMMA AcceptedWhenServed ==
  ASSUME Inductive, NEW r \in Requests, served[r] # None
  PROVE  /\ request[r] \in ArgumentsOf(r) /\ ContractOutcome(request[r]) = "accepted"
         /\ IsMounted(request[r]) /\ ValidMountedOperation(request[r].fields)
         /\ Advertised(request[r], document[r])
<1>1. Tracked(r)
  BY InductiveParts
<1>2. IsMounted(request[r]) /\ Sent(Target(r))
  BY <1>1 DEF Tracked
<1>3. PICK k \in Kinds : k # "document" /\ Target(r) = <<r, k>>
  BY DEF Target, Kinds
<1>4. /\ request[r] \in ArgumentsOf(r) /\ ContractOutcome(request[r]) = "accepted"
      /\ Advertised(request[r], document[r])
  BY <1>1, <1>2, <1>3 DEF Tracked
<1>5. QED  BY <1>2, <1>4, AcceptedIsValid DEF Validator, IsMounted

LEMMA AdvertisedHere ==
  ASSUME NEW q, NEW doc, Advertised(q, doc)
  PROVE  LET mount == q.fields["mount_path"].segments
         IN  /\ mount \in MountPaths /\ doc.mounted[mount] # None
             /\ \E o \in Offers(doc.mounted[mount], q) : Asked(q, o) /\ Suits(q, o)
<1> DEFINE mount == q.fields["mount_path"].segments
           template == q.fields["path_template"]
<1>1. PICK m \in MountPaths :
          /\ Describes(doc, m, q) /\ m = mount
          /\ \E o \in Offers(doc.mounted[m], q) : Asked(q, o) /\ o.mount_parameter /\ Suits(q, o)
  BY Zenon DEF Advertised
<1>2. template.tail \in Templates(doc.mounted, m)
  BY <1>1, Zenon DEF Describes
<1>3. doc.mounted[m] # None
  BY <1>2 DEF Templates
<1>4. \E o \in Offers(doc.mounted[m], q) : Asked(q, o) /\ Suits(q, o)
  BY <1>1
<1> HIDE DEF template
<1>5. QED  BY <1>1, <1>3, <1>4, Zenon

LEMMA ValidMountedPaths ==
  ASSUME NEW q, NEW r \in Requests, q \in ArgumentsOf(r), ValidMountedOperation(q.fields)
  PROVE  LET mount == q.fields["mount_path"].segments
             path == q.fields["path"].segments
         IN  /\ mount \in Seq(STRING) /\ path \in Seq(STRING) /\ IsPrefix(mount, path)
             /\ FollowsTemplate(Beneath(mount, path), q.fields["path_template"].tail)
<1>1. Is(q.fields, "mount_path", "string") /\ Is(q.fields, "path", "string")
  BY DEF ValidMountedOperation
<1>2. /\ q.fields["mount_path"].segments \in Seq(STRING)
      /\ q.fields["path"].segments \in Seq(STRING)
  BY <1>1, ArgumentsAssumption
<1>3. /\ IsPrefix(q.fields["mount_path"].segments, q.fields["path"].segments)
      /\ FollowsTemplate(Beneath(q.fields["mount_path"].segments, q.fields["path"].segments),
                         q.fields["path_template"].tail)
  BY DEF ValidMountedOperation
<1>4. QED  BY <1>2, <1>3

LEMMA InductiveServedByItsMount == Inductive => ServedByItsMount
<1> SUFFICES ASSUME Inductive, NEW r \in Requests, served[r] # None,
                    document[r].mounted[request[r].fields["mount_path"].segments]
                      = served[r].table[request[r].fields["mount_path"].segments]
             PROVE  served[r].mount = request[r].fields["mount_path"].segments
  BY DEF ServedByItsMount
<1> DEFINE fields == request[r].fields
           mount == fields["mount_path"].segments
           path == fields["path"].segments
           m == served[r].mount
           table == served[r].table
<1>1. Tracked(r) /\ OwnTypes
  BY InductiveParts
<1>2. NoNesting(table) /\ table[m] # None /\ IsPrefix(m, path)
  BY <1>1 DEF Tracked
<1>3. /\ request[r] \in ArgumentsOf(r) /\ ValidMountedOperation(fields)
      /\ Advertised(request[r], document[r])
  BY AcceptedWhenServed
<1>4. mount \in MountPaths /\ document[r].mounted[mount] # None
  BY <1>3, AdvertisedHere
<1>5. m \in MountPaths
  BY <1>1 DEF OwnTypes
<1>6. /\ mount \in Seq(STRING) /\ m \in Seq(STRING) /\ path \in Seq(STRING)
      /\ IsPrefix(mount, path)
  <2>1. mount \in Seq(STRING) /\ path \in Seq(STRING) /\ IsPrefix(mount, path)
    BY <1>3, ValidMountedPaths
  <2>2. m \in Seq(STRING)
    BY <1>5, MountPathsAssumption
  <2>3. QED  BY <2>1, <2>2
<1>7. IsPrefix(m, mount) \/ IsPrefix(mount, m)
  BY <1>2, <1>6, PrefixesNest
<1>8. QED  BY <1>2, <1>4, <1>5, <1>7 DEF NoNesting

\* A mounted operation is served by the mount it names and by no other, unless
\* that path was mounted anew, moved or unmounted since the document was written.
THEOREM ServedWhereAdvertised == Spec => []ServedByItsMount
<1>1. QED  BY InductiveServedByItsMount, OperationsInductive, PTL

\* It is, then, the operation that was advertised, with arguments it declares.
THEOREM ServedWhatIsAdvertised == Spec => []ServedAsAdvertised
<1>1. Inductive => ServedAsAdvertised
  <2> SUFFICES ASSUME Inductive, NEW r \in Requests, served[r] # None,
                      document[r].mounted[request[r].fields["mount_path"].segments]
                        = served[r].table[request[r].fields["mount_path"].segments]
               PROVE  \E o \in Routed(request[r], request[r].fields["mount_path"].segments,
                                      served[r].table[request[r].fields["mount_path"].segments]) :
                          /\ Asked(request[r], o)
                          /\ ArgumentsAdmitted(o, QueryOf(request[r]), request[r].fields["body"])
    BY InductiveServedByItsMount DEF ServedAsAdvertised
  <2> DEFINE q == request[r]
             mount == q.fields["mount_path"].segments
             engine == served[r].table[mount]
  <2>1. /\ q \in ArgumentsOf(r) /\ ContractOutcome(q) = "accepted" /\ IsMounted(q)
        /\ ValidMountedOperation(q.fields) /\ Advertised(q, document[r])
    BY AcceptedWhenServed
  <2>2. /\ mount \in MountPaths /\ engine # None
        /\ \E o \in Offers(engine, q) : Asked(q, o) /\ Suits(q, o)
    <3>1. document[r].mounted[mount] = engine
      OBVIOUS
    <3> HIDE DEF engine
    <3>2. QED  BY <2>1, <3>1, AdvertisedHere
  <2>3. PICK o \in Offers(engine, q) : Asked(q, o) /\ Suits(q, o)
    BY <2>2
  <2>4. ArgumentsAdmitted(o, QueryOf(q), q.fields["body"])
    BY <2>3, AcceptedIsAdmitted DEF Suits
  <2>5. o \in Routed(q, mount, engine)
    <3>1. FollowsTemplate(Beneath(mount, q.fields["path"].segments),
                          q.fields["path_template"].tail)
      BY <2>1, ValidMountedPaths
    <3>2. /\ o \in OperationsOf(engine) /\ o.method = SentMethod(q)
          /\ o.tail = q.fields["path_template"].tail
      BY <2>3 DEF Offers
    <3>3. QED  BY <3>1, <3>2 DEF Routed
  <2>6. QED  BY <2>3, <2>4, <2>5
<1>2. QED  BY <1>1, OperationsInductive, PTL

-----------------------------------------------------------------------------
(* Which paths are taken for a login *)

\* A row whose paths are taken for no login, by what its segments may be.
Innocent(row) ==
    /\ row.lease = FALSE /\ Len(row.pattern) \in Nat \ {0}
    /\ \A i \in 2..Len(row.pattern) :
          /\ "oidc" \in row.pattern[i - 1] => row.pattern[i] \intersect {"auth_url", "poll"} = {}
          /\ "totp" \in row.pattern[i - 1] => "generate" \notin row.pattern[i]

\* What may follow what.
May(b, c) == /\ "oidc" \in b => c \intersect {"auth_url", "poll"} = {}
             /\ "totp" \in b => "generate" \notin c

LEMMA Innocent2 ==
  ASSUME NEW methods, NEW a, NEW b, May(a, b)
  PROVE  Innocent(Row(methods, <<a, b>>))
  BY DEF Innocent, Row, May
LEMMA Innocent3 ==
  ASSUME NEW methods, NEW a, NEW b, NEW c, May(a, b), May(b, c)
  PROVE  Innocent(Row(methods, <<a, b, c>>))
  BY DEF Innocent, Row, May
LEMMA Innocent4 ==
  ASSUME NEW methods, NEW a, NEW b, NEW c, NEW d, May(a, b), May(b, c), May(c, d)
  PROVE  Innocent(Row(methods, <<a, b, c, d>>))
  BY DEF Innocent, Row, May
LEMMA Innocent5 ==
  ASSUME NEW methods, NEW a, NEW b, NEW c, NEW d, NEW e,
         May(a, b), May(b, c), May(c, d), May(d, e)
  PROVE  Innocent(Row(methods, <<a, b, c, d, e>>))
  BY DEF Innocent, Row, May
LEMMA Innocent6 ==
  ASSUME NEW methods, NEW a, NEW b, NEW c, NEW d, NEW e, NEW f,
         May(a, b), May(b, c), May(c, d), May(d, e), May(e, f)
  PROVE  Innocent(Row(methods, <<a, b, c, d, e, f>>))
  BY DEF Innocent, Row, May

\* An optional last segment is innocent where it may follow the one before it.
LEMMA InnocentOptionally ==
  ASSUME NEW S, NEW methods, NEW pattern \in Seq(S), NEW last \in S,
         Innocent(Row(methods, pattern)), May(pattern[Len(pattern)], last),
         NEW row \in Optionally(methods, pattern, last)
  PROVE  Innocent(row)
<1>1. CASE row = Row(methods, pattern)
  BY <1>1
<1>2. CASE row = Row(methods, Append(pattern, last))
  <2> DEFINE longer == Append(pattern, last)
  <2>1. Len(longer) = Len(pattern) + 1 /\ Len(pattern) \in Nat \ {0}
    BY DEF Innocent, Row
  <2>2. (\A i \in 1..Len(pattern) : longer[i] = pattern[i]) /\ longer[Len(pattern) + 1] = last
    OBVIOUS
  <2>3. ASSUME NEW i \in 2..Len(longer) PROVE May(longer[i - 1], longer[i])
    <3>1. CASE i = Len(pattern) + 1
      BY <2>1, <2>2, <3>1
    <3>2. CASE i # Len(pattern) + 1
      <4>1. i \in 2..Len(pattern) /\ longer[i] = pattern[i] /\ longer[i - 1] = pattern[i - 1]
        BY <2>1, <2>2, <3>2
      <4>2. QED  BY <4>1 DEF Innocent, Row, May
    <3>3. QED  BY <3>1, <3>2
  <2> HIDE DEF longer
  <2>4. QED  BY <1>2, <2>1, <2>3 DEF Innocent, Row, May, longer
<1>3. QED  BY <1>1, <1>2 DEF Optionally

\* The row of TOTP: one of its paths takes the caller's own token.
TotpRow == Row({"POST"}, <<{"identity"}, {"mfa"}, {"method"}, {"totp"},
                           {"generate", "admin-generate", "admin-destroy"}>>)

LEMMA AuthRows ==
  ASSUME NEW row \in AuthPaths
  PROVE  Innocent(row) \/ row \in UnauthenticatedPaths \/ row = TotpRow
<1>1. ASSUME row \in {Row({"LIST"}, <<{"sys"}, {"auth"}>>), Row({"POST"}, <<{"sys"}, {"remount"}>>)}
      PROVE  Innocent(row)
  <2>1. May({"sys"}, {"auth"}) /\ May({"sys"}, {"remount"})
    BY DEF May
  <2>2. QED  BY <1>1, <2>1, Innocent2
<1>2. ASSUME row \in Optionally({"GET", "POST", "DELETE"}, <<{"sys"}, {"auth"}, Mountable>>, {"tune"})
      PROVE  Innocent(row)
  <2>1. May({"sys"}, {"auth"}) /\ May({"auth"}, Mountable) /\ May(Mountable, {"tune"})
    BY DEF May
  <2> DEFINE pattern == <<{"sys"}, {"auth"}, Mountable>>
  <2>2. Innocent(Row({"GET", "POST", "DELETE"}, pattern))
    BY <2>1, Innocent3
  <2>3. pattern \in Seq({{"sys"}, {"auth"}, Mountable, {"tune"}}) /\ pattern[Len(pattern)] = Mountable
    OBVIOUS
  <2>4. QED  BY <1>2, <2>1, <2>2, <2>3, InnocentOptionally
<1>3. ASSUME row = Row({"GET"}, <<{"sys"}, {"remount"}, {"status"}, Uuids>>)
      PROVE  Innocent(row)
  <2>1. May({"sys"}, {"remount"}) /\ May({"remount"}, {"status"}) /\ May({"status"}, Uuids)
    BY DEF May
  <2>2. QED  BY <1>3, <2>1, Innocent4
<1>4. ASSUME row = Row({"GET", "POST"}, <<{"auth"}, Mountable, {"config"}>>)
      PROVE  Innocent(row)
  <2>1. May({"auth"}, Mountable) /\ May(Mountable, {"config"})
    BY DEF May
  <2>2. QED  BY <1>4, <2>1, Innocent3
<1>5. ASSUME row \in Optionally(All, <<{"auth"}, Mountable,
                             {"roles", "users", "role", "groups", "certs", "crls"}>>, Named)
      PROVE  Innocent(row)
  <2> DEFINE kinds == {"roles", "users", "role", "groups", "certs", "crls"}
  <2>1. May({"auth"}, Mountable) /\ May(Mountable, kinds) /\ May(kinds, Named)
    BY DEF May
  <2> DEFINE pattern == <<{"auth"}, Mountable, kinds>>
  <2>2. Innocent(Row(All, pattern))
    BY <2>1, Innocent3
  <2>3. pattern \in Seq({{"auth"}, Mountable, kinds, Named}) /\ pattern[Len(pattern)] = kinds
    OBVIOUS
  <2>4. QED  BY <1>5, <2>1, <2>2, <2>3, InnocentOptionally
<1>6. ASSUME row \in
            {Row({"GET", "POST"}, <<{"auth"}, Mountable, {"role"}, Named, {"secret-id", "role-id"}>>),
             Row({"POST"}, <<{"auth"}, Mountable, {"role"}, Named, {"secret-id-accessor"},
                            {"lookup", "destroy"}>>)}
      PROVE  Innocent(row)
  <2>1. /\ May({"auth"}, Mountable) /\ May(Mountable, {"role"}) /\ May({"role"}, Named)
        /\ May(Named, {"secret-id", "role-id"}) /\ May(Named, {"secret-id-accessor"})
        /\ May({"secret-id-accessor"}, {"lookup", "destroy"})
    BY DEF May
  <2>2. QED  BY <1>6, <2>1, Innocent5, Innocent6
<1>7. ASSUME row \in {Row({"LIST"}, <<{"identity"}, {"mfa"}, {"method"}>>),
                      Row({"GET"}, <<{"identity"}, {"mfa"}, {"method"}, Uuids>>)}
      PROVE  Innocent(row)
  <2>1. May({"identity"}, {"mfa"}) /\ May({"mfa"}, {"method"}) /\ May({"method"}, Uuids)
    BY DEF May
  <2>2. QED  BY <1>7, <2>1, Innocent3, Innocent4
<1>8. ASSUME row \in Optionally({"POST", "DELETE"}, <<{"identity"}, {"mfa"}, {"method"},
                                            {"totp", "duo", "okta", "pingid"}>>, Uuids)
      PROVE  Innocent(row)
  <2> DEFINE kinds == {"totp", "duo", "okta", "pingid"}
  <2>1. May({"identity"}, {"mfa"}) /\ May({"mfa"}, {"method"}) /\ May({"method"}, kinds)
    BY DEF May
  <2>2. May(kinds, Uuids)
    BY SegmentsAssumption DEF May
  <2> DEFINE pattern == <<{"identity"}, {"mfa"}, {"method"}, kinds>>
  <2>3. Innocent(Row({"POST", "DELETE"}, pattern))
    BY <2>1, Innocent4
  <2>4. pattern \in Seq({{"identity"}, {"mfa"}, {"method"}, kinds, Uuids}) /\ pattern[Len(pattern)] = kinds
    OBVIOUS
  <2>5. row \in Optionally({"POST", "DELETE"}, pattern, Uuids) /\ May(pattern[Len(pattern)], Uuids)
    BY <1>8, <2>2, <2>4
  <2> HIDE DEF pattern
  <2>6. QED  BY <2>3, <2>4, <2>5, InnocentOptionally
<1>9. ASSUME row \in
            {Row({"LIST"}, <<{"identity"}, {"mfa"}, {"login-enforcement"}>>),
             Row({"GET", "POST", "DELETE"}, <<{"identity"}, {"mfa"}, {"login-enforcement"}, Named>>)}
      PROVE  Innocent(row)
  <2>1. /\ May({"identity"}, {"mfa"}) /\ May({"mfa"}, {"login-enforcement"})
        /\ May({"login-enforcement"}, Named)
    BY DEF May
  <2>2. QED  BY <1>9, <2>1, Innocent3, Innocent4
<1>10. ASSUME row = Row({"GET", "POST"}, <<{"auth"}, {"token"}, SelfActions \union
                          {"lookup-accessor", "renew-accessor", "revoke-accessor"}>>)
       PROVE  Innocent(row)
  <2>1. May({"auth"}, {"token"})
        /\ May({"token"}, SelfActions \union {"lookup-accessor", "renew-accessor", "revoke-accessor"})
    BY DEF May
  <2>2. QED  BY <1>10, <2>1, Innocent3
<1>11. QED
  BY <1>1, <1>2, <1>3, <1>4, <1>5, <1>6, <1>7, <1>8, <1>9, <1>10
  DEF AuthPaths, UnauthenticatedPaths, TotpRow

\* What fits a row that is for no lease, segment by segment.
LEMMA FitsPlain ==
  ASSUME NEW segments \in Seq(STRING), NEW row, row.lease = FALSE
  PROVE  Fits(segments, row) <=>
           /\ Len(segments) = Len(row.pattern)
           /\ \A i \in 1..Len(segments) : segments[i] \in row.pattern[i]
<1>1. Len(segments) \in Nat
  OBVIOUS
<1>2. ASSUME Len(segments) = Len(row.pattern), NEW i \in 1..Len(segments)
      PROVE  (IF i <= Len(row.pattern) THEN row.pattern[i]
              ELSE IF i = Len(row.pattern) + 1 THEN Named ELSE Named \union {""}) = row.pattern[i]
  <2>1. i <= Len(row.pattern)
    BY <1>1, <1>2
  <2>2. QED  BY <2>1
<1>3. QED  BY <1>2 DEF Fits

\* What is taken for a login has a segment that looks like one, is one that goes
\* without a token, or brings the caller's own.
LEMMA TakenForLogin ==
  ASSUME NEW path, path.rooted, path.segments \in Seq(STRING), NEW rows \in SUBSET AuthPaths,
         Matches(path, rows), IsUnauthenticatedAuthPath(path)
  PROVE  \/ Matches(path, SubmittedTokenPaths) \/ Matches(path, UnauthenticatedPaths)
         \/ \E i \in 1..Len(path.segments) : path.segments[i] \in LoginLike \union SelfLike
<1> DEFINE s == path.segments
<1>1. PICK row \in rows : Fits(s, row)
  BY DEF Matches
<1>2. Innocent(row) \/ row \in UnauthenticatedPaths \/ row = TotpRow
  BY AuthRows
<1>3. CASE row \in UnauthenticatedPaths
  BY <1>1, <1>3 DEF Matches
<1>4. CASE Innocent(row)
  <2>1. /\ Len(s) = Len(row.pattern) /\ Len(s) \in Nat \ {0}
        /\ \A i \in 1..Len(s) : s[i] \in row.pattern[i]
    BY <1>1, <1>4, FitsPlain DEF Innocent
  <2>2. ~\E i \in 2..Len(s) : s[i - 1] = "oidc" /\ s[i] \in {"auth_url", "poll"}
    <3>1. SUFFICES ASSUME NEW i \in 2..Len(s), s[i - 1] = "oidc", s[i] \in {"auth_url", "poll"}
                   PROVE  FALSE
      OBVIOUS
    <3>2. i \in 1..Len(s) /\ i - 1 \in 1..Len(s)
      BY <2>1
    <3>3. "oidc" \in row.pattern[i - 1] /\ s[i] \in row.pattern[i]
      BY <2>1, <3>1, <3>2
    <3>4. QED  BY <1>4, <2>1, <3>1, <3>3 DEF Innocent
  <2>3. ~(Len(s) > 1 /\ s[Len(s) - 1] = "totp" /\ s[Len(s)] = "generate")
    <3>1. SUFFICES ASSUME Len(s) > 1, s[Len(s) - 1] = "totp", s[Len(s)] = "generate" PROVE FALSE
      OBVIOUS
    <3>2. Len(s) \in 2..Len(row.pattern) /\ Len(s) - 1 \in 1..Len(s) /\ Len(s) \in 1..Len(s)
      BY <2>1, <3>1
    <3>3. "totp" \in row.pattern[Len(s) - 1] /\ "generate" \in row.pattern[Len(s)]
      BY <2>1, <3>1, <3>2
    <3>4. QED  BY <1>4, <3>2, <3>3 DEF Innocent
  <2>4. ASSUME s = <<"sys", "mfa", "validate">> PROVE Matches(path, UnauthenticatedPaths)
    <3>1. Fits(s, Row({"POST"}, <<{"sys"}, {"mfa"}, {"validate"}>>))
      <4> DEFINE validate == Row({"POST"}, <<{"sys"}, {"mfa"}, {"validate"}>>)
      <4>1. /\ validate.lease = FALSE /\ Len(validate.pattern) = 3
            /\ validate.pattern[1] = {"sys"} /\ validate.pattern[2] = {"mfa"}
            /\ validate.pattern[3] = {"validate"}
        BY DEF Row
      <4>2. Len(s) = 3 /\ s[1] = "sys" /\ s[2] = "mfa" /\ s[3] = "validate"
        BY <2>4
      <4> HIDE DEF validate
      <4>3. \A i \in 1..3 : s[i] \in validate.pattern[i]
        BY <4>1, <4>2
      <4>4. Fits(s, validate)
        BY <4>1, <4>2, <4>3, FitsPlain
      <4>5. QED  BY <4>4 DEF validate
    <3>2. QED  BY <3>1 DEF Matches, UnauthenticatedPaths, ValidatePaths
  <2>5. ASSUME s[Len(s)] \in SelfLike
        PROVE  \E i \in 1..Len(s) : s[i] \in LoginLike \union SelfLike
    BY <2>1, <2>5
  <2>6. QED  BY <2>2, <2>3, <2>4, <2>5 DEF IsUnauthenticatedAuthPath
<1>5. CASE row = TotpRow
  <2>1. /\ Len(s) = 5 /\ s[1] = "identity" /\ s[2] = "mfa" /\ s[3] = "method" /\ s[4] = "totp"
        /\ s[5] \in {"generate", "admin-generate", "admin-destroy"}
    <3>1. row.lease = FALSE /\ Len(row.pattern) = 5
      BY <1>5 DEF TotpRow, Row
    <3>2. Len(s) = 5 /\ \A i \in 1..5 : s[i] \in row.pattern[i]
      BY <1>1, <3>1, FitsPlain
    <3>3. /\ row.pattern[1] = {"identity"} /\ row.pattern[2] = {"mfa"} /\ row.pattern[3] = {"method"}
          /\ row.pattern[4] = {"totp"}
          /\ row.pattern[5] = {"generate", "admin-generate", "admin-destroy"}
      BY <1>5 DEF TotpRow, Row
    <3>4. 1 \in 1..5 /\ 2 \in 1..5 /\ 3 \in 1..5 /\ 4 \in 1..5 /\ 5 \in 1..5
      OBVIOUS
    <3>5. QED  BY <3>2, <3>3, <3>4
  <2>2. CASE s[5] = "generate"
    <3>1. Fits(s, Row({}, <<{"identity"}, {"mfa"}, {"method"}, {"totp"}, {"generate"}>>))
      BY <2>1, <2>2 DEF Fits, Row
    <3>2. QED  BY <3>1 DEF Matches, SubmittedTokenPaths
  <2>3. CASE s[5] # "generate"
    <3>1. ~\E i \in 2..5 : s[i - 1] = "oidc" /\ s[i] \in {"auth_url", "poll"}
      BY <2>1
    <3>2. s # <<"sys", "mfa", "validate">>
      BY <2>1
    <3>3. (\E i \in 1..5 : s[i] \in LoginLike) \/ s[5] \in SelfLike
      BY <2>1, <2>3, <3>1, <3>2 DEF IsUnauthenticatedAuthPath
    <3>4. QED  BY <2>1, <3>3
  <2>4. QED  BY <2>2, <2>3
<1>6. QED  BY <1>2, <1>3, <1>4, <1>5

\* Every path that OpenBao is asked to log someone in at is taken for one.
LEMMA LoginsAreTaken ==
  ASSUME NEW path, path.segments \in Seq(STRING), Matches(path, UnauthenticatedPaths)
  PROVE  IsUnauthenticatedAuthPath(path)
<1> DEFINE s == path.segments
<1>1. PICK row \in UnauthenticatedPaths : Fits(s, row)
  BY DEF Matches
<1>2. CASE row \in LoginPaths
  <2> DEFINE pattern == <<{"auth"}, Mountable, {"login"}>>
  <2>1. /\ row.lease = FALSE /\ Len(row.pattern) \in {3, 4} /\ row.pattern[3] = {"login"}
    <3>1. pattern \in Seq({{"auth"}, Mountable, {"login"}, Named}) /\ Len(pattern) = 3 /\ pattern[3] = {"login"}
      OBVIOUS
    <3>2. row \in Optionally({"GET", "POST"}, pattern, Named)
      BY <1>2 DEF LoginPaths
    <3>3. Len(Append(pattern, Named)) = Len(pattern) + 1
      BY <3>1
    <3>4. Append(pattern, Named)[3] = pattern[3]
      BY <3>1
    <3>5. CASE row = Row({"GET", "POST"}, pattern)
      BY <3>1, <3>5 DEF Row
    <3>6. CASE row = Row({"GET", "POST"}, Append(pattern, Named))
      BY <3>1, <3>3, <3>4, <3>6 DEF Row
    <3>7. QED  BY <3>2, <3>5, <3>6 DEF Optionally
  <2>2. Len(s) = Len(row.pattern) /\ 3 \in 1..Len(s) /\ s[3] = "login"
    <3>1. Len(s) = Len(row.pattern) /\ \A i \in 1..Len(s) : s[i] \in row.pattern[i]
      BY <1>1, <2>1, FitsPlain
    <3>2. 3 \in 1..Len(s)
      BY <2>1, <3>1
    <3>3. QED  BY <2>1, <3>1, <3>2
  <2>3. QED  BY <2>2, SegmentsAssumption DEF IsUnauthenticatedAuthPath
<1>3. CASE row \in OidcPaths
  <2>1. Len(s) = 4 /\ s[3] = "oidc" /\ s[4] \in {"auth_url", "poll"}
    <3>1. /\ row.lease = FALSE /\ Len(row.pattern) = 4 /\ row.pattern[3] = {"oidc"}
          /\ row.pattern[4] = {"auth_url", "poll"}
      BY <1>3 DEF OidcPaths, Row
    <3>2. Len(s) = 4 /\ \A i \in 1..4 : s[i] \in row.pattern[i]
      BY <1>1, <3>1, FitsPlain
    <3>3. 3 \in 1..4 /\ 4 \in 1..4
      OBVIOUS
    <3>4. QED  BY <3>1, <3>2, <3>3
  <2>2. QED  BY <2>1 DEF IsUnauthenticatedAuthPath
<1>4. CASE row \in ValidatePaths
  <2>1. Len(s) = 3 /\ s[1] = "sys" /\ s[2] = "mfa" /\ s[3] = "validate"
    <3>1. /\ row.lease = FALSE /\ Len(row.pattern) = 3 /\ row.pattern[1] = {"sys"}
          /\ row.pattern[2] = {"mfa"} /\ row.pattern[3] = {"validate"}
      BY <1>4 DEF ValidatePaths, Row
    <3>2. Len(s) = 3 /\ \A i \in 1..3 : s[i] \in row.pattern[i]
      BY <1>1, <3>1, FitsPlain
    <3>3. 1 \in 1..3 /\ 2 \in 1..3 /\ 3 \in 1..3
      OBVIOUS
    <3>4. QED  BY <3>1, <3>2, <3>3
  <2>2. s = <<"sys", "mfa", "validate">>
    BY <2>1
  <2>3. QED  BY <2>2 DEF IsUnauthenticatedAuthPath
<1>5. QED  BY <1>2, <1>3, <1>4 DEF UnauthenticatedPaths

LEMMA SubmittedToken ==
  ASSUME NEW f, TokenOnlyWhereSubmitted(f)
  PROVE  Matches(f["path"], SubmittedTokenPaths) <=> Given(f, "token")
  BY DEF TokenOnlyWhereSubmitted

-----------------------------------------------------------------------------
(* Every reviewed path belongs to one operation *)

\* A path that fits the row has one of these segments there.
Allows(row, i, segments) ==
    Len(row.pattern) \in Nat /\ i \in 1..Len(row.pattern) /\ row.pattern[i] \subseteq segments

LEMMA FitsAllows ==
  ASSUME NEW s \in Seq(STRING), NEW row, Fits(s, row),
         NEW i, NEW segments, Allows(row, i, segments)
  PROVE  s[i] \in segments
<1>1. /\ Len(s) \in Nat /\ Len(row.pattern) \in Nat /\ i \in 1..Len(row.pattern)
      /\ row.pattern[i] \subseteq segments
  BY DEF Allows
<1>2. i \in Nat /\ i <= Len(row.pattern) /\ 1 <= i
  BY <1>1
<1>3. Len(s) > Len(row.pattern) \/ Len(s) = Len(row.pattern)
  BY DEF Fits
<1>4. i \in 1..Len(s)
  BY <1>1, <1>2, <1>3
<1>5. s[i] \in (IF i <= Len(row.pattern) THEN row.pattern[i]
                ELSE IF i = Len(row.pattern) + 1 THEN Named ELSE Named \union {""})
  BY <1>4 DEF Fits
<1>6. QED  BY <1>1, <1>2, <1>5

\* The row begins with these segments.
Begins(row, first, second) == Allows(row, 1, first) /\ Allows(row, 2, second)

LEMMA Begins2 ==
  ASSUME NEW row, NEW a, NEW b, NEW second, row.pattern = <<a, b>>, b \subseteq second
  PROVE  Begins(row, a, second)
  BY DEF Begins, Allows
LEMMA Begins3 ==
  ASSUME NEW row, NEW a, NEW b, NEW c, NEW second, row.pattern = <<a, b, c>>, b \subseteq second
  PROVE  Begins(row, a, second) /\ Allows(row, 3, c)
  BY DEF Begins, Allows
LEMMA Begins4 ==
  ASSUME NEW row, NEW a, NEW b, NEW c, NEW d, NEW second,
         row.pattern = <<a, b, c, d>>, b \subseteq second
  PROVE  Begins(row, a, second) /\ Allows(row, 3, c)
  BY DEF Begins, Allows
LEMMA Begins5 ==
  ASSUME NEW row, NEW a, NEW b, NEW c, NEW d, NEW e, NEW second,
         row.pattern = <<a, b, c, d, e>>, b \subseteq second
  PROVE  Begins(row, a, second) /\ Allows(row, 3, c)
  BY DEF Begins, Allows
LEMMA Begins6 ==
  ASSUME NEW row, NEW a, NEW b, NEW c, NEW d, NEW e, NEW f, NEW second,
         row.pattern = <<a, b, c, d, e, f>>, b \subseteq second
  PROVE  Begins(row, a, second) /\ Allows(row, 3, c)
  BY DEF Begins, Allows

LEMMA PatternOfRow ==
  ASSUME NEW methods, NEW pattern
  PROVE  Row(methods, pattern).pattern = pattern /\ LeaseRow(methods, pattern).pattern = pattern
  BY DEF Row, LeaseRow

\* An optional last segment leaves those before it as they are.
LEMMA OptionallyAllows ==
  ASSUME NEW S, NEW methods, NEW pattern \in Seq(S), NEW last \in S,
         NEW row \in Optionally(methods, pattern, last),
         NEW i \in 1..Len(pattern), NEW segments, pattern[i] \subseteq segments
  PROVE  Allows(row, i, segments)
<1>1. Len(pattern) \in Nat
  OBVIOUS
<1>2. CASE row = Row(methods, pattern)
  BY <1>1, <1>2, PatternOfRow DEF Allows
<1>3. CASE row = Row(methods, Append(pattern, last))
  <2> DEFINE longer == Append(pattern, last)
  <2>1. Len(longer) = Len(pattern) + 1 /\ longer[i] = pattern[i]
    OBVIOUS
  <2>2. row.pattern = longer
    BY <1>3, PatternOfRow
  <2> HIDE DEF longer
  <2>3. QED  BY <1>1, <2>1, <2>2 DEF Allows
<1>4. QED  BY <1>2, <1>3 DEF Optionally

Identities == {"entity", "entity-alias", "group", "group-alias"}

LEMMA AccessRows ==
  ASSUME NEW row \in AccessPaths
  PROVE  \/ Begins(row, {"sys"}, {"policies", "namespaces"})
         \/ Begins(row, {"identity"}, Identities \union {"oidc"})
<1>1. ASSUME row \in Optionally(All, <<{"sys"}, {"policies"}, {"acl", "password"}>>, Named)
      PROVE  Begins(row, {"sys"}, {"policies", "namespaces"})
  <2> DEFINE p == <<{"sys"}, {"policies"}, {"acl", "password"}>>
             S == {{"sys"}, {"policies"}, {"acl", "password"}, Named}
  <2>1. p \in Seq(S) /\ Len(p) = 3 /\ p[1] = {"sys"} /\ p[2] = {"policies"} /\ Named \in S
    OBVIOUS
  <2>2. row \in Optionally(All, p, Named) /\ {"policies"} \subseteq {"policies", "namespaces"}
    BY <1>1
  <2> HIDE DEF p, S
  <2>3. 1 \in 1..Len(p) /\ 2 \in 1..Len(p)
    BY <2>1
  <2>4. QED  BY <2>1, <2>2, <2>3, OptionallyAllows DEF Begins
<1>2. ASSUME row = Row({"GET"}, <<{"sys"}, {"policies"}, {"password"}, Named, {"generate"}>>)
      PROVE  Begins(row, {"sys"}, {"policies", "namespaces"})
  <2>1. row.pattern = <<{"sys"}, {"policies"}, {"password"}, Named, {"generate"}>>
    BY <1>2, PatternOfRow, Zenon
  <2>2. {"policies"} \subseteq {"policies", "namespaces"}
    OBVIOUS
  <2>3. QED  BY <2>1, <2>2, Begins5
<1>3. ASSUME row \in Optionally(All, <<{"sys"}, {"namespaces"}>>, Named)
      PROVE  Begins(row, {"sys"}, {"policies", "namespaces"})
  <2> DEFINE p == <<{"sys"}, {"namespaces"}>>
             S == {{"sys"}, {"namespaces"}, Named}
  <2>1. p \in Seq(S) /\ Len(p) = 2 /\ p[1] = {"sys"} /\ p[2] = {"namespaces"} /\ Named \in S
    OBVIOUS
  <2>2. row \in Optionally(All, p, Named) /\ {"namespaces"} \subseteq {"policies", "namespaces"}
    BY <1>3
  <2> HIDE DEF p, S
  <2>3. 1 \in 1..Len(p) /\ 2 \in 1..Len(p)
    BY <2>1
  <2>4. QED  BY <2>1, <2>2, <2>3, OptionallyAllows DEF Begins
<1>4. ASSUME row = Row(All, <<{"identity"}, {"entity", "entity-alias", "group", "group-alias"}>>)
      PROVE  Begins(row, {"identity"}, Identities \union {"oidc"})
  <2>1. row.pattern = <<{"identity"}, Identities>>
    BY <1>4, PatternOfRow DEF Identities
  <2>2. QED  BY <2>1, Begins2
<1>5. ASSUME row \in Optionally(All, <<{"identity"}, {"entity", "entity-alias", "group", "group-alias"},
                                       {"id"}>>, Uuids)
      PROVE  Begins(row, {"identity"}, Identities \union {"oidc"})
  <2> DEFINE p == <<{"identity"}, Identities, {"id"}>>
             S == {{"identity"}, Identities, {"id"}, Uuids}
  <2>1. p \in Seq(S) /\ Len(p) = 3 /\ p[1] = {"identity"} /\ p[2] = Identities /\ Uuids \in S
    OBVIOUS
  <2>2. row \in Optionally(All, p, Uuids) /\ Identities \subseteq Identities \union {"oidc"}
    BY <1>5 DEF Identities
  <2> HIDE DEF p, S
  <2>3. 1 \in 1..Len(p) /\ 2 \in 1..Len(p)
    BY <2>1
  <2>4. QED  BY <2>1, <2>2, <2>3, OptionallyAllows DEF Begins
<1>6. ASSUME row = Row({"POST"}, <<{"identity"}, {"entity"}, {"merge"}>>)
      PROVE  Begins(row, {"identity"}, Identities \union {"oidc"})
  <2>1. {"entity"} \subseteq Identities \union {"oidc"}
    BY DEF Identities
  <2>2. QED  BY <1>6, <2>1, PatternOfRow, Begins3
<1>7. ASSUME row \in Optionally(All, <<{"identity"}, {"oidc"},
                                       {"client", "key", "assignment", "provider", "scope"}>>, Named)
      PROVE  Begins(row, {"identity"}, Identities \union {"oidc"})
  <2> DEFINE p == <<{"identity"}, {"oidc"}, {"client", "key", "assignment", "provider", "scope"}>>
             S == {{"identity"}, {"oidc"}, {"client", "key", "assignment", "provider", "scope"}, Named}
  <2>1. p \in Seq(S) /\ Len(p) = 3 /\ p[1] = {"identity"} /\ p[2] = {"oidc"} /\ Named \in S
    OBVIOUS
  <2>2. row \in Optionally(All, p, Named) /\ {"oidc"} \subseteq Identities \union {"oidc"}
    BY <1>7
  <2> HIDE DEF p, S
  <2>3. 1 \in 1..Len(p) /\ 2 \in 1..Len(p)
    BY <2>1
  <2>4. QED  BY <2>1, <2>2, <2>3, OptionallyAllows DEF Begins
<1>8. ASSUME row = Row({"POST"}, <<{"identity"}, {"oidc"}, {"key"}, Named, {"rotate"}>>)
      PROVE  Begins(row, {"identity"}, Identities \union {"oidc"})
  <2>1. row.pattern = <<{"identity"}, {"oidc"}, {"key"}, Named, {"rotate"}>>
    BY <1>8, PatternOfRow, Zenon
  <2>2. {"oidc"} \subseteq Identities \union {"oidc"}
    OBVIOUS
  <2>3. QED  BY <2>1, <2>2, Begins5
<1>9. QED  BY <1>1, <1>2, <1>3, <1>4, <1>5, <1>6, <1>7, <1>8 DEF AccessPaths

FinalKinds == {"leases", "wrapping", "tools", "config"}

LEMMA FinalRows ==
  ASSUME NEW row \in FinalPaths
  PROVE  \/ Begins(row, {"sys"}, FinalKinds)
         \/ Begins(row, {"auth"}, {"token"}) /\ Allows(row, 3, {"lookup"})
<1>1. /\ {"leases"} \subseteq FinalKinds /\ {"wrapping"} \subseteq FinalKinds
      /\ {"tools"} \subseteq FinalKinds /\ {"config"} \subseteq FinalKinds
  BY DEF FinalKinds
<1>2. ASSUME \/ row = Row({"LIST"}, <<{"sys"}, {"leases"}, {"lookup"}>>)
             \/ row = LeaseRow({"LIST"}, <<{"sys"}, {"leases"}, {"lookup"}>>)
             \/ row = Row({"POST"}, <<{"sys"}, {"leases"}, {"lookup", "renew", "revoke"}>>)
             \/ row = LeaseRow({"POST"}, <<{"sys"}, {"leases"}, {"revoke-prefix", "revoke-force"}>>)
      PROVE  Begins(row, {"sys"}, FinalKinds)
  <2>1. PICK m, c : \/ row = Row(m, <<{"sys"}, {"leases"}, c>>)
                    \/ row = LeaseRow(m, <<{"sys"}, {"leases"}, c>>)
    BY <1>2, Zenon
  <2>2. row.pattern = <<{"sys"}, {"leases"}, c>>
    BY <2>1, PatternOfRow
  <2>3. QED  BY <1>1, <2>2, Begins3
<1>3. ASSUME row = Row({"POST"}, <<{"sys"}, {"wrapping"}, {"wrap", "lookup", "rewrap", "unwrap"}>>)
      PROVE  Begins(row, {"sys"}, FinalKinds)
  <2>1. PICK c : row.pattern = <<{"sys"}, {"wrapping"}, c>>
    BY <1>3, PatternOfRow, Zenon
  <2>2. QED  BY <1>1, <2>1, Begins3
<1>4. ASSUME \/ row = Row({"POST"}, <<{"sys"}, {"tools"}, {"hash"}, Hashes>>)
             \/ row = Row({"POST"}, <<{"sys"}, {"tools"}, {"random"}, {"platform", "all"}>>)
      PROVE  Begins(row, {"sys"}, FinalKinds)
  <2>1. PICK m, c, d : row = Row(m, <<{"sys"}, {"tools"}, c, d>>)
    BY <1>4, Zenon
  <2>2. row.pattern = <<{"sys"}, {"tools"}, c, d>>
    BY <2>1, PatternOfRow
  <2>3. QED  BY <1>1, <2>2, Begins4
<1>5. ASSUME row = Row({"LIST"}, <<{"sys"}, {"config"}, {"ui"}, {"headers"}>>)
      PROVE  Begins(row, {"sys"}, FinalKinds)
  <2>1. row.pattern = <<{"sys"}, {"config"}, {"ui"}, {"headers"}>>
    BY <1>5, PatternOfRow, Zenon
  <2>2. QED  BY <1>1, <2>1, Begins4
<1>6. ASSUME row = Row({"GET", "POST", "DELETE"}, <<{"sys"}, {"config"}, {"ui"}, {"headers"}, Headers>>)
      PROVE  Begins(row, {"sys"}, FinalKinds)
  <2>1. row.pattern = <<{"sys"}, {"config"}, {"ui"}, {"headers"}, Headers>>
    BY <1>6, PatternOfRow, Zenon
  <2>2. QED  BY <1>1, <2>1, Begins5
<1>7. ASSUME row = Row({"POST"}, <<{"auth"}, {"token"}, {"lookup"}>>)
      PROVE  Begins(row, {"auth"}, {"token"}) /\ Allows(row, 3, {"lookup"})
  <2>1. row.pattern = <<{"auth"}, {"token"}, {"lookup"}>>
    BY <1>7, PatternOfRow, Zenon
  <2>2. QED  BY <2>1, Begins3
<1>8. QED  BY <1>2, <1>3, <1>4, <1>5, <1>6, <1>7 DEF FinalPaths

LEMMA EngineRows ==
  ASSUME NEW row \in SecretEnginePaths
  PROVE  Begins(row, {"sys"}, {"mounts"}) \/ Begins(row, {"sys"}, {"remount"})
<1>1. ASSUME row \in Optionally({"GET", "POST", "DELETE"}, <<{"sys"}, {"mounts"}, Mountable>>, {"tune"})
      PROVE  Begins(row, {"sys"}, {"mounts"})
  <2> DEFINE p == <<{"sys"}, {"mounts"}, Mountable>>
             S == {{"sys"}, {"mounts"}, Mountable, {"tune"}}
  <2>1. p \in Seq(S) /\ Len(p) = 3 /\ p[1] = {"sys"} /\ p[2] = {"mounts"} /\ {"tune"} \in S
    OBVIOUS
  <2>2. row \in Optionally({"GET", "POST", "DELETE"}, p, {"tune"}) /\ {"mounts"} \subseteq {"mounts"}
    BY <1>1
  <2> HIDE DEF p, S
  <2>3. 1 \in 1..Len(p) /\ 2 \in 1..Len(p)
    BY <2>1
  <2>4. QED  BY <2>1, <2>2, <2>3, OptionallyAllows DEF Begins
<1>2. row = Row({"LIST"}, <<{"sys"}, {"mounts"}>>) => Begins(row, {"sys"}, {"mounts"})
  BY PatternOfRow, Begins2
<1>3. row = Row({"POST"}, <<{"sys"}, {"remount"}>>) => Begins(row, {"sys"}, {"remount"})
  BY PatternOfRow, Begins2
<1>4. ASSUME row = Row({"GET"}, <<{"sys"}, {"remount"}, {"status"}, Uuids>>)
      PROVE  Begins(row, {"sys"}, {"remount"})
  <2>1. row.pattern = <<{"sys"}, {"remount"}, {"status"}, Uuids>>
    BY <1>4, PatternOfRow, Zenon
  <2>2. QED  BY <2>1, Begins4
<1>5. QED  BY <1>1, <1>2, <1>3, <1>4 DEF SecretEnginePaths

\* What follows auth/<mount> where an authentication operation may go.
BeneathAuth == {"config", "roles", "users", "role", "groups", "certs", "crls", "login", "oidc"}
               \union SelfActions \union {"lookup-accessor", "renew-accessor", "revoke-accessor"}

LEMMA AuthenticationRows ==
  ASSUME NEW row \in AuthPaths
  PROVE  \/ Begins(row, {"sys"}, {"auth", "mfa"}) \/ Begins(row, {"sys"}, {"remount"})
         \/ Begins(row, {"identity"}, {"mfa"})
         \/ Allows(row, 1, {"auth"}) /\ Allows(row, 3, BeneathAuth)
<1>1. ASSUME row = Row({"LIST"}, <<{"sys"}, {"auth"}>>)
      PROVE  Begins(row, {"sys"}, {"auth", "mfa"})
  <2>1. row.pattern = <<{"sys"}, {"auth"}>>
    BY <1>1, PatternOfRow, Zenon
  <2>2. QED  BY <2>1, Begins2
<1>2. ASSUME row \in Optionally({"GET", "POST", "DELETE"}, <<{"sys"}, {"auth"}, Mountable>>, {"tune"})
      PROVE  Begins(row, {"sys"}, {"auth", "mfa"})
  <2> DEFINE p == <<{"sys"}, {"auth"}, Mountable>>
             S == {{"sys"}, {"auth"}, Mountable, {"tune"}}
  <2>1. p \in Seq(S) /\ Len(p) = 3 /\ p[1] = {"sys"} /\ p[2] = {"auth"} /\ {"tune"} \in S
    OBVIOUS
  <2>2. row \in Optionally({"GET", "POST", "DELETE"}, p, {"tune"}) /\ {"auth"} \subseteq {"auth", "mfa"}
    BY <1>2
  <2> HIDE DEF p, S
  <2>3. 1 \in 1..Len(p) /\ 2 \in 1..Len(p)
    BY <2>1
  <2>4. QED  BY <2>1, <2>2, <2>3, OptionallyAllows DEF Begins
<1>3. ASSUME row = Row({"POST"}, <<{"sys"}, {"remount"}>>)
      PROVE  Begins(row, {"sys"}, {"remount"})
  <2>1. row.pattern = <<{"sys"}, {"remount"}>>
    BY <1>3, PatternOfRow, Zenon
  <2>2. QED  BY <2>1, Begins2
<1>4. ASSUME row = Row({"GET"}, <<{"sys"}, {"remount"}, {"status"}, Uuids>>)
      PROVE  Begins(row, {"sys"}, {"remount"})
  <2>1. row.pattern = <<{"sys"}, {"remount"}, {"status"}, Uuids>>
    BY <1>4, PatternOfRow, Zenon
  <2>2. QED  BY <2>1, Begins4
<1>5. ASSUME row = Row({"GET", "POST"}, <<{"auth"}, Mountable, {"config"}>>)
      PROVE  Allows(row, 1, {"auth"}) /\ Allows(row, 3, BeneathAuth)
  <2>1. row.pattern = <<{"auth"}, Mountable, {"config"}>>
    BY <1>5, PatternOfRow, Zenon
  <2>2. {"config"} \subseteq BeneathAuth
    BY DEF BeneathAuth
  <2>3. Begins(row, {"auth"}, Mountable) /\ Allows(row, 3, {"config"})
    BY <2>1, <2>2, Begins3
  <2>4. QED  BY <2>2, <2>3 DEF Begins, Allows
<1>6. ASSUME row \in Optionally(All, <<{"auth"}, Mountable,
                             {"roles", "users", "role", "groups", "certs", "crls"}>>, Named)
      PROVE  Allows(row, 1, {"auth"}) /\ Allows(row, 3, BeneathAuth)
  <2> DEFINE kinds == {"roles", "users", "role", "groups", "certs", "crls"}
             p == <<{"auth"}, Mountable, kinds>>
             S == {{"auth"}, Mountable, kinds, Named}
  <2>1. p \in Seq(S) /\ Len(p) = 3 /\ p[1] = {"auth"} /\ p[3] = kinds /\ Named \in S
    OBVIOUS
  <2>2. row \in Optionally(All, p, Named) /\ kinds \subseteq BeneathAuth
    BY <1>6 DEF BeneathAuth
  <2> HIDE DEF p, S, kinds
  <2>3. 1 \in 1..Len(p) /\ 3 \in 1..Len(p)
    BY <2>1
  <2>4. QED  BY <2>1, <2>2, <2>3, OptionallyAllows
<1>7. ASSUME row = Row({"GET", "POST"}, <<{"auth"}, Mountable, {"role"}, Named, {"secret-id", "role-id"}>>)
      PROVE  Allows(row, 1, {"auth"}) /\ Allows(row, 3, BeneathAuth)
  <2>1. row.pattern = <<{"auth"}, Mountable, {"role"}, Named, {"secret-id", "role-id"}>>
    BY <1>7, PatternOfRow, Zenon
  <2>2. {"role"} \subseteq BeneathAuth
    BY DEF BeneathAuth
  <2>3. Begins(row, {"auth"}, Mountable) /\ Allows(row, 3, {"role"})
    BY <2>1, <2>2, Begins5
  <2>4. QED  BY <2>2, <2>3 DEF Begins, Allows
<1>8. ASSUME row = Row({"POST"}, <<{"auth"}, Mountable, {"role"}, Named, {"secret-id-accessor"},
                                   {"lookup", "destroy"}>>)
      PROVE  Allows(row, 1, {"auth"}) /\ Allows(row, 3, BeneathAuth)
  <2>1. row.pattern = <<{"auth"}, Mountable, {"role"}, Named, {"secret-id-accessor"}, {"lookup", "destroy"}>>
    BY <1>8, PatternOfRow, Zenon
  <2>2. {"role"} \subseteq BeneathAuth
    BY DEF BeneathAuth
  <2>3. Begins(row, {"auth"}, Mountable) /\ Allows(row, 3, {"role"})
    BY <2>1, <2>2, Begins6
  <2>4. QED  BY <2>2, <2>3 DEF Begins, Allows
<1>9. ASSUME row \in LoginPaths
      PROVE  Allows(row, 1, {"auth"}) /\ Allows(row, 3, BeneathAuth)
  <2> DEFINE p == <<{"auth"}, Mountable, {"login"}>>
             S == {{"auth"}, Mountable, {"login"}, Named}
  <2>1. p \in Seq(S) /\ Len(p) = 3 /\ p[1] = {"auth"} /\ p[3] = {"login"} /\ Named \in S
    OBVIOUS
  <2>2. row \in Optionally({"GET", "POST"}, p, Named) /\ {"login"} \subseteq BeneathAuth
    BY <1>9 DEF BeneathAuth, LoginPaths
  <2> HIDE DEF p, S
  <2>3. 1 \in 1..Len(p) /\ 3 \in 1..Len(p)
    BY <2>1
  <2>4. QED  BY <2>1, <2>2, <2>3, OptionallyAllows
<1>10. ASSUME row = Row({"POST"}, <<{"auth"}, Mountable, {"oidc"}, {"auth_url", "poll"}>>)
      PROVE  Allows(row, 1, {"auth"}) /\ Allows(row, 3, BeneathAuth)
  <2>1. row.pattern = <<{"auth"}, Mountable, {"oidc"}, {"auth_url", "poll"}>>
    BY <1>10, PatternOfRow, Zenon
  <2>2. {"oidc"} \subseteq BeneathAuth
    BY DEF BeneathAuth
  <2>3. Begins(row, {"auth"}, Mountable) /\ Allows(row, 3, {"oidc"})
    BY <2>1, <2>2, Begins4
  <2>4. QED  BY <2>2, <2>3 DEF Begins, Allows
<1>11. ASSUME row = Row({"POST"}, <<{"sys"}, {"mfa"}, {"validate"}>>)
      PROVE  Begins(row, {"sys"}, {"auth", "mfa"})
  <2>1. row.pattern = <<{"sys"}, {"mfa"}, {"validate"}>>
    BY <1>11, PatternOfRow, Zenon
  <2>2. QED  BY <2>1, Begins3
<1>12. ASSUME row = Row({"LIST"}, <<{"identity"}, {"mfa"}, {"method"}>>)
      PROVE  Begins(row, {"identity"}, {"mfa"})
  <2>1. row.pattern = <<{"identity"}, {"mfa"}, {"method"}>>
    BY <1>12, PatternOfRow, Zenon
  <2>2. QED  BY <2>1, Begins3
<1>13. ASSUME row = Row({"GET"}, <<{"identity"}, {"mfa"}, {"method"}, Uuids>>)
      PROVE  Begins(row, {"identity"}, {"mfa"})
  <2>1. row.pattern = <<{"identity"}, {"mfa"}, {"method"}, Uuids>>
    BY <1>13, PatternOfRow, Zenon
  <2>2. QED  BY <2>1, Begins4
<1>14. ASSUME row \in Optionally({"POST", "DELETE"}, <<{"identity"}, {"mfa"}, {"method"},
                          {"totp", "duo", "okta", "pingid"}>>, Uuids)
      PROVE  Begins(row, {"identity"}, {"mfa"})
  <2> DEFINE p == <<{"identity"}, {"mfa"}, {"method"}, {"totp", "duo", "okta", "pingid"}>>
             S == {{"identity"}, {"mfa"}, {"method"}, {"totp", "duo", "okta", "pingid"}, Uuids}
  <2>1. p \in Seq(S) /\ Len(p) = 4 /\ p[1] = {"identity"} /\ p[2] = {"mfa"} /\ Uuids \in S
    OBVIOUS
  <2>2. row \in Optionally({"POST", "DELETE"}, p, Uuids) /\ {"mfa"} \subseteq {"mfa"}
    BY <1>14
  <2> HIDE DEF p, S
  <2>3. 1 \in 1..Len(p) /\ 2 \in 1..Len(p)
    BY <2>1
  <2>4. QED  BY <2>1, <2>2, <2>3, OptionallyAllows DEF Begins
<1>15. ASSUME row = TotpRow
      PROVE  Begins(row, {"identity"}, {"mfa"})
  <2>1. row.pattern = <<{"identity"}, {"mfa"}, {"method"}, {"totp"},
                        {"generate", "admin-generate", "admin-destroy"}>>
    BY <1>15, PatternOfRow, Zenon DEF TotpRow
  <2>2. QED  BY <2>1, Begins5
<1>16. ASSUME row = Row({"LIST"}, <<{"identity"}, {"mfa"}, {"login-enforcement"}>>)
      PROVE  Begins(row, {"identity"}, {"mfa"})
  <2>1. row.pattern = <<{"identity"}, {"mfa"}, {"login-enforcement"}>>
    BY <1>16, PatternOfRow, Zenon
  <2>2. QED  BY <2>1, Begins3
<1>17. ASSUME row = Row({"GET", "POST", "DELETE"}, <<{"identity"}, {"mfa"}, {"login-enforcement"}, Named>>)
      PROVE  Begins(row, {"identity"}, {"mfa"})
  <2>1. row.pattern = <<{"identity"}, {"mfa"}, {"login-enforcement"}, Named>>
    BY <1>17, PatternOfRow, Zenon
  <2>2. QED  BY <2>1, Begins4
<1>18. ASSUME row = Row({"GET", "POST"}, <<{"auth"}, {"token"}, SelfActions \union
                          {"lookup-accessor", "renew-accessor", "revoke-accessor"}>>)
      PROVE  Allows(row, 1, {"auth"}) /\ Allows(row, 3, BeneathAuth)
  <2> DEFINE kinds == SelfActions \union {"lookup-accessor", "renew-accessor", "revoke-accessor"}
  <2>1. row.pattern = <<{"auth"}, {"token"}, kinds>>
    BY <1>18, PatternOfRow, Zenon
  <2>2. kinds \subseteq BeneathAuth
    BY DEF BeneathAuth
  <2> HIDE DEF kinds
  <2>3. Begins(row, {"auth"}, {"token"}) /\ Allows(row, 3, kinds)
    BY <2>1, <2>2, Begins3
  <2>4. QED  BY <2>2, <2>3 DEF Begins, Allows
<1>19. QED
  BY <1>1, <1>2, <1>3, <1>4, <1>5, <1>6, <1>7, <1>8, <1>9,
     <1>10, <1>11, <1>12, <1>13, <1>14, <1>15, <1>16, <1>17, <1>18
  DEF AuthPaths, OidcPaths, ValidatePaths, TotpRow

\* Where the paths of each family lie.
LEMMA AccessPlaces ==
  ASSUME NEW s \in Seq(STRING), NEW row \in AccessPaths, Fits(s, row)
  PROVE  \/ s[1] = "sys" /\ s[2] \in {"policies", "namespaces"}
         \/ s[1] = "identity" /\ s[2] \in Identities \union {"oidc"}
<1>1. Begins(row, {"sys"}, {"policies", "namespaces"})
      => s[1] \in {"sys"} /\ s[2] \in {"policies", "namespaces"}
  BY FitsAllows DEF Begins
<1>2. Begins(row, {"identity"}, Identities \union {"oidc"})
      => s[1] \in {"identity"} /\ s[2] \in Identities \union {"oidc"}
  BY FitsAllows DEF Begins
<1>3. QED  BY <1>1, <1>2, AccessRows

LEMMA FinalPlaces ==
  ASSUME NEW s \in Seq(STRING), NEW row \in FinalPaths, Fits(s, row)
  PROVE  \/ s[1] = "sys" /\ s[2] \in FinalKinds
         \/ s[1] = "auth" /\ s[3] = "lookup"
<1>1. Begins(row, {"sys"}, FinalKinds) => s[1] \in {"sys"} /\ s[2] \in FinalKinds
  BY FitsAllows DEF Begins
<1>2. Begins(row, {"auth"}, {"token"}) /\ Allows(row, 3, {"lookup"})
      => s[1] \in {"auth"} /\ s[3] \in {"lookup"}
  BY FitsAllows DEF Begins
<1>3. QED  BY <1>1, <1>2, FinalRows

LEMMA EnginePlaces ==
  ASSUME NEW s \in Seq(STRING), NEW row \in SecretEnginePaths, Fits(s, row)
  PROVE  s[1] = "sys" /\ s[2] \in {"mounts", "remount"}
<1>1. Begins(row, {"sys"}, {"mounts"}) => s[1] \in {"sys"} /\ s[2] \in {"mounts"}
  BY FitsAllows DEF Begins
<1>2. Begins(row, {"sys"}, {"remount"}) => s[1] \in {"sys"} /\ s[2] \in {"remount"}
  BY FitsAllows DEF Begins
<1>3. QED  BY <1>1, <1>2, EngineRows

LEMMA AuthenticationPlaces ==
  ASSUME NEW s \in Seq(STRING), NEW row \in AuthPaths, Fits(s, row)
  PROVE  \/ s[1] = "sys" /\ s[2] \in {"auth", "mfa", "remount"}
         \/ s[1] = "identity" /\ s[2] = "mfa"
         \/ s[1] = "auth" /\ s[3] \in BeneathAuth
<1>1. Begins(row, {"sys"}, {"auth", "mfa"}) => s[1] \in {"sys"} /\ s[2] \in {"auth", "mfa"}
  BY FitsAllows DEF Begins
<1>2. Begins(row, {"sys"}, {"remount"}) => s[1] \in {"sys"} /\ s[2] \in {"remount"}
  BY FitsAllows DEF Begins
<1>3. Begins(row, {"identity"}, {"mfa"}) => s[1] \in {"identity"} /\ s[2] \in {"mfa"}
  BY FitsAllows DEF Begins
<1>4. Allows(row, 1, {"auth"}) /\ Allows(row, 3, BeneathAuth)
      => s[1] \in {"auth"} /\ s[3] \in BeneathAuth
  BY FitsAllows
<1>5. QED  BY <1>1, <1>2, <1>3, <1>4, AuthenticationRows

\* The table each operation's paths are matched with.
ReviewedPaths(operation) ==
    CASE operation = "execute_access_operation" -> AccessPaths
      [] operation = "execute_authentication_operation" -> AuthPaths
      [] operation = "execute_final_operation" -> FinalPaths
      [] operation = "execute_secret_engine_operation" -> SecretEnginePaths

\* administration_families grants these operations one by one.  Two of them have a
\* path in common only where engines are moved, which OpenBao does for secret engines
\* and authentication methods at one place; otherwise an instance that is granted one
\* family reaches no path of another.
THEOREM FamiliesApart ==
  ASSUME NEW s \in Seq(STRING), NEW o \in Proxies, NEW p \in Proxies, o # p,
         \E row \in ReviewedPaths(o) : Fits(s, row),
         \E row \in ReviewedPaths(p) : Fits(s, row)
  PROVE  /\ {o, p} = {"execute_authentication_operation", "execute_secret_engine_operation"}
         /\ s[1] = "sys" /\ s[2] = "remount"
<1> DEFINE In(operation) == \E row \in ReviewedPaths(operation) : Fits(s, row)
<1>1. In("execute_access_operation") =>
        \/ s[1] = "sys" /\ s[2] \in {"policies", "namespaces"}
        \/ s[1] = "identity" /\ s[2] \in Identities \union {"oidc"}
  BY AccessPlaces DEF ReviewedPaths
<1>2. In("execute_final_operation") => (s[1] = "sys" /\ s[2] \in FinalKinds)
                                       \/ (s[1] = "auth" /\ s[3] = "lookup")
  BY FinalPlaces DEF ReviewedPaths
<1>3. In("execute_secret_engine_operation") => s[1] = "sys" /\ s[2] \in {"mounts", "remount"}
  BY EnginePlaces DEF ReviewedPaths
<1>4. In("execute_authentication_operation") =>
        \/ s[1] = "sys" /\ s[2] \in {"auth", "mfa", "remount"}
        \/ s[1] = "identity" /\ s[2] = "mfa"
        \/ s[1] = "auth" /\ s[3] \in BeneathAuth
  BY AuthenticationPlaces DEF ReviewedPaths
<1>5. In(o) /\ In(p)
  OBVIOUS
<1> HIDE DEF In
<1>6. "lookup" \notin BeneathAuth
  BY DEF BeneathAuth, SelfActions
<1>7. /\ ~(In("execute_access_operation") /\ In("execute_final_operation"))
      /\ ~(In("execute_access_operation") /\ In("execute_secret_engine_operation"))
      /\ ~(In("execute_access_operation") /\ In("execute_authentication_operation"))
  BY <1>1, <1>2, <1>3, <1>4 DEF FinalKinds, Identities
<1>8. /\ ~(In("execute_final_operation") /\ In("execute_secret_engine_operation"))
      /\ ~(In("execute_final_operation") /\ In("execute_authentication_operation"))
  BY <1>2, <1>3, <1>4, <1>6 DEF FinalKinds
<1>9. In("execute_secret_engine_operation") /\ In("execute_authentication_operation")
      => s[1] = "sys" /\ s[2] = "remount"
  BY <1>3, <1>4
<1>10. QED  BY <1>5, <1>7, <1>8, <1>9 DEF Proxies

-----------------------------------------------------------------------------
(* Whose token goes with a reviewed operation *)

LEMMA SubmittedPlaces ==
  ASSUME NEW s \in Seq(STRING), NEW row \in SubmittedTokenPaths, Fits(s, row)
  PROVE  \/ s[1] = "auth" /\ s[3] \in SelfActions
         \/ s[1] = "identity" /\ s[2] = "mfa" /\ s[3] = "method"
<1>1. ASSUME row = Row({}, <<{"auth"}, {"token"}, SelfActions>>)
      PROVE  s[1] = "auth" /\ s[3] \in SelfActions
  <2>1. row.pattern = <<{"auth"}, {"token"}, SelfActions>>
    BY <1>1, PatternOfRow, Zenon
  <2>2. Begins(row, {"auth"}, {"token"}) /\ Allows(row, 3, SelfActions)
    BY <2>1, Begins3
  <2>3. s[1] \in {"auth"} /\ s[3] \in SelfActions
    BY <2>2, FitsAllows DEF Begins
  <2>4. QED  BY <2>3
<1>2. ASSUME row = Row({}, <<{"identity"}, {"mfa"}, {"method"}, {"totp"}, {"generate"}>>)
      PROVE  s[1] = "identity" /\ s[2] = "mfa" /\ s[3] = "method"
  <2>1. row.pattern = <<{"identity"}, {"mfa"}, {"method"}, {"totp"}, {"generate"}>>
    BY <1>2, PatternOfRow, Zenon
  <2>2. Begins(row, {"identity"}, {"mfa"}) /\ Allows(row, 3, {"method"})
    BY <2>1, Begins5
  <2>3. s[1] \in {"identity"} /\ s[2] \in {"mfa"} /\ s[3] \in {"method"}
    BY <2>2, FitsAllows DEF Begins
  <2>4. QED  BY <2>3
<1>3. QED  BY <1>1, <1>2 DEF SubmittedTokenPaths

LEMMA UnauthenticatedPlaces ==
  ASSUME NEW s \in Seq(STRING), NEW row \in UnauthenticatedPaths, Fits(s, row)
  PROVE  \/ s[1] = "auth" /\ s[3] \in {"login", "oidc"}
         \/ s[1] = "sys" /\ s[2] = "mfa"
<1>1. ASSUME row \in LoginPaths
      PROVE  s[1] = "auth" /\ s[3] = "login"
  <2> DEFINE p == <<{"auth"}, Mountable, {"login"}>>
             S == {{"auth"}, Mountable, {"login"}, Named}
  <2>1. p \in Seq(S) /\ Len(p) = 3 /\ p[1] = {"auth"} /\ p[3] = {"login"} /\ Named \in S
    OBVIOUS
  <2>2. row \in Optionally({"GET", "POST"}, p, Named)
    BY <1>1 DEF LoginPaths
  <2> HIDE DEF p, S
  <2>3. 1 \in 1..Len(p) /\ 3 \in 1..Len(p)
    BY <2>1
  <2>4. Allows(row, 1, {"auth"}) /\ Allows(row, 3, {"login"})
    BY <2>1, <2>2, <2>3, OptionallyAllows
  <2>5. s[1] \in {"auth"} /\ s[3] \in {"login"}
    BY <2>4, FitsAllows
  <2>6. QED  BY <2>5
<1>2. ASSUME row \in OidcPaths
      PROVE  s[1] = "auth" /\ s[3] = "oidc"
  <2>1. row.pattern = <<{"auth"}, Mountable, {"oidc"}, {"auth_url", "poll"}>>
    BY <1>2, PatternOfRow, Zenon DEF OidcPaths
  <2>2. Begins(row, {"auth"}, Mountable) /\ Allows(row, 3, {"oidc"})
    BY <2>1, Begins4
  <2>3. s[1] \in {"auth"} /\ s[3] \in {"oidc"}
    BY <2>2, FitsAllows DEF Begins
  <2>4. QED  BY <2>3
<1>3. ASSUME row \in ValidatePaths
      PROVE  s[1] = "sys" /\ s[2] = "mfa"
  <2>1. row.pattern = <<{"sys"}, {"mfa"}, {"validate"}>>
    BY <1>3, PatternOfRow, Zenon DEF ValidatePaths
  <2>2. Begins(row, {"sys"}, {"mfa"})
    BY <2>1, Begins3
  <2>3. s[1] \in {"sys"} /\ s[2] \in {"mfa"}
    BY <2>2, FitsAllows DEF Begins
  <2>4. QED  BY <2>3
<1>4. QED  BY <1>1, <1>2, <1>3 DEF UnauthenticatedPaths

\* Only the authentication operation has a token among its arguments.
LEMMA TokenKeys ==
  ASSUME NEW q, ContractOutcome(q) = "accepted",
         q.operation \in Proxies \ {"execute_authentication_operation"}
  PROVE  "token" \notin DOMAIN q.fields
<1>1. DOMAIN q.fields \subseteq ArgumentKeys[q.operation]
  BY DEF ContractOutcome
<1>2. CASE q.operation \in {"execute_access_operation", "execute_final_operation"}
  <2>1. ArgumentKeys[q.operation] = {"material", "method", "path", "payload"}
    BY <1>2 DEF ArgumentKeys, Implemented, Nullary
  <2>2. QED  BY <1>1, <2>1
<1>3. CASE q.operation = "execute_secret_engine_operation"
  <2>1. ArgumentKeys[q.operation] = {"method", "path", "payload"}
    BY <1>3 DEF ArgumentKeys, Implemented, Nullary
  <2>2. QED  BY <1>1, <2>1
<1>4. QED  BY <1>2, <1>3 DEF Proxies

\* What a reviewed operation that is sent has passed.
LEMMA ReviewedWhenSent ==
  ASSUME Inductive, NEW r \in Requests, SentReviewed(r)
  PROVE  LET q == request[r]
             path == q.fields["path"]
         IN  /\ q.operation \in Proxies /\ ContractOutcome(q) = "accepted"
             /\ path.rooted /\ path.segments \in Seq(STRING)
             /\ \E row \in ReviewedPaths(q.operation) : Fits(path.segments, row)
             /\ q.operation = "execute_authentication_operation" =>
                    TokenOnlyWhereSubmitted(q.fields)
<1> DEFINE q == request[r]
<1>1. q.operation \in Proxies /\ q \in ArgumentsOf(r) /\ ContractOutcome(q) = "accepted"
  BY InductiveParts DEF SentReviewed, Tracked, Kinds
<1>2. Validator(q.operation, q.fields)
  BY <1>1, AcceptedIsValid
<1>3. ValidReviewedProxy(q.fields, ReviewedPaths(q.operation))
  BY <1>1, <1>2 DEF Validator, ValidAuthenticationProxy, ReviewedPaths, Proxies
<1>4. Is(q.fields, "path", "string")
      /\ Matches(q.fields["path"],
                 {row \in ReviewedPaths(q.operation) : q.fields["method"].text \in row.methods})
  BY <1>3 DEF ValidReviewedProxy
<1>5. q.operation = "execute_authentication_operation" => TokenOnlyWhereSubmitted(q.fields)
  BY <1>2 DEF Validator, ValidAuthenticationProxy
<1>6. QED  BY <1>1, <1>4, <1>5, ArgumentsAssumption DEF Matches

\* The paths of the two lists belong to the authentication operation alone.
LEMMA ListedPathsAuthenticate ==
  ASSUME NEW s \in Seq(STRING), NEW operation \in Proxies,
         \E row \in ReviewedPaths(operation) : Fits(s, row),
         \E row \in SubmittedTokenPaths \union UnauthenticatedPaths : Fits(s, row)
  PROVE  operation = "execute_authentication_operation"
<1>1. \/ s[1] = "auth" /\ s[3] \in SelfActions \union {"login", "oidc"}
      \/ s[1] = "identity" /\ s[2] = "mfa"
      \/ s[1] = "sys" /\ s[2] = "mfa"
  BY SubmittedPlaces, UnauthenticatedPlaces
<1>2. operation # "execute_access_operation"
  <2>1. operation = "execute_access_operation" => \E row \in AccessPaths : Fits(s, row)
    BY DEF ReviewedPaths
  <2>2. QED  BY <1>1, <2>1, AccessPlaces DEF Identities
<1>3. operation # "execute_final_operation"
  <2>1. operation = "execute_final_operation" => \E row \in FinalPaths : Fits(s, row)
    BY DEF ReviewedPaths
  <2>2. QED  BY <1>1, <2>1, FinalPlaces DEF FinalKinds, SelfActions
<1>4. operation # "execute_secret_engine_operation"
  <2>1. operation = "execute_secret_engine_operation" => \E row \in SecretEnginePaths : Fits(s, row)
    BY DEF ReviewedPaths
  <2>2. QED  BY <1>1, <2>1, EnginePlaces
<1>5. QED  BY <1>2, <1>3, <1>4 DEF Proxies

\* No path is on both lists.
LEMMA ListsApart ==
  ASSUME NEW s \in Seq(STRING), \E row \in UnauthenticatedPaths : Fits(s, row),
         \E row \in SubmittedTokenPaths : Fits(s, row)
  PROVE  FALSE
  BY SubmittedPlaces, UnauthenticatedPlaces DEF SelfActions

\* No reviewed operation makes the broker look up, renew or revoke a session of its
\* own, set up TOTP for itself or log in with its own token: such a path takes the
\* authentication operation, and that sends the caller's token, or none; and the
\* caller's token goes nowhere else.
THEOREM OwnTokenNeverStandsIn == Spec => []TokenAsListed
<1>1. Inductive => TokenAsListed
  <2> SUFFICES ASSUME Inductive, NEW r \in Requests, SentReviewed(r)
               PROVE  LET path == request[r].fields["path"]
                          token == TokenOf(request[r])
                      IN  /\ Matches(path, SubmittedTokenPaths) <=> token = "caller"
                          /\ Matches(path, UnauthenticatedPaths) => token = "none"
                          /\ Matches(path, SubmittedTokenPaths \union UnauthenticatedPaths) =>
                                 request[r].operation = "execute_authentication_operation"
    BY DEF TokenAsListed
  <2> DEFINE q == request[r]
             path == q.fields["path"]
             s == path.segments
  <2>1. /\ q.operation \in Proxies /\ ContractOutcome(q) = "accepted"
        /\ path.rooted /\ s \in Seq(STRING)
        /\ \E row \in ReviewedPaths(q.operation) : Fits(s, row)
        /\ q.operation = "execute_authentication_operation" => TokenOnlyWhereSubmitted(q.fields)
    BY ReviewedWhenSent
  <2> HIDE DEF q
  <2>2. Matches(path, SubmittedTokenPaths \union UnauthenticatedPaths)
        => q.operation = "execute_authentication_operation"
    BY <2>1, ListedPathsAuthenticate DEF Matches
  <2>3. TokenOf(q) = "caller" <=> Given(q.fields, "token")
    BY DEF TokenOf
  <2>4. Matches(path, SubmittedTokenPaths) <=> Given(q.fields, "token")
    <3>1. CASE q.operation = "execute_authentication_operation"
      BY <2>1, <3>1, SubmittedToken
    <3>2. CASE q.operation # "execute_authentication_operation"
      <4>1. ~Given(q.fields, "token")
        BY <2>1, <3>2, TokenKeys DEF Given
      <4>2. QED  BY <2>2, <3>2, <4>1 DEF Matches
    <3>3. QED  BY <3>1, <3>2
  <2>5. ASSUME Matches(path, UnauthenticatedPaths) PROVE TokenOf(q) = "none"
    <3>1. q.operation = "execute_authentication_operation"
      BY <2>2, <2>5 DEF Matches
    <3>2. IsUnauthenticatedAuthPath(path)
      BY <2>1, <2>5, LoginsAreTaken
    <3>3. ~Matches(path, SubmittedTokenPaths)
      BY <2>1, <2>5, ListsApart DEF Matches
    <3>4. QED  BY <2>4, <3>1, <3>2, <3>3 DEF TokenOf
  <2>6. QED  BY <2>2, <2>3, <2>4, <2>5 DEF q
<1>2. QED  BY <1>1, OperationsInductive, PTL

\* The reviewed operations on MFA login enforcements.
LoginEnforcementPaths ==
    {Row({"LIST"}, <<{"identity"}, {"mfa"}, {"login-enforcement"}>>),
     Row({"GET", "POST", "DELETE"}, <<{"identity"}, {"mfa"}, {"login-enforcement"}, Named>>)}

LEMMA LoginEnforcementPlaces ==
  ASSUME NEW s \in Seq(STRING), NEW row \in LoginEnforcementPaths, Fits(s, row)
  PROVE  s[1] = "identity" /\ s[3] = "login-enforcement" /\ 3 \in 1..Len(s)
<1>1. CASE row = Row({"LIST"}, <<{"identity"}, {"mfa"}, {"login-enforcement"}>>)
  <2>1. row.pattern = <<{"identity"}, {"mfa"}, {"login-enforcement"}>>
    BY <1>1, PatternOfRow, Zenon
  <2>2. row.lease = FALSE
    BY <1>1 DEF Row
  <2>3. Begins(row, {"identity"}, {"mfa"}) /\ Allows(row, 3, {"login-enforcement"})
    BY <2>1, Begins3
  <2>4. s[1] \in {"identity"} /\ s[3] \in {"login-enforcement"}
    BY <2>3, FitsAllows DEF Begins
  <2>5. Len(s) = 3
    BY <2>1, <2>2, FitsPlain
  <2>6. QED  BY <2>4, <2>5
<1>2. CASE row = Row({"GET", "POST", "DELETE"},
                     <<{"identity"}, {"mfa"}, {"login-enforcement"}, Named>>)
  <2>1. row.pattern = <<{"identity"}, {"mfa"}, {"login-enforcement"}, Named>>
    BY <1>2, PatternOfRow, Zenon
  <2>2. row.lease = FALSE
    BY <1>2 DEF Row
  <2>3. Begins(row, {"identity"}, {"mfa"}) /\ Allows(row, 3, {"login-enforcement"})
    BY <2>1, Begins4
  <2>4. s[1] \in {"identity"} /\ s[3] \in {"login-enforcement"}
    BY <2>3, FitsAllows DEF Begins
  <2>5. Len(s) = 4
    BY <2>1, <2>2, FitsPlain
  <2>6. QED  BY <2>4, <2>5
<1>3. QED  BY <1>1, <1>2 DEF LoginEnforcementPaths

\* What goes without a token although it is not listed among what does: every
\* operation on an MFA login enforcement, and nothing but what has a segment that
\* looks like a login or a self.
TokenLostToLookalikes ==
    \A r \in Requests :
        LET path == request[r].fields["path"]
            none == TokenOf(request[r]) = "none" /\ ~Matches(path, UnauthenticatedPaths)
        IN  SentReviewed(r) =>
              /\ request[r].operation = "execute_authentication_operation"
                 /\ Matches(path, LoginEnforcementPaths) => none
              /\ none => \E i \in 1..Len(path.segments) :
                             path.segments[i] \in LoginLike \union SelfLike

\* The fifth finding for every operation and name: nothing a caller brings makes the
\* broker's token go with an operation on a login enforcement, and how far beyond these
\* the search for "/login" and "-self" reaches.
THEOREM LoginEnforcementsLoseToken == Spec => []TokenLostToLookalikes
<1>1. Inductive => TokenLostToLookalikes
  <2> SUFFICES ASSUME Inductive, NEW r \in Requests, SentReviewed(r)
               PROVE  LET path == request[r].fields["path"]
                          none == TokenOf(request[r]) = "none" /\ ~Matches(path, UnauthenticatedPaths)
                      IN  /\ request[r].operation = "execute_authentication_operation"
                             /\ Matches(path, LoginEnforcementPaths) => none
                          /\ none => \E i \in 1..Len(path.segments) :
                                         path.segments[i] \in LoginLike \union SelfLike
    BY DEF TokenLostToLookalikes
  <2> DEFINE q == request[r]
             path == q.fields["path"]
             s == path.segments
  <2>1. /\ q.operation \in Proxies /\ ContractOutcome(q) = "accepted"
        /\ path.rooted /\ s \in Seq(STRING)
        /\ \E row \in ReviewedPaths(q.operation) : Fits(s, row)
        /\ q.operation = "execute_authentication_operation" => TokenOnlyWhereSubmitted(q.fields)
    BY ReviewedWhenSent
  <2> HIDE DEF q
  <2>2. ASSUME q.operation = "execute_authentication_operation", Matches(path, LoginEnforcementPaths)
        PROVE  TokenOf(q) = "none" /\ ~Matches(path, UnauthenticatedPaths)
    <3>1. s[1] = "identity" /\ s[3] = "login-enforcement" /\ 3 \in 1..Len(s)
      BY <2>1, <2>2, LoginEnforcementPlaces DEF Matches
    <3>2. ~Matches(path, SubmittedTokenPaths) /\ ~Matches(path, UnauthenticatedPaths)
      BY <2>1, <3>1, SubmittedPlaces, UnauthenticatedPlaces DEF Matches
    <3>3. ~Given(q.fields, "token")
      BY <2>1, <2>2, <3>2, SubmittedToken
    <3>4. IsUnauthenticatedAuthPath(path)
      BY <3>1, SegmentsAssumption DEF IsUnauthenticatedAuthPath
    <3>5. QED  BY <2>2, <3>2, <3>3, <3>4 DEF TokenOf
  <2>3. ASSUME TokenOf(q) = "none", ~Matches(path, UnauthenticatedPaths)
        PROVE  \E i \in 1..Len(s) : s[i] \in LoginLike \union SelfLike
    <3>1. /\ q.operation = "execute_authentication_operation"
          /\ IsUnauthenticatedAuthPath(path) /\ ~Given(q.fields, "token")
      BY <2>1, <2>3 DEF TokenOf, Unauthenticated, Proxies
    <3>2. ~Matches(path, SubmittedTokenPaths)
      BY <2>1, <3>1, SubmittedToken
    <3>3. Matches(path, AuthPaths)
      BY <2>1, <3>1 DEF Matches, ReviewedPaths
    <3>4. QED  BY <2>1, <2>3, <3>1, <3>2, <3>3, TakenForLogin
  <2>4. QED  BY <2>2, <2>3 DEF q
<1>2. QED  BY <1>1, OperationsInductive, PTL

-----------------------------------------------------------------------------
(* An "ok" is the truth of a mounted operation *)

\* A mounted operation's own call is applied by an engine and by nothing else.
Delivered ==
    \A r \in Requests : request[r] # None /\ IsMounted(request[r]) =>
        \A k \in {"read", "mutation"} : wire[<<r, k>>][1] = "applied" => served[r] # None

\* Who is told that a mounted operation succeeded was served by an engine.
ToldOkWasServed ==
    \A r \in Requests :
        request[r] # None /\ IsMounted(request[r]) /\ Told(r) = "ok" => served[r] # None

LEMMA DeliveredStays == Inductive /\ Delivered /\ [Next]_vars => Delivered'
<1> SUFFICES ASSUME Inductive, Delivered, [Next]_vars,
                    NEW r \in Requests, request'[r] # None, IsMounted(request'[r]),
                    NEW k \in {"read", "mutation"}, wire'[<<r, k>>][1] = "applied"
             PROVE  served'[r] # None
  BY DEF Delivered, IsMounted
<1>0. k \in Kinds /\ k # "document" /\ <<r, k>> \in Calls /\ OwnTypes /\ T!Inductive
  BY KindsAreCalls, InductiveParts DEF Kinds
\* Where nothing of r is served or begun, it was served before.
<1>1. ASSUME Kept(<<r, k>>), request'[r] = request[r], served'[r] = served[r]
      PROVE  served'[r] # None
  BY <1>1 DEF Kept, Delivered
<1>2. ASSUME NEW p \in Requests, NEW q \in ArgumentsOf(p), Begin(p, q), Kept(<<r, k>>)
      PROVE  served'[r] # None
  <2>1. CASE p = r
    <3>1. wire[<<r, k>>][1] = "unsent"
      BY <1>0, <1>2, <2>1, NotBegun DEF Begin
    <3>2. QED  BY <1>2, <3>1 DEF Kept
  <2>2. CASE p # r
    BY <1>0, <1>1, <1>2, <2>2 DEF Begin, OwnTypes
  <2>3. QED  BY <2>1, <2>2
<1>3. ASSUME NEW p \in Requests, NEW q \in ArgumentsOf(p),
             Refuse(p, q) \/ Raise(p, q) \/ FailToWrap(p, q)
      PROVE  served'[r] # None
  <2>1. Begin(p, q) /\ Kept(<<r, k>>)
    BY <1>0, <1>3, StillKept DEF Refuse, Raise, FailToWrap, Conclude
  <2>2. QED  BY <1>2, <2>1
<1>4. ASSUME NEW p \in Requests, NEW q \in ArgumentsOf(p), Execute(p, q) PROVE served'[r] # None
  <2> DEFINE kind == IF q.operation = "execute_mounted_operation" THEN "document"
                     ELSE IF Mutation(q) THEN "mutation" ELSE "read"
  <2>1. <<p, kind>> \in Calls /\ T!Submit(<<p, kind>>) /\ Begin(p, q)
    BY <1>4, KindsAreCalls DEF Execute, Kinds
  <2>2. wire' = wire
    BY <1>0, <2>1, SubmitStep
  <2>3. CASE p = r
    <3>1. wire[<<r, k>>][1] = "unsent"
      BY <1>0, <2>1, <2>3, NotBegun DEF Begin
    <3>2. QED  BY <2>2, <3>1
  <2>4. CASE p # r
    <3>1. request'[r] = request[r] /\ served' = served
      BY <1>0, <2>1, <2>4 DEF Begin, OwnTypes
    <3>2. QED  BY <2>2, <3>1 DEF Delivered
  <2>5. QED  BY <2>3, <2>4
<1>5. ASSUME NEW p \in Requests, SendChecked(p) PROVE served'[r] # None
  <2>1. Target(p) \in Calls /\ T!Submit(Target(p)) /\ UNCHANGED <<request, served>>
    BY <1>5, KindsAreCalls DEF SendChecked, DocumentIn
  <2>2. wire' = wire
    BY <1>0, <2>1, SubmitStep
  <2>3. QED  BY <2>1, <2>2 DEF Delivered
<1>6. ASSUME NEW p \in Requests, NotAdvertised(p) PROVE served'[r] # None
  BY <1>0, <1>1, <1>6, StillKept DEF NotAdvertised, DocumentIn, Conclude
<1>7. ASSUME NEW p \in Requests, Describe(p) PROVE served'[r] # None
  <2>1. <<p, "document">> \in Calls /\ <<r, k>> # <<p, "document">>
    BY <1>0, KindsAreCalls DEF Kinds
  <2>2. Kept(<<r, k>>)
    BY <1>0, <1>7, <2>1, DecideStep DEF Describe
  <2>3. QED  BY <1>1, <1>7, <2>2 DEF Describe
<1>8. ASSUME NEW p \in Requests, ServeReviewed(p) PROVE served'[r] # None
  <2>1. Target(p) \in Calls /\ T!Decide(Target(p), 1, "applied") /\ UNCHANGED <<request, served>>
    BY <1>8, KindsAreCalls DEF ServeReviewed
  <2>2. p # r
    BY <1>8 DEF ServeReviewed, IsMounted
  <2>3. <<r, k>> # Target(p)
    BY <2>2 DEF Target
  <2>4. Kept(<<r, k>>)
    BY <1>0, <2>1, <2>3, DecideStep
  <2>5. QED  BY <1>1, <2>1, <2>4
<1>9. ASSUME NEW p \in Requests, ServeMounted(p) PROVE served'[r] # None
  <2>1. Target(p) \in Calls /\ T!Decide(Target(p), 1, "applied") /\ UNCHANGED request
    BY <1>9, KindsAreCalls DEF ServeMounted
  <2>2. PICK m \in MountPaths : served' = [served EXCEPT ![p] = [mount |-> m, table |-> mounted]]
    BY <1>9 DEF ServeMounted
  <2>3. CASE p = r
    <3>1. served'[r] = [mount |-> m, table |-> mounted]
      BY <1>0, <2>2, <2>3 DEF OwnTypes
    <3>2. [mount |-> m, table |-> mounted] \in [mount : MountPaths, table : MountTables]
      BY <1>0 DEF OwnTypes
    <3>3. QED  BY <3>1, <3>2, NoneAssumption DEF MountTables
  <2>4. CASE p # r
    <3>1. <<r, k>> # Target(p)
      BY <2>4 DEF Target
    <3>2. Kept(<<r, k>>)
      BY <1>0, <2>1, <3>1, DecideStep
    <3>3. served'[r] = served[r]
      BY <1>0, <2>2, <2>4 DEF OwnTypes
    <3>4. QED  BY <1>1, <2>1, <3>2, <3>3
  <2>5. QED  BY <2>3, <2>4
<1>10. ASSUME NEW c \in Calls, Transport(c) PROVE served'[r] # None
  BY <1>0, <1>1, <1>10, TransportStep DEF Transport
<1>11. ASSUME NEW c \in Calls, Decline(c) PROVE served'[r] # None
  <2>1. T!Decide(c, 1, "rejected") /\ UNCHANGED <<request, served>>
    BY <1>11 DEF Decline
  <2>2. wire'[c][1] = "rejected" /\ \A d \in Calls : d # c => Kept(d)
    BY <1>0, <2>1, DecideStep
  <2>3. QED  BY <1>0, <1>1, <2>1, <2>2
<1>12. CASE UNCHANGED vars
  BY <1>0, <1>1, <1>12, StillKept DEF vars
<1>13. QED
  BY <1>3, <1>4, <1>5, <1>6, <1>7, <1>8, <1>9, <1>10, <1>11, <1>12 DEF Next

\* A caller told "ok" of a mounted operation was served by an engine; with
\* ServedWhatIsAdvertised, by the one it named and as that one's document says,
\* unless the mount was changed since.
THEOREM OkWasServed == Spec => []ToldOkWasServed
<1>1. Init => Delivered
  BY DEF Init, Delivered
<1>2. Inductive /\ Delivered => ToldOkWasServed
  <2> SUFFICES ASSUME Inductive, Delivered, NEW r \in Requests,
                      request[r] # None, IsMounted(request[r]), Told(r) = "ok"
               PROVE  served[r] # None
    BY DEF ToldOkWasServed
  <2>1. verdict[r] \in {"none", "refused", "raised", "error"}
    BY InductiveParts DEF OwnTypes
  <2>2. report[Target(r)] = "ok"
    BY <2>1 DEF Told
  <2>3. Target(r) \in Calls /\ \E k \in {"read", "mutation"} : Target(r) = <<r, k>>
    BY KindsAreCalls
  <2>4. wire[Target(r)][1] = "applied"
    BY <2>2, <2>3, CallTracked, InductiveParts
  <2>5. QED  BY <2>3, <2>4 DEF Delivered
<1>3. QED  BY <1>1, <1>2, DeliveredStays, OperationsInductive, PTL DEF Spec
=============================================================================
