--------------------------- MODULE AdminOperations ---------------------------
(***************************************************************************)
(* From the arguments of an administration request to what OpenBao does:   *)
(* the contract (AdminContract), what is sent and with which token         *)
(* (broker/vault.py, execute_administration, _execute_reviewed_proxy,      *)
(* _execute_mounted_operation) over the transport (AdminTransport).        *)
(*                                                                         *)
(* A mounted operation is two calls: it is checked against OpenBao's       *)
(* document, which was true when OpenBao wrote it, and then sent, while    *)
(* other requests mount and unmount engines.  OpenBao and its engines are  *)
(* external.  Every request has a slot for its calls in the transport; the *)
(* slot says whether the call is marked as a mutation.                     *)
(***************************************************************************)
EXTENDS AdminContract, OpenApiSchema

CONSTANTS
    Requests,          \* requests under way
    ArgumentsOf(_),    \* the operations and arguments each may bring
    MountPaths,        \* where engines may be mounted, as sequences of segments
    FirstMounts,       \* what is mounted at first: one of these tables
    Engines,           \* kinds of engines
    OperationsOf(_),   \* what an engine offers: [method, tail, id, query, body, ...]
    LoginLike,         \* segments that begin with "login"
    SelfLike,          \* segments that end in "-self"
    None

Kinds == {"document", "read", "mutation"}
Calls == Requests \X Kinds
Mutations == Requests \X {"mutation"}

ASSUME FirstMountsAssumption == FirstMounts \subseteq [MountPaths -> Engines \union {None}]
ASSUME MountPathsAssumption == MountPaths \subseteq Seq(STRING)
ASSUME ArgumentsAssumption ==
    \A r \in Requests : \A q \in ArgumentsOf(r) :
        /\ q # None
        /\ Is(q.fields, "path", "string") => q.fields["path"].segments \in Seq(STRING)
        /\ Is(q.fields, "mount_path", "string") => q.fields["mount_path"].segments \in Seq(STRING)
ASSUME SegmentsAssumption ==
    {"login", "login-enforcement"} \subseteq LoginLike /\ "generate" \notin Uuids
ASSUME NoneAssumption ==
    /\ None \notin [mounted : [MountPaths -> Engines \union {None}], listed : SUBSET MountPaths]
    /\ None \notin [mount : MountPaths, table : [MountPaths -> Engines \union {None}]]

VARIABLES
    at, attempt, wire, report,   \* the transport
    request,                     \* what each request asked for
    verdict,                     \* how the broker ended it without sending
    mounted,                     \* the engine at each mount path
    document,                    \* the document a mounted operation was given
    served                       \* the mount that served a mounted call, among which others

transport == <<at, attempt, wire, report>>
vars == <<transport, request, verdict, mounted, document, served>>

T == INSTANCE AdminTransport WITH Operations <- Calls, MaxAttempts <- 1

AllArguments == UNION {ArgumentsOf(r) : r \in Requests}
MountTables == [MountPaths -> Engines \union {None}]
\* Of mounts whose placeholders are the same, the "listed" one hides the others'
\* operations where the templates are the same too.
Documents == [mounted : MountTables, listed : SUBSET MountPaths]

TypeOK ==
    /\ T!TypeOK
    /\ request \in [Requests -> AllArguments \union {None}]
    /\ verdict \in [Requests -> {"none", "refused", "raised", "error"}]
    /\ mounted \in MountTables
    /\ document \in [Requests -> Documents \union {None}]
    /\ served \in [Requests -> [mount : MountPaths, table : MountTables] \union {None}]

\* OpenBao lets no mount path lie beneath another.
NoNesting(table) ==
    \A m, n \in MountPaths : table[m] # None /\ table[n] # None /\ IsPrefix(m, n) => m = n

Init ==
    /\ T!Init
    /\ request = [r \in Requests |-> None]
    /\ verdict = [r \in Requests |-> "none"]
    /\ mounted \in {table \in FirstMounts : NoNesting(table)}
    /\ document = [r \in Requests |-> None]
    /\ served = [r \in Requests |-> None]

-----------------------------------------------------------------------------
(* What is sent *)

Proxies == {"execute_access_operation", "execute_authentication_operation",
            "execute_final_operation", "execute_secret_engine_operation"}

\* The specifications of execute_administration.
Unauthenticated == {"initialization_status", "seal_status", "initialize", "join_raft", "unseal"}
MethodOf(operation) ==
    IF operation \in {"initialize", "unseal", "seal"} THEN "PUT"
    ELSE IF operation \in {"join_raft", "remove_raft_peer"} THEN "POST"
    ELSE "GET"
MutatingOperations == {"initialize", "join_raft", "unseal", "seal", "remove_raft_peer"}

\* _is_unauthenticated_auth_path looks for "/login" and for "-self" as text.
\* Mutant: an MFA validation is taken for any other request.
WithoutMfaValidate(path) ==
    LET n == Len(path.segments)
    IN  \/ \E i \in 1..n : path.segments[i] \in LoginLike
        \/ \E i \in 2..n : path.segments[i - 1] = "oidc" /\ path.segments[i] \in {"auth_url", "poll"}
        \/ path.segments[n] \in SelfLike
        \/ n > 1 /\ path.segments[n - 1] = "totp" /\ path.segments[n] = "generate"
IsUnauthenticatedAuthPath(path) ==
    LET n == Len(path.segments)
    IN  \/ path.segments = <<"sys", "mfa", "validate">>
        \/ \E i \in 1..n : path.segments[i] \in LoginLike
        \/ \E i \in 2..n : path.segments[i - 1] = "oidc" /\ path.segments[i] \in {"auth_url", "poll"}
        \/ path.segments[n] \in SelfLike
        \/ n > 1 /\ path.segments[n - 1] = "totp" /\ path.segments[n] = "generate"

\* _administration_headers: the caller's token, else the session's if one is asked for.
TokenOf(q) ==
    IF Given(q.fields, "token") THEN "caller"
    ELSE IF \/ q.operation \in Unauthenticated
            \/ /\ q.operation = "execute_authentication_operation"
               /\ IsUnauthenticatedAuthPath(q.fields["path"])
    THEN "none" ELSE "session"

SentMethod(q) ==
    IF q.operation \in Proxies \union {"execute_mounted_operation"}
    THEN IF q.fields["method"].text = "LIST" THEN "GET" ELSE q.fields["method"].text
    ELSE MethodOf(q.operation)

\* Mutant: PATCH is forgotten.
MutationButPatch(q) ==
    IF q.operation \in Proxies THEN q.fields["method"].text \in {"POST", "DELETE"}
    ELSE IF q.operation = "execute_mounted_operation"
    THEN q.fields["method"].text \in {"POST", "PUT", "DELETE"}
    ELSE q.operation \in MutatingOperations
Mutation(q) ==
    IF q.operation \in Proxies THEN q.fields["method"].text \in {"POST", "DELETE"}
    ELSE IF q.operation = "execute_mounted_operation"
    THEN q.fields["method"].text \in {"POST", "PUT", "PATCH", "DELETE"}
    ELSE q.operation \in MutatingOperations

\* The contract has let it through.
Accepted(r) == request[r] # None /\ verdict[r] = "none"

Target(r) == <<r, IF Mutation(request[r]) THEN "mutation" ELSE "read">>

\* A LIST asks for the query "list=true" of its own accord.
ListTrue == [is |-> "string", text |-> "true", length |-> 4, formats |-> {}]
QueryOf(q) ==
    IF q.fields["method"].text = "LIST" THEN [list |-> ListTrue] @@ q.fields["query"].fields
    ELSE q.fields["query"].fields

\* The sets of OpenApiSchema are large enough for what is checked here.
ASSUME CheckedAssumption ==
    /\ \A engine \in Engines : \A o \in OperationsOf(engine) :
          /\ \A i \in 1..Len(o.parameters) : o.parameters[i].schema \in Schemas
          /\ Has(o, "body") => o.body \in Schemas
    /\ \A q \in UNION {ArgumentsOf(r) : r \in Requests} :
          q.operation = "execute_mounted_operation" /\ ContractOutcome(q) = "accepted" =>
              /\ q.fields["body"] \in Values
              /\ \A name \in DOMAIN QueryOf(q) : QueryOf(q)[name] \in Values

Suits(q, operation) == ArgumentsAccepted(operation, QueryOf(q), q.fields["body"])

\* The document's entry for the template, if it is about this mount ...
Templates(table, m) == IF table[m] = None THEN {} ELSE {o.tail : o \in OperationsOf(table[m])}
Describes(doc, m, q) ==
    LET template == q.fields["path_template"]
    IN  /\ PlaceholderOf(m) = template.mount
        /\ template.tail \in Templates(doc.mounted, m)
        /\ \/ m \in doc.listed
           \/ \A n \in doc.listed :
                  PlaceholderOf(n) = template.mount => template.tail \notin Templates(doc.mounted, n)

\* ... and the operation it has for the method.
Offers(engine, q) == {o \in OperationsOf(engine) : /\ o.tail = q.fields["path_template"].tail
                                                   /\ o.method = SentMethod(q)}

Asked(q, o) == o.id = q.fields["operation_id"].text

\* The checks of _execute_mounted_operation.  An operation's "mount_parameter" says
\* that exactly one required string parameter, whose default is the mount, names it.
\* Mutant: the default is not compared with the mount asked for.
AdvertisedAnywhere(q, doc) ==
    \E m \in MountPaths :
        /\ Describes(doc, m, q)
        /\ \E o \in Offers(doc.mounted[m], q) : Asked(q, o) /\ o.mount_parameter /\ Suits(q, o)
Advertised(q, doc) ==
    \E m \in MountPaths :
        /\ Describes(doc, m, q)
        /\ m = q.fields["mount_path"].segments
        /\ \E o \in Offers(doc.mounted[m], q) : Asked(q, o) /\ o.mount_parameter /\ Suits(q, o)

-----------------------------------------------------------------------------
(* The broker *)

Begin(r, q) == /\ request[r] = None
               /\ request' = [request EXCEPT ![r] = q]
               /\ UNCHANGED <<mounted, document, served>>

Conclude(r, outcome) == verdict' = [verdict EXCEPT ![r] = outcome] /\ UNCHANGED transport

\* A ValueError is refused, anything else passes both records (see Broker).
Refuse(r, q) ==
    Begin(r, q) /\ ContractOutcome(q) = "refused" /\ Conclude(r, "refused")
Raise(r, q) ==
    Begin(r, q) /\ ContractOutcome(q) = "raised" /\ Conclude(r, "raised")

\* payload["data"] of a wrap that brings none: a KeyError inside run().
WrapsNothing(q) ==
    /\ q.operation = "execute_final_operation"
    /\ q.fields["path"].segments = <<"sys", "wrapping", "wrap">>
    /\ "data" \notin DOMAIN q.fields["payload"].fields
FailToWrap(r, q) ==
    Begin(r, q) /\ ContractOutcome(q) = "accepted" /\ WrapsNothing(q) /\ Conclude(r, "error")

\* execute_administration: one call, or the document first.
Execute(r, q) ==
    /\ Begin(r, q)
    /\ ContractOutcome(q) = "accepted" /\ ~WrapsNothing(q)
    /\ T!Submit(<<r, IF q.operation = "execute_mounted_operation" THEN "document"
                     ELSE IF Mutation(q) THEN "mutation" ELSE "read">>)
    /\ UNCHANGED verdict

\* The document is in: send the operation, or refuse it with a VaultError.
DocumentIn(r) ==
    /\ report[<<r, "document">>] = "ok" /\ verdict[r] = "none" /\ at[Target(r)] = "idle"
    /\ UNCHANGED <<request, mounted, document, served>>
SendChecked(r) ==
    DocumentIn(r) /\ Advertised(request[r], document[r]) /\ T!Submit(Target(r)) /\ UNCHANGED verdict
NotAdvertised(r) ==
    DocumentIn(r) /\ ~Advertised(request[r], document[r]) /\ Conclude(r, "error")

Transport(c) == T!Transport(c) /\ UNCHANGED <<request, verdict, mounted, document, served>>

-----------------------------------------------------------------------------
(* OpenBao *)

\* One mount of each placeholder is foremost.
Listings(table) ==
    {listed \in SUBSET {m \in MountPaths : table[m] # None} :
        \A m \in MountPaths : table[m] # None =>
            \E n \in listed : \A o \in listed : PlaceholderOf(o) = PlaceholderOf(m) <=> o = n}

Describe(r) ==
    /\ T!Decide(<<r, "document">>, 1, "applied")
    /\ \E listed \in Listings(mounted) :
           document' = [document EXCEPT ![r] = [mounted |-> mounted, listed |-> listed]]
    /\ UNCHANGED <<request, verdict, mounted, served>>

Decline(c) == /\ T!Decide(c, 1, "rejected")
              /\ UNCHANGED <<request, verdict, mounted, document, served>>

\* What a reviewed operation does to the mount table.  OpenBao mounts only kinds of
\* engines it has, at free paths.
MountsAfter(q) ==
    LET segments == q.fields["path"].segments
        method == q.fields["method"].text
        mount == SubSeq(segments, 3, Len(segments))
        payload == q.fields["payload"]
    IN  IF segments = <<"sys", "remount">>
        THEN IF mounted[payload.from] # None /\ mounted[payload.to] = None
             THEN [mounted EXCEPT ![payload.to] = mounted[payload.from], ![payload.from] = None]
             ELSE mounted
        ELSE IF segments[1] = "sys" /\ segments[2] = "mounts" /\ mount \in MountPaths
        THEN IF method = "POST" /\ mounted[mount] = None THEN [mounted EXCEPT ![mount] = payload.engine]
             ELSE IF method = "DELETE" THEN [mounted EXCEPT ![mount] = None] ELSE mounted
        ELSE mounted

ServeReviewed(r) ==
    /\ Accepted(r) /\ request[r].operation # "execute_mounted_operation"
    /\ T!Decide(Target(r), 1, "applied")
    /\ mounted' = IF request[r].operation \in Proxies THEN MountsAfter(request[r]) ELSE mounted
    /\ mounted' \in MountTables /\ NoNesting(mounted')
    /\ UNCHANGED <<request, verdict, document, served>>

\* The engine beneath whose mount the path lies routes it by its own patterns; of
\* several that fit, which one is its own affair.
Routed(q, m, engine) ==
    {o \in OperationsOf(engine) :
        /\ o.method = SentMethod(q)
        /\ FollowsTemplate(Beneath(m, q.fields["path"].segments), o.tail)}

\* A path without its leading slash makes a URL that reaches nothing.
ServeMounted(r) ==
    /\ Accepted(r) /\ request[r].operation = "execute_mounted_operation"
    /\ request[r].fields["path"].rooted
    /\ T!Decide(Target(r), 1, "applied")
    /\ \E m \in MountPaths :
           /\ mounted[m] # None /\ IsPrefix(m, request[r].fields["path"].segments)
           /\ Routed(request[r], m, mounted[m]) # {}
           /\ served' = [served EXCEPT ![r] = [mount |-> m, table |-> mounted]]
    /\ UNCHANGED <<request, verdict, mounted, document>>

Next ==
    \/ \E r \in Requests :
          \/ \E q \in ArgumentsOf(r) :
                \/ Refuse(r, q) \/ Raise(r, q) \/ FailToWrap(r, q) \/ Execute(r, q)
          \/ SendChecked(r) \/ NotAdvertised(r)
          \/ Describe(r) \/ ServeReviewed(r) \/ ServeMounted(r)
    \/ \E c \in Calls : Transport(c) \/ Decline(c)

Spec == Init /\ [][Next]_vars

-----------------------------------------------------------------------------
(* Properties *)

IsMounted(q) == q.operation = "execute_mounted_operation"
Sent(c) == at[c] # "idle"

\* Relates a request's slots in the transport to what it asked for: only what the
\* contract accepts is sent, in the slot its flag asks for, and a mounted operation
\* only after a document that advertised it.
Tracked(r) ==
    /\ request[r] = None => verdict[r] = "none"
    /\ \A k \in Kinds : Sent(<<r, k>>) =>
         /\ request[r] \in ArgumentsOf(r) /\ ContractOutcome(request[r]) = "accepted"
         /\ verdict[r] \in {"none", "error"}
         /\ k = "document" => IsMounted(request[r])
         /\ k # "document" => <<r, k>> = Target(r) /\ verdict[r] = "none"
         /\ k # "document" /\ IsMounted(request[r]) =>
              /\ document[r] # None /\ Advertised(request[r], document[r])
              /\ report[<<r, "document">>] = "ok"
    /\ wire[<<r, "document">>][1] = "applied" => document[r] # None
    /\ served[r] # None =>
         /\ request[r] # None /\ IsMounted(request[r]) /\ Sent(Target(r))
         /\ NoNesting(served[r].table) /\ served[r].table[served[r].mount] # None
         /\ IsPrefix(served[r].mount, request[r].fields["path"].segments)

Inductive == TypeOK /\ T!Inductive /\ NoNesting(mounted) /\ \A r \in Requests : Tracked(r)

\* What the caller is told.
Told(r) == IF verdict[r] # "none" THEN verdict[r]
           ELSE IF report[<<r, "document">>] = "error" THEN "error"
           ELSE IF \E k \in {"read", "mutation"} : Sent(<<r, k>>) THEN report[Target(r)] ELSE "none"

\* A request that asks OpenBao to change anything, by any method but GET, and that
\* is told to have failed has changed nothing and never will: whichever operation
\* it names, its call was marked as a mutation.
ErrorMeansUnchanged ==
    \A r \in Requests :
        Told(r) \in {"refused", "raised", "error"} => \A k \in {"read", "mutation"} :
            Sent(<<r, k>>) /\ SentMethod(request[r]) # "GET" => wire[<<r, k>>][1] # "applied"
                                                          /\ wire[<<r, k>>][1] # "pending"

\* A mounted operation is served by the mount it names and by no other, unless that
\* path was mounted anew, moved or unmounted since the document was written.
ServedByItsMount ==
    \A r \in Requests : served[r] # None =>
        LET mount == request[r].fields["mount_path"].segments
        IN  document[r].mounted[mount] = served[r].table[mount] => served[r].mount = mount

\* Then, too, it is the operation that was advertised, with arguments that
\* operation declares.
ServedAsAdvertised ==
    /\ ServedByItsMount
    /\ \A r \in Requests : served[r] # None =>
        LET q == request[r]
            mount == q.fields["mount_path"].segments
        IN  document[r].mounted[mount] = served[r].table[mount] =>
                \E o \in Routed(q, mount, served[r].table[mount]) :
                    /\ Asked(q, o)
                    /\ ArgumentsAdmitted(o, QueryOf(q), q.fields["body"])

\* A reviewed operation that is sent.
SentReviewed(r) == (\E k \in {"read", "mutation"} : Sent(<<r, k>>)) /\ request[r].operation \in Proxies

\* The broker's own token never stands in for a caller: a path that concerns the
\* caller's own session goes with the caller's token, and that token goes nowhere
\* else; a path where OpenBao is asked to log someone in goes with none.  No other
\* family of operations reaches either.
TokenAsListed ==
    \A r \in Requests : SentReviewed(r) =>
        LET path == request[r].fields["path"]
            token == TokenOf(request[r])
        IN  /\ Matches(path, SubmittedTokenPaths) <=> token = "caller"
            /\ Matches(path, UnauthenticatedPaths) => token = "none"
            /\ Matches(path, SubmittedTokenPaths \union UnauthenticatedPaths) =>
                   request[r].operation = "execute_authentication_operation"

\* _UNAUTHENTICATED_PATHS lists the reviewed paths that go without a token: where
\* neither it nor _SUBMITTED_TOKEN_PATHS says so, a reviewed operation goes with
\* the broker's.
BrokersTokenElsewhere ==
    \A r \in Requests : SentReviewed(r) =>
        \/ Matches(request[r].fields["path"], SubmittedTokenPaths \union UnauthenticatedPaths)
        \/ TokenOf(request[r]) = "session"
=============================================================================
