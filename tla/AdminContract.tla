---------------------------- MODULE AdminContract ----------------------------
(***************************************************************************)
(* What the broker asks of an administration request before it looks at    *)
(* OpenBao (broker/administration.py): the closed registry, the arguments  *)
(* of each operation and the reviewed paths.                               *)
(*                                                                         *)
(* A JSON value is a record whose field "is" names its type, beside its    *)
(* text, number, truth, items or fields.  A path is a string too: [is,     *)
(* rooted, segments], rooted for its leading slash; a template is [is,     *)
(* mount, tail] for "/{<mount>_mount_path}/<tail>".  The classes of        *)
(* segments are the character classes of the source.                       *)
(***************************************************************************)
EXTENDS Integers, Sequences, SequencesExt

CONSTANTS
    Named,       \* segments that match _NAME, every literal of the paths among them
    Mountable,   \* those that match _MOUNT
    Uuids,       \* those that match _UUID
    Headers,     \* those that match _HEADER
    Unclean,     \* segments with "%", "\", "..", "?" or "#" in them
    Parameters,  \* "{path}" and the other parameters of a template
    Placeholder  \* mount.replace("-", "_"), segment by segment

-----------------------------------------------------------------------------
(* The registry *)

Implemented ==
    {"discover_capabilities", "initialization_status", "seal_status", "leader_status",
     "ha_status", "raft_configuration", "initialize", "join_raft", "unseal", "seal",
     "remove_raft_peer", "download_raft_snapshot", "restore_raft_snapshot",
     "execute_secret_engine_operation", "execute_mounted_operation",
     "execute_authentication_operation", "execute_access_operation",
     "execute_final_operation"}

Nullary == {"discover_capabilities", "initialization_status", "seal_status",
            "leader_status", "ha_status", "raft_configuration", "seal"}
MountedKeys == {"body", "method", "mount_path", "operation_id", "path", "path_template", "query"}

\* _ARGUMENT_KEYS, which lists no snapshot operation.
ArgumentKeys ==
    [operation \in Implemented \ {"download_raft_snapshot", "restore_raft_snapshot"} |->
        CASE operation \in Nullary -> {}
          [] operation \in {"execute_access_operation", "execute_final_operation"} ->
                {"material", "method", "path", "payload"}
          [] operation = "execute_authentication_operation" -> {"method", "path", "payload", "token"}
          [] operation = "execute_secret_engine_operation" -> {"method", "path", "payload"}
          [] operation = "execute_mounted_operation" -> MountedKeys
          [] operation = "initialize" ->
                {"pgp_keys", "recovery_pgp_keys", "recovery_shares", "recovery_threshold",
                 "root_token_pgp_key", "secret_shares", "secret_threshold", "stored_shares"}
          [] operation = "join_raft" ->
                {"leader_api_addr", "leader_ca_cert", "leader_client_cert", "leader_client_key",
                 "non_voter", "retry"}
          [] operation = "remove_raft_peer" -> {"server_id"}
          [] operation = "unseal" -> {"key", "migrate", "reset"}]

RequiredKeys(operation) ==
    CASE operation \in {"execute_access_operation", "execute_final_operation",
                        "execute_authentication_operation", "execute_secret_engine_operation"} ->
            {"method", "path", "payload"}
      [] operation = "execute_mounted_operation" -> MountedKeys
      [] operation = "initialize" -> {"secret_shares", "secret_threshold"}
      [] operation = "join_raft" -> {"leader_api_addr"}
      [] operation = "remove_raft_peer" -> {"server_id"}
      [] OTHER -> {}

-----------------------------------------------------------------------------
(* Fields.  A string's "length" is given only where a limit is compared.    *)

Given(fields, key) == key \in DOMAIN fields /\ fields[key].is # "null"
Is(fields, key, type) == key \in DOMAIN fields /\ fields[key].is = type
Bounded(fields, key, most) ==
    Given(fields, key) => Is(fields, key, "string") /\ fields[key].length \in 1..most
\* A field that is present must be a boolean; null will not do.
Flag(fields, key) == key \in DOMAIN fields => fields[key].is = "boolean"

PositiveInteger(fields, key) ==
    Given(fields, key) => Is(fields, key, "integer") /\ fields[key].number \in 1..10000

StringList(fields, key) ==
    Given(fields, key) =>
        /\ Is(fields, key, "array")
        /\ \A i \in 1..Len(fields[key].items) :
               Bounded([item |-> fields[key].items[i]], "item", 20000) /\ fields[key].items[i].is # "null"

ValidInitialize(fields) ==
    /\ \A key \in {"secret_shares", "secret_threshold"} : Given(fields, key)
    /\ \A key \in {"secret_shares", "secret_threshold", "stored_shares", "recovery_shares",
                   "recovery_threshold"} : PositiveInteger(fields, key)
    /\ fields["secret_threshold"].number <= fields["secret_shares"].number
    /\ \A key \in {"pgp_keys", "recovery_pgp_keys"} : StringList(fields, key)
    /\ Bounded(fields, "root_token_pgp_key", 20000)

\* The address is https, without credentials, path, query or fragment.
ValidJoin(fields) ==
    /\ Is(fields, "leader_api_addr", "string")
    /\ fields["leader_api_addr"].bare_https
    /\ \A key \in {"leader_ca_cert", "leader_client_cert", "leader_client_key"} :
           Bounded(fields, key, 512000)
    /\ \A key \in {"retry", "non_voter"} : Flag(fields, key)

ValidUnseal(fields) ==
    /\ Bounded(fields, "key", 20000)
    /\ \A key \in {"reset", "migrate"} : Flag(fields, key)
    /\ Given(fields, "key") \/ ("reset" \in DOMAIN fields /\ fields["reset"].truth)

-----------------------------------------------------------------------------
(* The reviewed paths: rows of methods and, segment by segment, what a path *)
(* may hold.  A lease runs over any number of segments, the last one maybe  *)
(* empty.                                                                   *)

Row(methods, pattern) == [methods |-> methods, pattern |-> pattern, lease |-> FALSE]
LeaseRow(methods, pattern) == [methods |-> methods, pattern |-> pattern, lease |-> TRUE]
Optionally(methods, pattern, last) == {Row(methods, pattern), Row(methods, Append(pattern, last))}
All == {"GET", "LIST", "POST", "DELETE"}

Fits(segments, row) ==
    /\ IF row.lease THEN Len(segments) > Len(row.pattern) ELSE Len(segments) = Len(row.pattern)
    /\ \A i \in 1..Len(segments) :
           segments[i] \in IF i <= Len(row.pattern) THEN row.pattern[i]
                          ELSE IF i = Len(row.pattern) + 1 THEN Named ELSE Named \union {""}

AccessPaths ==
    Optionally(All, <<{"sys"}, {"policies"}, {"acl", "password"}>>, Named)
    \union {Row({"GET"}, <<{"sys"}, {"policies"}, {"password"}, Named, {"generate"}>>)}
    \union {Row(All, <<{"identity"}, {"entity", "entity-alias", "group", "group-alias"}>>)}
    \union Optionally(All, <<{"identity"}, {"entity", "entity-alias", "group", "group-alias"},
                             {"id"}>>, Uuids)
    \union {Row({"POST"}, <<{"identity"}, {"entity"}, {"merge"}>>)}
    \union Optionally(All, <<{"identity"}, {"oidc"},
                             {"client", "key", "assignment", "provider", "scope"}>>, Named)
    \union {Row({"POST"}, <<{"identity"}, {"oidc"}, {"key"}, Named, {"rotate"}>>)}
    \union Optionally(All, <<{"sys"}, {"namespaces"}>>, Named)

Hashes == {"sha2-224", "sha2-256", "sha2-384", "sha2-512",
           "sha3-224", "sha3-256", "sha3-384", "sha3-512"}

FinalPaths ==
    {Row({"LIST"}, <<{"sys"}, {"leases"}, {"lookup"}>>),
     LeaseRow({"LIST"}, <<{"sys"}, {"leases"}, {"lookup"}>>),
     Row({"POST"}, <<{"sys"}, {"leases"}, {"lookup", "renew", "revoke"}>>),
     LeaseRow({"POST"}, <<{"sys"}, {"leases"}, {"revoke-prefix", "revoke-force"}>>),
     Row({"POST"}, <<{"sys"}, {"wrapping"}, {"wrap", "lookup", "rewrap", "unwrap"}>>),
     Row({"POST"}, <<{"sys"}, {"tools"}, {"hash"}, Hashes>>),
     Row({"POST"}, <<{"sys"}, {"tools"}, {"random"}, {"platform", "all"}>>),
     Row({"POST"}, <<{"auth"}, {"token"}, {"lookup"}>>),
     Row({"LIST"}, <<{"sys"}, {"config"}, {"ui"}, {"headers"}>>),
     Row({"GET", "POST", "DELETE"}, <<{"sys"}, {"config"}, {"ui"}, {"headers"}, Headers>>)}

SecretEnginePaths ==
    {Row({"LIST"}, <<{"sys"}, {"mounts"}>>)}
    \union Optionally({"GET", "POST", "DELETE"}, <<{"sys"}, {"mounts"}, Mountable>>, {"tune"})
    \union {Row({"POST"}, <<{"sys"}, {"remount"}>>),
            Row({"GET"}, <<{"sys"}, {"remount"}, {"status"}, Uuids>>)}

LoginPaths == Optionally({"GET", "POST"}, <<{"auth"}, Mountable, {"login"}>>, Named)
OidcPaths == {Row({"POST"}, <<{"auth"}, Mountable, {"oidc"}, {"auth_url", "poll"}>>)}
ValidatePaths == {Row({"POST"}, <<{"sys"}, {"mfa"}, {"validate"}>>)}
SelfActions == {"lookup-self", "renew-self", "revoke-self"}

AuthPaths ==
    {Row({"LIST"}, <<{"sys"}, {"auth"}>>)}
    \union Optionally({"GET", "POST", "DELETE"}, <<{"sys"}, {"auth"}, Mountable>>, {"tune"})
    \union {Row({"POST"}, <<{"sys"}, {"remount"}>>),
            Row({"GET"}, <<{"sys"}, {"remount"}, {"status"}, Uuids>>),
            Row({"GET", "POST"}, <<{"auth"}, Mountable, {"config"}>>)}
    \union Optionally(All, <<{"auth"}, Mountable,
                             {"roles", "users", "role", "groups", "certs", "crls"}>>, Named)
    \union {Row({"GET", "POST"}, <<{"auth"}, Mountable, {"role"}, Named, {"secret-id", "role-id"}>>),
            Row({"POST"}, <<{"auth"}, Mountable, {"role"}, Named, {"secret-id-accessor"},
                            {"lookup", "destroy"}>>)}
    \union LoginPaths \union OidcPaths \union ValidatePaths
    \union {Row({"LIST"}, <<{"identity"}, {"mfa"}, {"method"}>>),
            Row({"GET"}, <<{"identity"}, {"mfa"}, {"method"}, Uuids>>)}
    \union Optionally({"POST", "DELETE"}, <<{"identity"}, {"mfa"}, {"method"},
                                            {"totp", "duo", "okta", "pingid"}>>, Uuids)
    \union {Row({"POST"}, <<{"identity"}, {"mfa"}, {"method"}, {"totp"},
                            {"generate", "admin-generate", "admin-destroy"}>>),
            Row({"LIST"}, <<{"identity"}, {"mfa"}, {"login-enforcement"}>>),
            Row({"GET", "POST", "DELETE"}, <<{"identity"}, {"mfa"}, {"login-enforcement"}, Named>>),
            Row({"GET", "POST"}, <<{"auth"}, {"token"}, SelfActions \union
                    {"lookup-accessor", "renew-accessor", "revoke-accessor"}>>)}

\* _SUBMITTED_TOKEN_PATHS and _UNAUTHENTICATED_PATHS; the second is not used.
SubmittedTokenPaths == {Row({}, <<{"auth"}, {"token"}, SelfActions>>),
                        Row({}, <<{"identity"}, {"mfa"}, {"method"}, {"totp"}, {"generate"}>>)}
UnauthenticatedPaths == LoginPaths \union OidcPaths \union ValidatePaths

Matches(path, rows) == path.rooted /\ \E row \in rows : Fits(path.segments, row)

\* No "//" and nothing of the unclean; a slash at the very end is another matter.
Clean(path) ==
    \A i \in 1..Len(path.segments) :
        path.segments[i] \notin Unclean /\ (path.segments[i] = "" => i = Len(path.segments))

ValidReviewedProxy(fields, rows) ==
    /\ Is(fields, "method", "string") /\ Is(fields, "path", "string")
    /\ Is(fields, "payload", "object")
    /\ Flag(fields, "material")
    /\ Clean(fields["path"])
    /\ Matches(fields["path"], {row \in rows : fields["method"].text \in row.methods})

\* Mutant: a token is taken with any path.
TokenWithAnyPath(fields) ==
    /\ Matches(fields["path"], SubmittedTokenPaths) => Given(fields, "token")
    /\ Bounded(fields, "token", 20000)
TokenOnlyWhereSubmitted(fields) ==
    /\ Matches(fields["path"], SubmittedTokenPaths) <=> Given(fields, "token")
    /\ Bounded(fields, "token", 20000)

ValidAuthenticationProxy(fields) ==
    ValidReviewedProxy(fields, AuthPaths) /\ TokenOnlyWhereSubmitted(fields)

-----------------------------------------------------------------------------
(* Mounted operations *)

PlaceholderOf(mount) == [i \in 1..Len(mount) |-> Placeholder[mount[i]]]

\* The template's tail after "{path}" has been stretched to the path's length.
Expanded(tail, count) ==
    IF \E i \in 1..Len(tail) : tail[i] = "{path}"
    THEN LET at == CHOOSE i \in 1..Len(tail) :
                       tail[i] = "{path}" /\ \A j \in 1..i - 1 : tail[j] # "{path}"
             stretch == count - (Len(tail) - 1)
         IN  SubSeq(tail, 1, at - 1) \o [i \in 1..stretch |-> "{segment}"]
                 \o SubSeq(tail, at + 1, Len(tail))
    ELSE tail

FollowsTemplate(rest, tail) ==
    LET expanded == Expanded(tail, Len(rest))
    IN  /\ Len(expanded) = Len(rest)
        /\ \A i \in 1..Len(rest) :
               expanded[i] \in Parameters \union {"{segment}"} \/ expanded[i] = rest[i]

Beneath(mount, segments) == SubSeq(segments, Len(mount) + 1, Len(segments))

ValidMountedOperation(fields) ==
    /\ Is(fields, "method", "string")
    /\ fields["method"].text \in {"GET", "LIST", "POST", "PUT", "PATCH", "DELETE"}
    /\ Is(fields, "mount_path", "string")
    /\ \A i \in 1..Len(fields["mount_path"].segments) : fields["mount_path"].segments[i] \in Mountable
    /\ Is(fields, "operation_id", "string")
    /\ Is(fields, "query", "object") /\ Is(fields, "body", "object")
    /\ Is(fields, "path_template", "string") /\ Is(fields, "path", "string")
    /\ Clean(fields["path"])
    /\ Last(fields["path"].segments) # ""
    /\ fields["path_template"].mount = PlaceholderOf(fields["mount_path"].segments)
    /\ IsPrefix(fields["mount_path"].segments, fields["path"].segments)
    /\ FollowsTemplate(Beneath(fields["mount_path"].segments, fields["path"].segments),
                       fields["path_template"].tail)

-----------------------------------------------------------------------------
(* validate_arguments *)

Validator(operation, fields) ==
    /\ operation = "initialize" => ValidInitialize(fields)
    /\ operation = "join_raft" => ValidJoin(fields)
    /\ operation = "unseal" => ValidUnseal(fields)
    /\ operation = "remove_raft_peer" => fields["server_id"].server_id
    /\ operation = "execute_authentication_operation" => ValidAuthenticationProxy(fields)
    /\ operation = "execute_mounted_operation" => ValidMountedOperation(fields)
    /\ operation = "execute_access_operation" => ValidReviewedProxy(fields, AccessPaths)
    /\ operation = "execute_final_operation" => ValidReviewedProxy(fields, FinalPaths)
    /\ operation = "execute_secret_engine_operation" => ValidReviewedProxy(fields, SecretEnginePaths)

\* A TypeError: a pattern is matched with no string, a list is sought in a set.
Raises(operation, fields) ==
    \/ operation = "remove_raft_peer" /\ ~Is(fields, "server_id", "string")
    \/ /\ operation = "execute_mounted_operation"
       /\ fields["method"].is \in {"array", "object"}

\* An operation without argument keys raises a KeyError.  "bounded": the
\* arguments keep the limits on depth, items, strings and bytes.
ContractOutcome(request) ==
    LET operation == request.operation
        keys == DOMAIN request.fields
    IN  IF operation \notin Implemented THEN "refused"
        ELSE IF operation \notin DOMAIN ArgumentKeys THEN "raised"
        ELSE IF \/ ~(keys \subseteq ArgumentKeys[operation])
                \/ ~(RequiredKeys(operation) \subseteq keys)
                \/ ~request.bounded THEN "refused"
        ELSE IF Raises(operation, request.fields) THEN "raised"
        ELSE IF Validator(operation, request.fields) THEN "accepted" ELSE "refused"
=============================================================================
