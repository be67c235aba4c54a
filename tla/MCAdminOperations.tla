-------------------------- MODULE MCAdminOperations --------------------------
(***************************************************************************)
(* AdminOperations on two requests: "first" brings any of the arguments    *)
(* below, "second" meanwhile mounts, unmounts or moves engines.  Two mount *)
(* paths share their placeholder, and the two engines offer the same       *)
(* operation with different schemas.                                       *)
(***************************************************************************)
EXTENDS AdminOperations

-----------------------------------------------------------------------------
(* Values *)

Str(v) == [is |-> "string", text |-> v, length |-> 1, formats |-> {}]
Uuid == [is |-> "string", text |-> "uuid", length |-> 36, formats |-> {"uuid"}]
Long == [is |-> "string", text |-> "long", length |-> 600000, formats |-> {}]
NoText == [is |-> "string", text |-> "", length |-> 0, formats |-> {}]
Whole(n) == [is |-> "integer", number |-> n]
Num(n) == [is |-> "number", number |-> n]
Bool(b) == [is |-> "boolean", truth |-> b]
Null == [is |-> "null"]
Arr(items) == [is |-> "array", items |-> items]
Obj(fields) == [is |-> "object", fields |-> fields]
NoFields == Obj(<<>>)
Path(segments) == [is |-> "string", rooted |-> TRUE, segments |-> segments]
Unrooted(segments) == [is |-> "string", rooted |-> FALSE, segments |-> segments]

-----------------------------------------------------------------------------
(* What two engines offer *)

Text == [type |-> "string"]
Tree == "$ref" :> "Tree"
SomeComponents ==
    [Tree |-> [type |-> "object", additionalProperties |-> Tree],
     Cas |-> [type |-> "integer", minimum |-> 0, maximum |-> 9]]

Settings == [type |-> "object", properties |->
    [mode |-> [type |-> "string", enum |-> <<Str("a"), Str("b")>>],
     level |-> [type |-> "integer", enum |-> <<Whole(1)>>],
     owner |-> [oneOf |-> <<[type |-> "string", format |-> "uuid"],
                            [type |-> "string", minLength |-> 2], [type |-> "integer"]>>],
     ratio |-> [anyOf |-> <<[type |-> "number", maximum |-> 1], [type |-> "null"]>>],
     tags |-> [type |-> "array", items |-> Text, minItems |-> 1, maxItems |-> 2],
     note |-> [type |-> "string", maxLength |-> 9, nullable |-> TRUE],
     cas |-> [allOf |-> <<"$ref" :> "Cas", [type |-> "integer", minimum |-> 2]>>, type |-> "integer"],
     tree |-> Tree, free |-> <<>>, lost |-> "$ref" :> "Nowhere"]]
\* No plain schema: the type beside anyOf is not looked at.
Loose == [type |-> "object", properties |->
    [beside |-> [type |-> "integer", anyOf |-> <<Text>>],
     both |-> [oneOf |-> <<Text>>, anyOf |-> <<Text>>]]]

KvBody == [type |-> "object", required |-> <<"data">>, properties |->
    [data |-> [type |-> "object", additionalProperties |-> [anything |-> TRUE]],
     options |-> [type |-> "object", properties |-> [cas |-> "$ref" :> "Cas"]]]]
StrictBody == [KvBody EXCEPT !.required = <<"data", "options">>]

ListParameter == [name |-> "list", required |-> TRUE,
                  schema |-> [type |-> "string", enum |-> <<ListTrue>>]]
Version == [name |-> "version", required |-> FALSE, schema |-> [type |-> "integer"]]

Op(method, tail, id, parameters) ==
    [method |-> method, tail |-> tail, id |-> id, parameters |-> parameters, mount_parameter |-> TRUE]
WithBody(operation, body) == operation @@ [body |-> body]

DataTail == <<"data", "{path}">>
OperationsOfEngine(engine) ==
    IF engine = "kv"
    THEN {WithBody(Op("POST", DataTail, "write", <<>>), KvBody),
          WithBody(Op("PATCH", DataTail, "patch", <<>>), KvBody),
          Op("GET", DataTail, "read", <<Version>>),
          Op("DELETE", DataTail, "delete", <<>>),
          Op("GET", <<"metadata", "{path}">>, "list", <<ListParameter>>),
          Op("GET", <<"odd">>, "odd", <<Version, Version>>),
          [Op("GET", <<"unnamed">>, "unnamed", <<>>) EXCEPT !.mount_parameter = FALSE]}
    ELSE {WithBody(Op("POST", DataTail, "write", <<>>), StrictBody),
          WithBody(Op("PUT", <<"settings">>, "set", <<>>), Settings),
          WithBody(Op("PUT", <<"loose">>, "loose", <<>>), Loose),
          Op("GET", <<"cert", "{serial}">>, "cert", <<>>),
          Op("GET", <<"cert", "chain">>, "chain", <<>>)}

SomeMountPaths == {<<"kv-a">>, <<"kv_a">>, <<"team">>, <<"team", "kv-a">>}
Table(a, b, nested) == (<<"kv-a">> :> a) @@ (<<"kv_a">> :> b)
                       @@ (<<"team">> :> None) @@ (<<"team", "kv-a">> :> nested)
SomeMounts == {Table("kv", "strict", None), Table(None, "strict", "kv"), Table("kv", "kv", None)}

-----------------------------------------------------------------------------
(* Arguments *)

Ask(operation, fields) == [operation |-> operation, fields |-> fields, bounded |-> TRUE]

Proxy(operation, method, segments) ==
    Ask(operation, [method |-> Str(method), path |-> Path(segments), payload |-> NoFields])
Auth(method, segments) == Proxy("execute_authentication_operation", method, segments)
AuthAs(method, segments, token) ==
    [Auth(method, segments) EXCEPT !.fields = @ @@ [token |-> token]]
Engine(method, segments) == Proxy("execute_secret_engine_operation", method, segments)

MountedAs(method, mount, tail, path, id, query, body) ==
    Ask("execute_mounted_operation",
        [method |-> Str(method), mount_path |-> Path(mount), operation_id |-> Str(id),
         path |-> Path(mount \o path),
         path_template |-> [is |-> "string", tail |-> tail,
                            mount |-> [i \in 1..Len(mount) |-> IF mount[i] = "kv-a" THEN "kv_a" ELSE mount[i]]],
         query |-> Obj(query), body |-> Obj(body)])
Write(mount, body) == MountedAs("POST", mount, DataTail, <<"data", "x">>, "write", <<>>, body)
Set(settings) == MountedAs("PUT", <<"kv_a">>, <<"settings">>, <<"settings">>, "set", <<>>, settings)
Read(mount, query) == MountedAs("GET", mount, DataTail, <<"data", "x", "y">>, "read", query, <<>>)

Data == [data |-> Obj([k |-> Null])]
WithCas(n) == [data |-> NoFields, options |-> Obj([cas |-> n])]

MountedArguments ==
    {Write(<<"kv-a">>, Data), Write(<<"kv_a">>, Data), Write(<<"kv_a">>, WithCas(Whole(1))),
     Write(<<"team", "kv-a">>, Data), Write(<<"kv-a">>, <<>>), Write(<<"kv-a">>, WithCas(Num(1))),
     Read(<<"kv-a">>, <<>>), Read(<<"kv-a">>, [version |-> Whole(2)]), Read(<<"kv-a">>, [version |-> Str("2")]),
     Read(<<"kv-a">>, [other |-> Whole(2)]),
     MountedAs("PATCH", <<"kv-a">>, DataTail, <<"data", "x">>, "patch", <<>>, Data),
     MountedAs("DELETE", <<"kv-a">>, DataTail, <<"data">>, "delete", <<>>, <<>>),
     MountedAs("DELETE", <<"kv-a">>, DataTail, <<"data", "x">>, "delete", <<>>, Data),
     MountedAs("LIST", <<"kv-a">>, <<"metadata", "{path}">>, <<"metadata", "x">>, "list", <<>>, <<>>),
     MountedAs("GET", <<"kv-a">>, <<"metadata", "{path}">>, <<"metadata", "x">>, "list", <<>>, <<>>),
     MountedAs("GET", <<"kv-a">>, <<"odd">>, <<"odd">>, "odd", <<>>, <<>>),
     MountedAs("GET", <<"kv-a">>, <<"unnamed">>, <<"unnamed">>, "unnamed", <<>>, <<>>),
     MountedAs("GET", <<"kv_a">>, <<"cert", "{serial}">>, <<"cert", "chain">>, "cert", <<>>, <<>>),
     MountedAs("GET", <<"kv_a">>, <<"cert", "chain">>, <<"cert", "x">>, "chain", <<>>, <<>>),
     MountedAs("PUT", <<"kv_a">>, <<"loose">>, <<"loose">>, "loose", <<>>, [beside |-> Str("x")]),
     MountedAs("PUT", <<"kv_a">>, <<"loose">>, <<"loose">>, "loose", <<>>, [both |-> Str("x")]),
     MountedAs("PUT", <<"kv-a">>, DataTail, <<"data", "x">>, "write", <<>>, Data),
     MountedAs("PURGE", <<"kv-a">>, DataTail, <<"data", "x">>, "write", <<>>, Data),
     [Write(<<"kv-a">>, Data) EXCEPT !.fields.path = Unrooted(<<"kv-a", "data", "x">>)],
     [Write(<<"kv-a">>, Data) EXCEPT !.fields.path = Path(<<"kv_a", "data", "x">>)],
     [Write(<<"kv-a">>, Data) EXCEPT !.fields.path = Path(<<"kv-a", "data", "a..b">>)],
     [Write(<<"kv-a">>, Data) EXCEPT !.fields.path_template.mount = <<"team">>],
     [Write(<<"kv-a">>, Data) EXCEPT !.fields.method = Arr(<<>>)]}

SettingValues ==
    {<<"mode", v>> : v \in {Str("a"), Str("c")}} \union
    {<<"level", v>> : v \in {Whole(1), Bool(TRUE)}} \union
    {<<"owner", v>> : v \in {Uuid, Str("x"), Whole(3)}} \union
    {<<"ratio", v>> : v \in {Null, Num(1), Whole(2), Bool(TRUE)}} \union
    {<<"tags", v>> : v \in {Arr(<<>>), Arr(<<Str("x"), Str("y")>>), Arr(<<Whole(1)>>),
                            Arr(<<Str("x"), Str("y"), Str("z")>>)}} \union
    {<<"note", v>> : v \in {Null, Long, Str("x")}} \union
    {<<"cas", v>> : v \in {Whole(1), Whole(2), Whole(10)}} \union
    {<<"tree", v>> : v \in {Obj([a |-> NoFields]), Obj([a |-> Whole(1)]),
                            Obj([a |-> Obj([a |-> Obj([a |-> Obj([a |-> NoFields])])])])}} \union
    {<<"free", v>> : v \in {Arr(<<Null>>)}} \union
    {<<"lost", Str("x")>>}

ProxyArguments ==
    {Auth("POST", <<"auth", "approle", "login">>), Auth("POST", <<"auth", "approle", "oidc", "poll">>),
     Auth("POST", <<"sys", "mfa", "validate">>), Auth("GET", <<"auth", "login-x", "config">>),
     Auth("LIST", <<"identity", "mfa", "login-enforcement">>), Auth("GET", <<"auth", "approle", "users", "my-self">>),
     Auth("POST", <<"auth", "token", "revoke-accessor">>), Auth("DELETE", <<"sys", "auth", "approle">>),
     AuthAs("POST", <<"auth", "token", "revoke-self">>, Str("t")), AuthAs("POST", <<"auth", "token", "revoke-self">>, NoText),
     Auth("POST", <<"auth", "token", "revoke-self">>),
     AuthAs("POST", <<"identity", "mfa", "method", "totp", "generate">>, Str("t")),
     AuthAs("DELETE", <<"sys", "auth", "approle">>, Str("t")), AuthAs("DELETE", <<"sys", "auth", "approle">>, Null),
     Proxy("execute_access_operation", "POST", <<"identity", "entity", "merge">>),
     Proxy("execute_access_operation", "GET", <<"sys", "raw">>),
     Proxy("execute_final_operation", "LIST", <<"sys", "leases", "lookup", "x", "">>),
     Proxy("execute_final_operation", "POST", <<"sys", "leases", "revoke-prefix", "x", "", "x">>),
     Proxy("execute_final_operation", "POST", <<"sys", "wrapping", "wrap">>),
     [Proxy("execute_final_operation", "POST", <<"sys", "wrapping", "wrap">>) EXCEPT
        !.fields.payload = Obj([data |-> NoFields])]}

ClusterArguments ==
    {Ask("seal", <<>>), Ask("leader_status", <<>>), Ask("seal", [key |-> Str("k")]),
     Ask("remove_raft_peer", [server_id |-> Str("n") @@ [server_id |-> TRUE]]),
     Ask("remove_raft_peer", [server_id |-> Whole(1)]), Ask("remove_raft_peer", <<>>),
     Ask("unseal", [key |-> Str("k")]), Ask("unseal", [reset |-> Bool(FALSE)]), Ask("unseal", [key |-> Long]),
     Ask("initialize", [secret_shares |-> Whole(5), secret_threshold |-> Whole(3), pgp_keys |-> Arr(<<Str("p")>>)]),
     Ask("initialize", [secret_shares |-> Whole(3), secret_threshold |-> Whole(5)]),
     Ask("initialize", [secret_shares |-> Whole(0), secret_threshold |-> Whole(0)]),
     Ask("join_raft", [leader_api_addr |-> Str("l") @@ [bare_https |-> TRUE], retry |-> Bool(TRUE)]),
     Ask("join_raft", [leader_api_addr |-> Str("l") @@ [bare_https |-> FALSE]]),
     Ask("restore_raft_snapshot", <<>>), Ask("list_auth_methods", <<>>),
     [Ask("seal", <<>>) EXCEPT !.bounded = FALSE]}

MountChanges ==
    {Engine("DELETE", <<"sys", "mounts", "kv-a">>), Engine("DELETE", <<"sys", "mounts", "kv_a">>),
     [Engine("POST", <<"sys", "mounts", "kv-a">>) EXCEPT !.fields.payload = NoFields @@ [engine |-> "strict"]],
     [Engine("POST", <<"sys", "remount">>) EXCEPT !.fields.payload =
         NoFields @@ [from |-> <<"team", "kv-a">>, to |-> <<"team">>]]}

SomeArguments(r) ==
    IF r = "first"
    THEN MountedArguments \union {Set(setting[1] :> setting[2]) : setting \in SettingValues}
         \union ProxyArguments \union ClusterArguments
    ELSE MountChanges \union {Write(<<"kv-a">>, Data), Write(<<"kv_a">>, Data)}

\* Reviewed operations alone, with and without a token of the caller's.
ReviewedArguments(r) ==
    {Auth("LIST", <<"sys", "auth">>), Auth("GET", <<"auth", "approle", "config">>),
     Auth("POST", <<"auth", "approle", "login">>), Auth("POST", <<"sys", "mfa", "validate">>),
     Auth("LIST", <<"identity", "mfa", "method">>),
     AuthAs("GET", <<"auth", "token", "lookup-self">>, Str("t")),
     Proxy("execute_access_operation", "LIST", <<"sys", "policies", "acl">>)}
    \union {Auth("LIST", <<"identity", "mfa", "login-enforcement">>)}
    \union {Auth(method, <<"identity", "mfa", "login-enforcement", "x">>) : method \in {"GET", "POST", "DELETE"}}

\* The schemas and values above with all their parts, to the depth they have.
RECURSIVE SchemasWithin(_)
SchemasWithin(schemas) ==
    LET parts == UNION {PartsOf(schema) : schema \in schemas}
    IN  IF parts \subseteq schemas THEN schemas ELSE SchemasWithin(schemas \union parts)
SomeSchemas == SchemasWithin(
    {SomeComponents[name] : name \in DOMAIN SomeComponents}
    \union UNION {{o.parameters[i].schema : i \in DOMAIN o.parameters}
                   \union (IF Has(o, "body") THEN {o.body} ELSE {}) :
                       o \in UNION {OperationsOfEngine(engine) : engine \in {"kv", "strict"}}})

RECURSIVE ValuesWithin(_)
ValuesWithin(values) ==
    LET parts == UNION {IF value.is = "object" THEN {value.fields[name] : name \in DOMAIN value.fields}
                        ELSE IF value.is = "array" THEN ToSet(value.items) ELSE {} : value \in values}
    IN  IF parts \subseteq values THEN values ELSE ValuesWithin(values \union parts)
SomeValues == ValuesWithin(
    {Str("a"), Str("b"), Whole(1), ListTrue}
    \union UNION {{q.fields["body"], q.fields["query"]} :
        q \in MountedArguments \union {Set(setting[1] :> setting[2]) : setting \in SettingValues}})

SomeNames == {"approle", "login", "login-x", "x", "my-self", "users", "token", "kv-a", "kv_a", "team"}
SomePlaceholders == [m \in SomeNames |-> IF m = "kv-a" THEN "kv_a" ELSE m]
=============================================================================
