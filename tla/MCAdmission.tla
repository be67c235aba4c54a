---------------------------- MODULE MCAdmission ----------------------------
(***************************************************************************)
(* Admission with three instances, one of them read-only, whose prefixes   *)
(* are textual prefixes of each other and of nothing; configurations,      *)
(* files and settings with which the service must not start; and paths     *)
(* joined from every kind of segment.                                      *)
(***************************************************************************)
EXTENDS Admission, TLC

Spec1(prefixes, write, delete, families) ==
    [prefixes |-> prefixes, may_write |-> write, may_delete |-> delete, families |-> families]

Instances ==
    [prod |-> Spec1(<<<<"a">>, <<"b", "/", "a">>>>, TRUE, FALSE, <<"cluster">>),
     staging |-> Spec1(<<<<"a", "b">>>>, TRUE, TRUE, <<>>),
     reporting |-> Spec1(<<<<"a", "/", "b">>>>, FALSE, FALSE, <<>>)]

Config(instances) == [file |-> TRUE, toml |-> TRUE, url |-> TRUE, instances |-> instances]
Good == Config(Instances)

Solo(spec) == Config([prod |-> spec])
BadConfigs ==
    {[Good EXCEPT !.file = FALSE], [Good EXCEPT !.toml = FALSE], [Good EXCEPT !.url = FALSE],
     Config(<<>>), Solo(Spec1(<<>>, TRUE, TRUE, <<>>)),
     Solo(Spec1(<<<<"/", "a">>>>, TRUE, TRUE, <<>>)),
     Solo(Spec1(<<<<"a", "/">>>>, TRUE, TRUE, <<>>)),
     Solo(Spec1(<<<<"a">>>>, TRUE, TRUE, <<"unknown">>)),
     Solo(Spec1(<<<<"a">>>>, TRUE, TRUE, <<"cluster", "cluster">>))}

Trio == {"cert", "key", "client_ca"}

\* Both signals alike but for their endpoints.
SomeSetups ==
    {[settings |-> [disabled |-> d, auto |-> a, on |-> o, exporter |-> [s \in T!Signals |-> x],
                    endpoints |-> e, explicit |-> g],
      provider |-> [s \in T!Signals |-> k], pipe |-> [s \in T!Signals |-> q]] :
        d \in BOOLEAN, a \in BOOLEAN, o \in {{}, T!Signals}, x \in {"", "none"},
        e \in {{}, {"any"}, {"logs"}}, g \in {{}, T!Signals},
        k \in T!Kinds, q \in {<<>>, <<"early">>}}

Quiet == [settings |-> [disabled |-> FALSE, auto |-> FALSE, on |-> T!Signals,
                        exporter |-> [s \in T!Signals |-> ""], endpoints |-> {}, explicit |-> {}],
          provider |-> [s \in T!Signals |-> "proxy"], pipe |-> [s \in T!Signals |-> <<>>]]

Start(config, tls, credentials, telemetry) ==
    [config |-> config, tls |-> tls, credentials |-> credentials, telemetry |-> telemetry]
Usual == Start(Good, Trio, TRUE, Quiet)
SomeStarts ==
    {Usual, [Usual EXCEPT !.credentials = FALSE]}
    \union {[Usual EXCEPT !.tls = tls] : tls \in SUBSET Trio}
    \union {[Usual EXCEPT !.config = config] : config \in BadConfigs}
    \union {[Usual EXCEPT !.telemetry = setup] : setup \in SomeSetups \intersect T!Setups}

\* The last two: no name, and an empty name before one of no instance.
SomeCertificates == {<<"prod">>, <<"staging">>, <<"reporting">>, <<>>, <<"", "other">>}

PathsOfSegments ==
    LET Segment == {<<"a">>, <<"a", "b">>, <<"b">>, <<>>, <<".">>, <<".", ".">>,
                    <<"%2e", "%2e">>, <<"a", "%2f", "b">>, <<"\\">>, <<"odd">>}
        Joined(S, U) == {s \o <<"/">> \o u : s \in S, u \in U}
    IN  Segment \union Joined({<<"a">>, <<"b">>, <<"a", "b">>}, Segment)
          \union Joined({<<"a", "/", ".", ".">>, <<"a", "/", "%2e", "%2e">>}, Segment)

Ask(op, path) == [op |-> op, path |-> path, family |-> None]
Administer(family) == [op |-> "administration", path |-> <<>>, family |-> family]

Few == {Ask("write", <<"a", "b">>), Administer("cluster")}
Many == {Ask("read", path) : path \in PathsOfSegments}
          \union {Ask(op, <<"a", "/", "b">>) : op \in Operations \ {"read", "administration"}}
          \union {Ask(op, <<"a", "b", "/", "a">>) : op \in {"write", "delete", "metadata_write"}}
          \union {Administer(family) : family \in Families}

\* Nothing but a request's origin tells connections apart.
ConnectionsAlike == Permutations(Connections)

\* Every path once, while another request overlaps; one request where it is the
\* telemetry that differs.
First == CHOOSE r \in Requests : TRUE
InputsByStart(s, r) ==
    IF s.telemetry = Quiet THEN (IF r = First THEN Many ELSE Few)
    ELSE IF r = First THEN {Administer("cluster")} ELSE {}
============================================================================
