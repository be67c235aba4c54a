------------------------------ MODULE Admission ------------------------------
(***************************************************************************)
(* How a request gets to be sent to OpenBao: main() of broker/__main__.py  *)
(* starts the service or refuses to, uvicorn with broker/tls_scope.py      *)
(* gives every request the certificate of its connection,                  *)
(* broker/identity.py reads a name out of it, and `caller` and `authorize` *)
(* of broker/app.py hold it against the configuration of PathPolicy, while *)
(* the processors of Telemetry see what FastAPI tells of it.               *)
(*                                                                         *)
(* Connections are kept alive and their requests overlap.  TLS, uvicorn    *)
(* and FastAPI are external.  What is wrong with a body's shape, and what  *)
(* becomes of a request once it is sent, are Broker's.                     *)
(***************************************************************************)
EXTENDS PathPolicy

CONSTANTS
    Requests, Connections,
    Starts,        \* what the process may find: configuration, TLS files, credentials, telemetry
    Certificates,  \* of the client CA: the common names in a subject, in order
    InputsOf(_, _),  \* what each request may ask for, by what the process found
    NoTls,         \* the certificate of a client that was not asked for one
    None

Operations == {"read", "write", "delete", "versions", "metadata_read", "metadata_write",
               "administration"}

InputType == [op: Operations, path: Paths, family: Families \union {None}]

ASSUME CertificatesAssumption ==
    /\ Certificates \subseteq Seq(STRING)
    /\ None \notin Certificates /\ NoTls \notin Certificates /\ None # NoTls
ASSUME InputsAssumption ==
    \A s \in Starts, r \in Requests : InputsOf(s, r) \subseteq InputType
ASSUME StartsAssumption ==
    \A s \in Starts : /\ s.tls \subseteq {"cert", "key", "client_ca"}
                      /\ None \notin DOMAIN s.config.instances
                      /\ \A n \in DOMAIN s.config.instances : s.config.instances[n] \in SpecType

VARIABLES
    start,        \* what the process found
    process,      \* how far main() has come
    policies,     \* config.instances
    certificate,  \* what each client showed in its handshake
    ssl_object,   \* what each connection's protocol keeps of it
    stage,        \* where each request is
    input, origin,  \* what it asks for, and on which connection
    scope,        \* the certificate in the scope of each request
    caller,       \* the name it is known by
    record,       \* its record, if it is refused
    settings, provider, pipe, observed

T == INSTANCE Telemetry

ASSUME SetupsAssumption == \A s \in Starts : s.telemetry \in T!Setups

processVars == <<start, process, policies>>
connectionVars == <<certificate, ssl_object>>
requestVars == <<stage, input, origin, scope, caller, record>>
telemetryVars == <<settings, provider, pipe, observed>>
vars == <<processVars, connectionVars, requestVars, telemetryVars>>

NoRecord == [instance |-> None, path |-> None, outcome |-> "none"]

Init ==
    /\ start \in Starts
    /\ process = "configuring"
    /\ policies = <<>>
    /\ certificate = [c \in Connections |-> None]
    /\ ssl_object = [c \in Connections |-> None]
    /\ stage = [r \in Requests |-> "unseen"]
    /\ input = [r \in Requests |-> None]
    /\ origin = [r \in Requests |-> None]
    /\ scope = [r \in Requests |-> None]
    /\ caller = [r \in Requests |-> None]
    /\ record = [r \in Requests |-> NoRecord]
    /\ T!Begin(start.telemetry)

-----------------------------------------------------------------------------
(* main() *)

Proceed(next) == process' = next /\ UNCHANGED <<start, connectionVars, requestVars>>

LoadConfig ==
    /\ process = "configuring"
    /\ IF LoadOutcome(start.config) = "loaded"
       THEN /\ Proceed("checking_tls")
            /\ policies' = [n \in DOMAIN start.config.instances |->
                               InstancePolicy(start.config.instances[n])]
       ELSE Proceed("stopped") /\ UNCHANGED policies
    /\ UNCHANGED telemetryVars

\* Mutant: what is there of the TLS files is used.
TlsIfAny(tls) == tls # {}
TlsComplete(tls) == {"cert", "key", "client_ca"} \subseteq tls

CheckTls ==
    /\ process = "checking_tls"
    /\ Proceed(IF TlsComplete(start.tls) THEN "checking_credentials" ELSE "stopped")
    /\ UNCHANGED <<policies, telemetryVars>>

CheckCredentials ==
    /\ process = "checking_credentials"
    /\ Proceed(IF start.credentials THEN "creating" ELSE "stopped")
    /\ UNCHANGED <<policies, telemetryVars>>

CreateApp ==
    /\ process = "creating"
    /\ Proceed("created")
    /\ T!Configure
    /\ UNCHANGED policies

Serve ==
    /\ process = "created"
    /\ Proceed("serving")
    /\ T!Lifespan
    /\ UNCHANGED policies

RegisterProcessor ==
    /\ process \in {"created", "serving"}
    /\ \E s \in T!Signals : T!RegisterLate(s)
    /\ UNCHANGED <<processVars, connectionVars, requestVars>>

-----------------------------------------------------------------------------
(* uvicorn, and TLSAwareProtocol *)

\* uvicorn speaks TLS if it has a certificate or a key, and a handshake takes a
\* client certificate that the client CA has signed.
Shown == IF start.tls \intersect {"cert", "key"} = {} THEN {NoTls}
         ELSE IF "client_ca" \in start.tls THEN Certificates ELSE {}

\* connection_made.  Mutant: the object is kept by the class.
CaptureForClass(c, cert) == [d \in Connections |-> cert]
Capture(c, cert) == [ssl_object EXCEPT ![c] = cert]

Connect(c) ==
    /\ process = "serving"
    /\ certificate[c] = None
    /\ \E cert \in Shown :
          /\ certificate' = [certificate EXCEPT ![c] = cert]
          /\ ssl_object' = Capture(c, cert)
    /\ UNCHANGED <<processVars, requestVars, telemetryVars>>

\* A request line and headers have come in: the scope setter, and the start of
\* the request's span.
Receive(r, c, i) ==
    /\ stage[r] = "unseen"
    /\ certificate[c] # None
    /\ stage' = [stage EXCEPT ![r] = "received"]
    /\ input' = [input EXCEPT ![r] = i]
    /\ origin' = [origin EXCEPT ![r] = c]
    /\ scope' = [scope EXCEPT ![r] = ssl_object[c]]
    /\ T!Emit("traces")
    /\ UNCHANGED <<processVars, connectionVars, caller, record>>

\* A validation or handler exception of this request is logged by FastAPI.
LogException(r) ==
    /\ stage[r] = "received"
    /\ T!Emit("logs")
    /\ UNCHANGED <<processVars, connectionVars, requestVars>>

-----------------------------------------------------------------------------
(* identity.py, `caller` and `authorize` *)

\* common_name_from_peer_cert: the first that is not empty.
CommonName(cert) ==
    LET named == IF cert = NoTls THEN {} ELSE {i \in 1..Len(cert) : cert[i] # ""}
    IN  IF named = {} THEN None
        ELSE cert[CHOOSE i \in named : \A j \in named : i <= j]

Deny(r, instance, path) ==
    /\ stage' = [stage EXCEPT ![r] = "denied"]
    /\ record' = [record EXCEPT ![r] = [instance |-> instance, path |-> path, outcome |-> "denied"]]

Identify(r) ==
    /\ stage[r] = "received"
    /\ LET name == CommonName(scope[r])
       IN  IF name # None /\ name \in DOMAIN policies
           THEN /\ stage' = [stage EXCEPT ![r] = "identified"]
                /\ caller' = [caller EXCEPT ![r] = name]
                /\ UNCHANGED record
           ELSE Deny(r, name, None) /\ UNCHANGED caller
    /\ UNCHANGED <<processVars, connectionVars, input, origin, scope, telemetryVars>>

Writes(op) == op \in {"write", "metadata_write"}

\* authorize, on what `caller` resolved.
AuthorizePath(r, policy) ==
    LET path == input[r].path
    IN  IF ~Normal(path) THEN Deny(r, caller[r], None)
        ELSE IF \/ ~PermitsPath(policy, path)
                \/ Writes(input[r].op) /\ ~policy.may_write
                \/ input[r].op = "delete" /\ ~policy.may_delete
        THEN Deny(r, caller[r], path)
        ELSE stage' = [stage EXCEPT ![r] = "sent"] /\ UNCHANGED record

AuthorizeFamily(r, policy) ==
    IF input[r].family \in policy.families
    THEN stage' = [stage EXCEPT ![r] = "sent"] /\ UNCHANGED record
    ELSE Deny(r, caller[r], None)

Authorize(r) ==
    /\ stage[r] = "identified"
    /\ LET policy == policies[caller[r]]
       IN  IF input[r].op = "administration"
           THEN AuthorizeFamily(r, policy) ELSE AuthorizePath(r, policy)
    /\ UNCHANGED <<processVars, connectionVars, input, origin, scope, caller, telemetryVars>>

-----------------------------------------------------------------------------
Main == LoadConfig \/ CheckTls \/ CheckCredentials \/ CreateApp \/ Serve

Next == \/ Main
        \/ RegisterProcessor
        \/ \E c \in Connections : Connect(c)
        \/ \E r \in Requests : \/ \E c \in Connections, i \in InputsOf(start, r) : Receive(r, c, i)
                               \/ LogException(r) \/ Identify(r) \/ Authorize(r)

Spec == Init /\ [][Next]_vars

-----------------------------------------------------------------------------
(* Properties *)

Stages == {"unseen", "received", "identified", "denied", "sent"}
Processes == {"configuring", "checking_tls", "checking_credentials", "creating", "created",
              "serving", "stopped"}

Names == STRING \union {None}

TypeOK ==
    /\ start \in Starts
    /\ process \in Processes
    /\ certificate \in [Connections -> Certificates \union {NoTls, None}]
    /\ ssl_object \in [Connections -> Certificates \union {NoTls, None}]
    /\ stage \in [Requests -> Stages]
    /\ input \in [Requests -> InputType \union {None}]
    /\ origin \in [Requests -> Connections \union {None}]
    /\ scope \in [Requests -> Certificates \union {NoTls, None}]
    /\ caller \in [Requests -> Names]
    /\ record \in [Requests -> [instance: Names, path: Paths \union {None}, outcome: {"none", "denied"}]]
    /\ T!TypeOK

\* A connection keeps what its client showed, of which there is always something.
Connected(c) ==
    /\ ssl_object[c] = certificate[c]
    /\ certificate[c] # None => process = "serving" /\ certificate[c] \in Certificates

\* A request is handled as its connection's certificate says.
Handled(r) ==
    /\ stage[r] # "unseen" =>
          /\ origin[r] \in Connections
          /\ scope[r] = certificate[origin[r]]
          /\ scope[r] \in Certificates
          /\ input[r] \in InputType
    /\ stage[r] \in {"unseen", "received"} => caller[r] = None
    /\ caller[r] # None => caller[r] = CommonName(scope[r])
    /\ stage[r] = "identified" => caller[r] # None
    /\ stage[r] = "denied" => record[r].instance = CommonName(scope[r])

BeforeApp == {"configuring", "checking_tls", "checking_credentials", "creating", "stopped"}

\* Once the app is created no processor can come before the privacy processor.
Private(s) ==
    /\ process \in BeforeApp => /\ pipe[s] \in {<<>>, <<"early">>}
                                /\ s \in settings.explicit => provider[s] # "proxy"
    /\ process = "created" /\ T!NativeExport(s) => provider[s] = "sdk"
    /\ process \notin BeforeApp /\ provider[s] = "sdk" => T!Filtered(s)
    /\ T!Guarded(s)

Inductive ==
    /\ TypeOK
    /\ process \in {"checking_credentials", "creating", "created", "serving"} => TlsComplete(start.tls)
    /\ \A c \in Connections : Connected(c)
    /\ \A r \in Requests : Handled(r)
    /\ \A s \in T!Signals : Private(s)
    /\ T!ExportsRedacted

\* However requests of several clients overlap on connections that are kept
\* alive, each is handled under, and recorded under, a name in the certificate
\* its own client showed; none that the service serves is without one.
AttributedToItsClient ==
    \A r \in Requests : stage[r] # "unseen" =>
        LET shown == certificate[origin[r]]
        IN  /\ scope[r] = shown /\ shown # NoTls
            /\ caller[r] # None => \E i \in 1..Len(shown) : shown[i] = caller[r]
            /\ stage[r] = "denied" => record[r].instance \in ToSet(shown) \union {None}

\* What the file says of the client of a request.
Declared(r) == start.config.instances[CommonName(certificate[origin[r]])]
AllowedByFlags(r) ==
    /\ input[r].op \in {"write", "metadata_write"} => Declared(r).may_write
    /\ input[r].op = "delete" => Declared(r).may_delete

\* Exactly what an operator wrote into the file about a client is sent to
\* OpenBao on its behalf.  Whatever is sent denotes, decoded and resolved by
\* whoever is next, something at or beneath a prefix declared for that client,
\* and the operation is allowed; and a plain path there that the operation is
\* allowed on is not refused.
SendsWhatIsDeclared ==
    \A r \in Requests :
        /\ stage[r] = "sent" =>
              IF input[r].op = "administration"
              THEN input[r].family \in ToSet(Declared(r).families)
              ELSE WithinDeclared(Declared(r), input[r].path) /\ AllowedByFlags(r)
        /\ stage[r] = "denied" /\ record[r].instance \in DOMAIN start.config.instances =>
              IF input[r].op = "administration"
              THEN input[r].family \notin ToSet(Declared(r).families)
              ELSE ~(Plain(input[r].path) /\ WithinDeclared(Declared(r), input[r].path)
                     /\ AllowedByFlags(r))

\* Telemetry!ExportsRedacted, of the service as main() starts it.
ExportsRedacted == T!ExportsRedacted
=============================================================================
