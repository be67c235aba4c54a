------------------------------ MODULE Telemetry ------------------------------
(***************************************************************************)
(* The privacy processors of broker/telemetry.py and the order in which    *)
(* they, the application's own processors and FastAPI's native exporters   *)
(* are registered with the provider of a signal.  FastAPI's half, what it  *)
(* attaches at lifespan startup and emits for a request, is external.      *)
(***************************************************************************)
EXTENDS Naturals, Sequences

Signals == {"traces", "logs"}

VARIABLES
    settings,  \* environment and TelemetryConfig, fixed for the process
    provider,  \* the provider each signal goes to
    pipe,      \* the processors registered with it, in order
    observed   \* which processor saw what: [signal, processor, redacted]

vars == <<settings, provider, pipe, observed>>

SettingsType == [
    disabled: BOOLEAN,                          \* OTEL_SDK_DISABLED
    auto: BOOLEAN,                              \* auto_configure, or its environment variable
    on: SUBSET Signals,                         \* "tracing" and "logs" of the TelemetryConfig
    exporter: [Signals -> {"", "otlp", "none"}],
    endpoints: SUBSET ({"any"} \union Signals),
    explicit: SUBSET Signals]                   \* the signals whose provider is passed in

Kinds == {"proxy", "sdk", "foreign"}
Processors == {"early", "privacy", "native", "late"}

TypeOK ==
    /\ settings \in SettingsType
    /\ provider \in [Signals -> Kinds]
    /\ pipe \in [Signals -> Seq(Processors)]
    /\ observed \subseteq [signal: Signals, processor: Processors, redacted: BOOLEAN]

\* What the process may find: a provider passed in is not a proxy, and an SDK
\* provider may already carry a processor of the application.
Setups == {u \in [settings: SettingsType, provider: [Signals -> Kinds],
                  pipe: [Signals -> {<<>>, <<"early">>}]] :
             \A s \in Signals : /\ s \in u.settings.explicit => u.provider[s] # "proxy"
                                /\ u.provider[s] # "sdk" => u.pipe[s] = <<>>}

Begin(setup) ==
    /\ settings = setup.settings
    /\ provider = setup.provider
    /\ pipe = setup.pipe
    /\ observed = {}

\* create_app: OTEL_SDK_DISABLED overrides the TelemetryConfig.
AutoConfigure(s) == ~settings.disabled /\ settings.auto /\ s \in settings.on

\* _environment_export.  Mutant: a signal's own endpoint is forgotten.
EnvironmentExportAnyEndpoint(s) ==
    ~settings.disabled /\ settings.exporter[s] # "none" /\ "any" \in settings.endpoints
EnvironmentExport(s) ==
    /\ ~settings.disabled
    /\ settings.exporter[s] # "none"
    /\ settings.endpoints \intersect {"any", s} # {}

\* configure_log_privacy and configure_trace_privacy, with FastAPI() after both.
ProviderConfigured(s) ==
    IF provider[s] = "proxy" /\ s \notin settings.explicit /\ AutoConfigure(s) /\ EnvironmentExport(s)
    THEN "sdk" ELSE provider[s]

Configure ==
    /\ provider' = [s \in Signals |-> ProviderConfigured(s)]
    /\ pipe' = [s \in Signals |-> IF ProviderConfigured(s) = "sdk"
                                  THEN Append(pipe[s], "privacy") ELSE pipe[s]]
    /\ UNCHANGED <<settings, observed>>

\* External: automatic setup exports whatever has an endpoint, and makes the
\* provider it finds missing.
NativeExport(s) ==
    /\ AutoConfigure(s)
    /\ settings.exporter[s] # "none"
    /\ "any" \in settings.endpoints \/ s \in settings.endpoints
    /\ provider[s] \in {"sdk", "proxy"}

Lifespan ==
    /\ provider' = [s \in Signals |-> IF NativeExport(s) THEN "sdk" ELSE provider[s]]
    /\ pipe' = [s \in Signals |-> IF NativeExport(s) THEN Append(pipe[s], "native") ELSE pipe[s]]
    /\ UNCHANGED <<settings, observed>>

\* An application that embeds the broker registers one more processor.
RegisterLate(s) ==
    /\ provider[s] = "sdk"
    /\ \A i \in 1..Len(pipe[s]) : pipe[s][i] # "late"
    /\ pipe' = [pipe EXCEPT ![s] = Append(@, "late")]
    /\ UNCHANGED <<settings, provider, observed>>

\* The processors run in order, on a span as it starts and on a log record as
\* it is emitted; behind the privacy processor there is nothing left to see.
Seen(s) == {[signal |-> s, processor |-> pipe[s][i],
             redacted |-> \E j \in 1..i : pipe[s][j] = "privacy"] : i \in 1..Len(pipe[s])}

Emit(s) ==
    /\ observed' = IF s \in settings.on /\ ~settings.disabled THEN observed \union Seen(s) ELSE observed
    /\ UNCHANGED <<settings, provider, pipe>>

Filtered(s) == \E j \in 1..Len(pipe[s]) : pipe[s][j] = "privacy"
Guarded(s) == \A i \in 1..Len(pipe[s]) :
                 pipe[s][i] \in {"native", "late"} => \E j \in 1..i : pipe[s][j] = "privacy"

\* Whatever the environment and the application configure, no exporter FastAPI
\* attaches and no processor registered after create_app sees a raw path, a
\* query or an exception's text.
ExportsRedacted ==
    \A o \in observed : o.processor \in {"native", "late"} => o.redacted
=============================================================================
