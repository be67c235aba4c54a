------------------------------ MODULE MCBroker ------------------------------
(* Broker on a few requests of every route and every kind of refusal. *)
EXTENDS Broker

Asking(route, faults) == [route |-> route, faults |-> faults]

\* One fault at each stage of each route, and requests with two at once, so
\* that the order of the checks matters.
AuditedInputs ==
    {Asking("secret", f) : f \in {{}, {"syntax", "identity"}, {"schema", "instance"}, {"schema"},
                                  {"path"}, {"prefix", "permission"}, {"permission"}}}
    \union {Asking("administration", f) : f \in {{}, {"digest", "uncaught"}, {"operation", "family"}}}
    \union {Asking("contract", f) : f \in {{}, {"identity"}, {"family"}}}
    \union {Asking("health", {})}

\* POST /v1/administration/request naming download_raft_snapshot, which is in
\* the registry but has no argument list.
AllInputs == AuditedInputs \union {Asking("administration", {"uncaught"})}
=============================================================================
