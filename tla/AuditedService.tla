--------------------------- MODULE AuditedService ---------------------------
(***************************************************************************)
(* What the broker promises about every request but a health probe, with   *)
(* no pool, session or check in sight: it is recorded exactly once, the    *)
(* record is written before the answer leaves and agrees with it, and a    *)
(* request recorded as denied never reached OpenBao.                       *)
(***************************************************************************)
EXTENDS Sequences

CONSTANTS Requests

VARIABLES phase,      \* "unseen", "received", "recorded" or "answered"
          contacted,  \* the requests that reached OpenBao
          records,    \* the audit records of each request
          reply       \* the class of each request's HTTP status

vars == <<phase, contacted, records, reply>>

Outcomes == {"denied", "ok", "error", "unknown"}

\* The statuses a request recorded with outcome o may be answered with.
Replies(o) == CASE o = "ok" -> {"2xx"}
                [] o = "denied" -> {"4xx"}
                [] o = "error" -> {"4xx", "5xx"}
                [] o = "unknown" -> {"5xx"}

Init == /\ phase = [r \in Requests |-> "unseen"]
        /\ contacted = {}
        /\ records = [r \in Requests |-> <<>>]
        /\ reply = [r \in Requests |-> "none"]

Receive(r) == /\ phase[r] = "unseen"
              /\ phase' = [phase EXCEPT ![r] = "received"]
              /\ UNCHANGED <<contacted, records, reply>>

Contact(r) == /\ phase[r] = "received"
              /\ contacted' = contacted \union {r}
              /\ UNCHANGED <<phase, records, reply>>

Record(r, o) == /\ phase[r] = "received"
                /\ o = "denied" => r \notin contacted
                /\ o \in {"error", "unknown"} => r \in contacted
                /\ phase' = [phase EXCEPT ![r] = "recorded"]
                /\ records' = [records EXCEPT ![r] = <<o>>]
                /\ UNCHANGED <<contacted, reply>>

Answer(r) == /\ phase[r] = "recorded"
             /\ phase' = [phase EXCEPT ![r] = "answered"]
             /\ \E s \in Replies(records[r][1]) : reply' = [reply EXCEPT ![r] = s]
             /\ UNCHANGED <<contacted, records>>

Next == \E r \in Requests :
            \/ Receive(r) \/ Contact(r) \/ Answer(r)
            \/ \E o \in Outcomes : Record(r, o)

Spec == Init /\ [][Next]_vars
=============================================================================
