--------------------------- MODULE AdminTransport ---------------------------
(***************************************************************************)
(* The transport of administration requests (broker/vault.py,              *)
(* _administration_request and _administration_json) and what its reports  *)
(* let a caller conclude.  A request that changes OpenBao may be applied   *)
(* although its answer is late, lost or unreadable, so the transport tells *)
(* three outcomes apart: "ok", "error" and "unknown", the last saying "Do  *)
(* not retry automatically".  OpenBao, the network and the caller are      *)
(* external: a caller tries an operation again only after an "error".      *)
(***************************************************************************)
EXTENDS Naturals, FiniteSets

CONSTANTS
    Operations,   \* the operations callers ask for
    Mutations,    \* those of them that change OpenBao
    MaxAttempts   \* bound: requests sent for one operation

ASSUME OperationsAssumption == Mutations \subseteq Operations
ASSUME MaxAttemptsAssumption == MaxAttempts \in Nat \ {0}

Attempts == 1..MaxAttempts

VARIABLES
    at,       \* where the current attempt at each operation is
    attempt,  \* its number
    wire,     \* what became of every attempt, on the network and at OpenBao
    report    \* what run() recorded and the caller was told

vars == <<at, attempt, wire, report>>

Places == {"idle", "headers", "waiting", "reading", "reported"}
Fates == {"unsent", "pending", "applied", "rejected"}

TypeOK ==
    /\ at \in [Operations -> Places]
    /\ attempt \in [Operations -> 0..MaxAttempts]
    /\ wire \in [Operations -> [Attempts -> Fates]]
    /\ report \in [Operations -> {"none", "ok", "error", "unknown"}]

Init ==
    /\ at = [o \in Operations |-> "idle"]
    /\ attempt = [o \in Operations |-> 0]
    /\ wire = [o \in Operations |-> [a \in Attempts |-> "unsent"]]
    /\ report = [o \in Operations |-> "none"]

Report(o, outcome) == /\ at' = [at EXCEPT ![o] = "reported"]
                      /\ report' = [report EXCEPT ![o] = outcome]
                      /\ UNCHANGED <<attempt, wire>>

\* VaultMutationUnknown for a mutation, some other VaultError for a read.
\* Mutant: the `if mutation` is forgotten.
ReportError(o) == Report(o, "error")
ReportInDoubt(o) == Report(o, IF o \in Mutations THEN "unknown" ELSE "error")

Current(o) == wire[o][attempt[o]]

-----------------------------------------------------------------------------
(* the caller *)

Submit(o) ==
    /\ at[o] = "idle" \/ report[o] = "error"
    /\ attempt[o] < MaxAttempts
    /\ at' = [at EXCEPT ![o] = "headers"]
    /\ attempt' = [attempt EXCEPT ![o] = @ + 1]
    /\ report' = [report EXCEPT ![o] = "none"]
    /\ UNCHANGED wire

-----------------------------------------------------------------------------
(* _administration_request *)

\* _get has no client to offer and its VaultError passes through, or the CA
\* bundle is gone and requests raises a plain OSError before it connects.
NoToken(o) == at[o] = "headers" /\ Report(o, "error")

\* RequestException before anything was sent; nobody can tell.
CannotConnect(o) == at[o] = "headers" /\ ReportInDoubt(o)

Send(o) ==
    /\ at[o] = "headers"
    /\ at' = [at EXCEPT ![o] = "waiting"]
    /\ wire' = [wire EXCEPT ![o][attempt[o]] = "pending"]
    /\ UNCHANGED <<attempt, report>>

\* RequestException: timeout=30 has passed or the connection broke.  The
\* request may still be on its way.
\* Mutant: no timeout.
AnswerAwaited(o) == at[o] = "waiting" /\ Current(o) = "rejected" /\ ReportInDoubt(o)
AnswerLost(o) == at[o] = "waiting" /\ ReportInDoubt(o)

\* A redirect is refused, never followed.  Mutant: it passes for an answer.
RedirectAccepted(o) == /\ at[o] = "waiting"
                       /\ Current(o) = "rejected"
                       /\ Report(o, "ok")
Redirected(o) == /\ at[o] = "waiting"
                 /\ Current(o) = "rejected"
                 /\ ReportInDoubt(o)

RejectedStatus(o) == /\ at[o] = "waiting"
                     /\ Current(o) = "rejected"
                     /\ Report(o, "error")

\* A 5xx says nothing about what OpenBao did before it failed.
ServerError(o) == /\ at[o] = "waiting"
                  /\ Current(o) \in {"applied", "rejected"}
                  /\ ReportInDoubt(o)

Accepted(o) ==
    /\ at[o] = "waiting"
    /\ Current(o) = "applied"
    /\ at' = [at EXCEPT ![o] = "reading"]
    /\ UNCHANGED <<attempt, wire, report>>

\* No content, an empty body or a JSON object.
BodyRead(o) == at[o] = "reading" /\ Report(o, "ok")

\* The body breaks off, is over the limit, is no JSON or no object.
BodyUnusable(o) == at[o] = "reading" /\ ReportInDoubt(o)

-----------------------------------------------------------------------------
(* OpenBao *)

Decide(o, a, fate) ==
    /\ wire[o][a] = "pending"
    /\ wire' = [wire EXCEPT ![o][a] = fate]
    /\ UNCHANGED <<at, attempt, report>>

Transport(o) ==
    \/ NoToken(o) \/ CannotConnect(o) \/ Send(o)
    \/ AnswerLost(o) \/ Redirected(o) \/ RejectedStatus(o) \/ ServerError(o)
    \/ Accepted(o) \/ BodyRead(o) \/ BodyUnusable(o)

Next == \E o \in Operations :
            \/ Submit(o)
            \/ Transport(o)
            \/ \E a \in Attempts, fate \in {"applied", "rejected"} : Decide(o, a, fate)

Spec == Init /\ [][Next]_vars

\* Every wait of the transport has a timeout; OpenBao owes it nothing.
FairSpec == Spec /\ \A o \in Operations : WF_vars(Transport(o))

-----------------------------------------------------------------------------
(* Properties *)

\* Relates the attempt under way to its fate; an earlier attempt at a mutation
\* ended in an "error", so it neither was applied nor still can be.
Tracked(o) ==
    /\ at[o] = "idle" <=> attempt[o] = 0
    /\ at[o] = "reported" <=> report[o] # "none"
    /\ at[o] = "headers" => Current(o) = "unsent"
    /\ at[o] = "reading" => Current(o) = "applied"
    /\ report[o] = "ok" => Current(o) = "applied"
    /\ \A a \in Attempts : a > attempt[o] => wire[o][a] = "unsent"
    /\ o \in Mutations /\ report[o] = "error" => Current(o) \in {"unsent", "rejected"}
    /\ o \in Mutations =>
         \A a \in Attempts : a < attempt[o] => wire[o][a] \in {"unsent", "rejected"}

Inductive == TypeOK /\ \A o \in Operations : Tracked(o)

\* A report is true of OpenBao.  A mutation reported as an "error" was not applied
\* and never will be: nothing of it is left on the network to be applied after the
\* report.  An operation reported as "ok" was applied.
ReportsTrue ==
    /\ \A o \in Mutations :
         report[o] = "error" => \A a \in Attempts : wire[o][a] \in {"unsent", "rejected"}
    /\ \A o \in Operations : report[o] = "ok" => \E a \in Attempts : wire[o][a] = "applied"

\* A caller that heeds "Do not retry automatically" never has a mutation applied
\* twice, not even by an attempt that arrives after its successor.
AppliedAtMostOnce ==
    \A o \in Mutations : \A a, b \in Attempts :
        wire[o][a] = "applied" /\ wire[o][b] \in {"applied", "pending"} => a = b

\* Every attempt is reported, whatever OpenBao and the network do.
EveryAttemptReported ==
    \A o \in Operations : (at[o] = "headers") ~> (at[o] = "reported")
=============================================================================
