------------------------ MODULE AdminTransportProofs ------------------------
(***************************************************************************)
(* What a caller may conclude from a reported outcome, for any number of   *)
(* operations and of attempts at each.                                     *)
(***************************************************************************)
EXTENDS AdminTransport, TLAPS

\* The attempt under way at an operation that has one is a proper attempt.
LEMMA CurrentAttempt ==
  ASSUME TypeOK, NEW o \in Operations, attempt[o] # 0
  PROVE  attempt[o] \in Attempts
  BY MaxAttemptsAssumption DEF TypeOK, Attempts

LEMMA InitInductive == Init => Inductive
  BY OperationsAssumption, MaxAttemptsAssumption
  DEF Init, Inductive, TypeOK, Tracked, Current, Places, Fates, Attempts

\* A step at one operation leaves what is tracked of the others alone.
LEMMA OthersTracked ==
  ASSUME Inductive, NEW p \in Operations,
         at'[p] = at[p], attempt'[p] = attempt[p], wire'[p] = wire[p], report'[p] = report[p]
  PROVE  Tracked(p)'
  BY DEF Inductive, Tracked, Current

\* Reporting an outcome the fate of the attempt allows keeps the invariant.
LEMMA ReportKeepsInductive ==
  ASSUME Inductive, NEW o \in Operations, NEW outcome \in {"ok", "error", "unknown"},
         at[o] \in {"headers", "waiting", "reading"},
         Report(o, outcome),
         outcome = "ok" => Current(o) = "applied",
         o \in Mutations /\ outcome = "error" => Current(o) \in {"unsent", "rejected"}
  PROVE  Inductive'
<1>1. TypeOK /\ Tracked(o)
  BY DEF Inductive
<1>2. TypeOK'
  BY <1>1 DEF TypeOK, Places, Report
<1>3. ASSUME NEW p \in Operations, p # o PROVE Tracked(p)'
  <2>1. at'[p] = at[p] /\ attempt'[p] = attempt[p] /\ wire'[p] = wire[p] /\ report'[p] = report[p]
    BY <1>1, <1>3 DEF TypeOK, Report
  <2>2. QED  BY <2>1, OthersTracked
<1>4. Tracked(o)'
  BY <1>1 DEF TypeOK, Tracked, Report, Current
<1>5. QED  BY <1>2, <1>3, <1>4 DEF Inductive

\* Every transport step but Send and Accepted is such a report.
LEMMA TransportKeepsInductive ==
  ASSUME Inductive, NEW o \in Operations, Transport(o)
  PROVE  Inductive'
<1> USE DEF Report
<1>0. TypeOK /\ Tracked(o)
  BY DEF Inductive
<1>1. CASE Send(o)
  <2>1. attempt[o] \in Attempts /\ attempt[o] \in Nat
    <3>1. attempt[o] # 0
      BY <1>0, <1>1 DEF Tracked, Send
    <3>2. QED  BY <1>0, <3>1, CurrentAttempt, MaxAttemptsAssumption DEF Attempts
  <2>2. TypeOK'
    BY <1>0, <1>1, <2>1 DEF TypeOK, Send, Places, Fates
  <2>3. \A a \in Attempts : a # attempt[o] => wire'[o][a] = wire[o][a]
    BY <1>0, <1>1 DEF TypeOK, Send
  <2>4. at[o] = "headers" /\ at'[o] = "waiting" /\ attempt' = attempt /\ report' = report
    BY <1>0, <1>1 DEF TypeOK, Send
  <2>5. Tracked(o)'
    <3>1. report[o] = "none"
      BY <1>0, <2>4 DEF Tracked, TypeOK
    <3>2. \A a \in Attempts : a > attempt[o] \/ a < attempt[o] => a # attempt[o]
      BY <2>1 DEF Attempts
    <3>3. QED  BY <1>0, <2>3, <2>4, <3>1, <3>2 DEF Tracked, Current
  <2>6. ASSUME NEW p \in Operations, p # o PROVE Tracked(p)'
    <3>1. at'[p] = at[p] /\ attempt'[p] = attempt[p] /\ wire'[p] = wire[p] /\ report'[p] = report[p]
      BY <1>0, <1>1, <2>6 DEF TypeOK, Send
    <3>2. QED  BY <3>1, OthersTracked
  <2>7. QED  BY <2>2, <2>5, <2>6 DEF Inductive
<1>2. CASE Accepted(o)
  <2>1. TypeOK'
    BY <1>0, <1>2 DEF TypeOK, Accepted, Places
  <2>2. Tracked(o)'
    BY <1>0, <1>2 DEF TypeOK, Tracked, Accepted, Current
  <2>3. ASSUME NEW p \in Operations, p # o PROVE Tracked(p)'
    <3>1. at'[p] = at[p] /\ attempt'[p] = attempt[p] /\ wire'[p] = wire[p] /\ report'[p] = report[p]
      BY <1>0, <1>2, <2>3 DEF TypeOK, Accepted
    <3>2. QED  BY <3>1, OthersTracked
  <2>4. QED  BY <2>1, <2>2, <2>3 DEF Inductive
<1>3. CASE NoToken(o)
  BY <1>0, <1>3, ReportKeepsInductive DEF NoToken, Tracked
<1>4. CASE CannotConnect(o)
  BY <1>4, ReportKeepsInductive DEF CannotConnect, ReportInDoubt
<1>5. CASE AnswerLost(o)
  BY <1>5, ReportKeepsInductive DEF AnswerLost, ReportInDoubt
<1>6. CASE Redirected(o)
  BY <1>6, ReportKeepsInductive DEF Redirected, ReportInDoubt
<1>7. CASE RejectedStatus(o)
  BY <1>7, ReportKeepsInductive DEF RejectedStatus
<1>8. CASE ServerError(o)
  BY <1>8, ReportKeepsInductive DEF ServerError, ReportInDoubt
<1>9. CASE BodyRead(o)
  BY <1>0, <1>9, ReportKeepsInductive DEF BodyRead, Tracked
<1>10. CASE BodyUnusable(o)
  BY <1>10, ReportKeepsInductive DEF BodyUnusable, ReportInDoubt
<1>11. QED
  BY <1>1, <1>2, <1>3, <1>4, <1>5, <1>6, <1>7, <1>8, <1>9, <1>10 DEF Transport

\* A new attempt follows no attempt or one that ended in an "error".
LEMMA SubmitKeepsInductive ==
  ASSUME Inductive, NEW o \in Operations, Submit(o)
  PROVE  Inductive'
<1>0. TypeOK /\ Tracked(o)
  BY DEF Inductive
<1>1. attempt[o] \in Nat /\ attempt[o] < MaxAttempts
  BY <1>0, MaxAttemptsAssumption DEF TypeOK, Submit
<1>2. attempt'[o] = attempt[o] + 1 /\ wire' = wire /\ at'[o] = "headers" /\ report'[o] = "none"
  BY <1>0 DEF TypeOK, Submit
<1>3. attempt[o] + 1 \in Attempts
  BY <1>1, MaxAttemptsAssumption DEF Attempts
<1>4. TypeOK'
  BY <1>0, <1>1, MaxAttemptsAssumption DEF TypeOK, Submit, Places
<1>5. Tracked(o)'
  <2>1. \A a \in Attempts : a \in Nat
    BY MaxAttemptsAssumption DEF Attempts
  <2>2. \A a \in Attempts : a > attempt[o] + 1 \/ a = attempt[o] + 1 => a > attempt[o]
    BY <1>1, <2>1
  <2>3. \A a \in Attempts : a < attempt[o] + 1 => a < attempt[o] \/ a = attempt[o]
    BY <1>1, <2>1
  <2>4. at[o] = "idle" => \A a \in Attempts : ~(a < attempt[o] + 1)
    BY <1>0, <2>1, MaxAttemptsAssumption DEF Tracked, Attempts
  <2>5. o \in Mutations =>
          \A a \in Attempts : a < attempt[o] + 1 => wire[o][a] \in {"unsent", "rejected"}
    BY <1>0, <2>3, <2>4 DEF Tracked, Current, Submit
  <2>6. wire[o][attempt[o] + 1] = "unsent"
    BY <1>0, <1>3, <2>2 DEF Tracked
  <2>7. attempt[o] + 1 # 0
    BY <1>1
  <2>8. QED  BY <1>0, <1>2, <2>2, <2>5, <2>6, <2>7 DEF Tracked, Current
<1>6. ASSUME NEW p \in Operations, p # o PROVE Tracked(p)'
  <2>1. at'[p] = at[p] /\ attempt'[p] = attempt[p] /\ wire'[p] = wire[p] /\ report'[p] = report[p]
    BY <1>0, <1>6 DEF TypeOK, Submit
  <2>2. QED  BY <2>1, OthersTracked
<1>7. QED  BY <1>4, <1>5, <1>6 DEF Inductive

\* OpenBao decides only what is in flight, and nothing reported as an "error"
\* is.
LEMMA DecideKeepsInductive ==
  ASSUME Inductive, NEW o \in Operations, NEW a \in Attempts,
         NEW fate \in {"applied", "rejected"}, Decide(o, a, fate)
  PROVE  Inductive'
<1>0. TypeOK /\ Tracked(o)
  BY DEF Inductive
<1>1. TypeOK'
  BY <1>0 DEF TypeOK, Decide, Fates
<1>2. at' = at /\ attempt' = attempt /\ report' = report /\ wire[o][a] = "pending"
  BY DEF Decide
<1>3. wire'[o][a] = fate /\ \A b \in Attempts : b # a => wire'[o][b] = wire[o][b]
  BY <1>0 DEF TypeOK, Decide
<1>4. Tracked(o)'
  <2>1. a = attempt[o] \/ a > attempt[o] \/ a < attempt[o]
    BY <1>0, MaxAttemptsAssumption DEF TypeOK, Attempts
  <2>2. ~(a > attempt[o]) /\ ~(o \in Mutations /\ a < attempt[o])
    BY <1>0, <1>2 DEF Tracked
  <2>3. attempt[o] = a => /\ at[o] \notin {"headers", "reading"} /\ report[o] # "ok"
                          /\ ~(o \in Mutations /\ report[o] = "error")
    BY <1>0, <1>2 DEF Tracked, Current
  <2>4. \/ attempt[o] = a
        \/ at[o] \notin {"headers", "reading"} /\ report[o] = "none"
        \/ wire'[o][attempt[o]] = wire[o][attempt[o]]
    <3>1. attempt[o] # 0 => attempt[o] \in Attempts
      BY <1>0, CurrentAttempt
    <3>2. attempt[o] = 0 => at[o] = "idle" /\ report[o] = "none"
      BY <1>0 DEF Tracked
    <3>3. QED  BY <1>3, <3>1, <3>2
  <2>5. QED  BY <1>0, <1>2, <1>3, <2>1, <2>2, <2>3, <2>4 DEF Tracked, Current
<1>5. ASSUME NEW p \in Operations, p # o PROVE Tracked(p)'
  <2>1. at'[p] = at[p] /\ attempt'[p] = attempt[p] /\ wire'[p] = wire[p] /\ report'[p] = report[p]
    BY <1>0, <1>5 DEF TypeOK, Decide
  <2>2. QED  BY <2>1, OthersTracked
<1>6. QED  BY <1>1, <1>4, <1>5 DEF Inductive

LEMMA NextKeepsInductive == Inductive /\ [Next]_vars => Inductive'
<1> SUFFICES ASSUME Inductive, [Next]_vars PROVE Inductive'
  OBVIOUS
<1>1. CASE UNCHANGED vars
  BY <1>1 DEF Inductive, TypeOK, Tracked, Current, vars
<1>2. CASE Next
  BY <1>2, TransportKeepsInductive, SubmitKeepsInductive, DecideKeepsInductive DEF Next
<1>3. QED  BY <1>1, <1>2

\* The inductive invariant of the administration transport.
THEOREM TransportInductive == Spec => []Inductive
<1>1. QED  BY InitInductive, NextKeepsInductive, PTL DEF Spec

\* What is tracked of every operation makes its report true.
LEMMA InductiveReportsTrue == Inductive => ReportsTrue
<1> SUFFICES ASSUME Inductive PROVE ReportsTrue
  OBVIOUS
<1>1. ASSUME NEW o \in Mutations, report[o] = "error", NEW a \in Attempts
      PROVE  wire[o][a] \in {"unsent", "rejected"}
  <2>1. o \in Operations
    BY OperationsAssumption
  <2>2. TypeOK /\ Tracked(o)
    BY <2>1 DEF Inductive
  <2>3. a < attempt[o] \/ a = attempt[o] \/ a > attempt[o]
    BY <2>1, <2>2, MaxAttemptsAssumption DEF TypeOK, Attempts
  <2>4. QED  BY <1>1, <2>2, <2>3 DEF Tracked, Current
<1>2. ASSUME NEW o \in Operations, report[o] = "ok"
      PROVE  \E a \in Attempts : wire[o][a] = "applied"
  <2>1. TypeOK /\ Tracked(o)
    BY DEF Inductive
  <2>2. attempt[o] \in Attempts
    BY <1>2, <2>1, CurrentAttempt DEF Tracked
  <2>3. QED  BY <1>2, <2>1, <2>2 DEF Tracked, Current
<1>3. QED  BY <1>1, <1>2 DEF ReportsTrue

\* An "error" from _administration_request means that a mutation was not
\* applied and never will be, an "ok" that the operation was applied.
THEOREM TransportReportsTrue == Spec => []ReportsTrue
<1>1. QED  BY InductiveReportsTrue, TransportInductive, PTL

\* A caller that tries again only after an "error" has a mutation applied once.
THEOREM TransportAppliedAtMostOnce == Spec => []AppliedAtMostOnce
<1>1. Inductive => AppliedAtMostOnce
  <2> SUFFICES ASSUME Inductive, NEW o \in Mutations, NEW a \in Attempts, NEW b \in Attempts,
                      wire[o][a] = "applied", wire[o][b] \in {"applied", "pending"}
               PROVE  a = b
    BY DEF AppliedAtMostOnce
  <2>1. o \in Operations
    BY OperationsAssumption
  <2>2. TypeOK /\ Tracked(o)
    BY <2>1 DEF Inductive
  <2>3. ASSUME NEW c \in Attempts, wire[o][c] \in {"applied", "pending"}
        PROVE  c = attempt[o]
    <3>1. attempt[o] \in Nat
      <4>1. attempt[o] \in 0..MaxAttempts
        BY <2>1, <2>2 DEF TypeOK
      <4>2. QED  BY <4>1, MaxAttemptsAssumption
    <3>2. c \in Nat
      BY <2>3, MaxAttemptsAssumption DEF Attempts
    <3>3. c < attempt[o] \/ c = attempt[o] \/ c > attempt[o]
      BY <3>1, <3>2
    <3>4. QED  BY <2>2, <2>3, <3>3 DEF Tracked
  <2>4. a = attempt[o] /\ b = attempt[o]
    BY <2>3
  <2>5. QED  BY <2>4
<1>2. QED  BY <1>1, TransportInductive, PTL
=============================================================================
