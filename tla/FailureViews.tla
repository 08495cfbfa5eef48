----------------------------- MODULE FailureViews -----------------------------
(***************************************************************************)
(* packages/core/src/diagnostics.ts, triage.ts, metrics.ts and the health  *)
(* payload of server.ts: what is said about the failures of a log.         *)
(*                                                                         *)
(* The data of a failure event is its card: [failure, repeated, loop].  A  *)
(* card's cause follows from its type and from what the raw text matches.  *)
(***************************************************************************)
EXTENDS SideEffects, FailureClassification

Failures(log) == Of(log, "tool.call.failed")

-----------------------------------------------------------------------------
(* diagnostics.ts                                                          *)

\* inferPrimary: the first rule that fits.
Cause(failure, hint) ==
  IF failure = "spawn_failure" \/ hint = "not-found" THEN "missing-binary"
  ELSE IF failure = "cwd_mismatch" THEN "wrong-cwd"
  ELSE IF hint = "permission" THEN "permission-denied"
  ELSE IF failure = "invalid_arguments" THEN "schema-mismatch"
  ELSE IF failure = "malformed_json" \/ hint = "parse" THEN "protocol-parse-failure"
  ELSE IF failure = "timeout" THEN "deadline"
  ELSE IF failure \in {"destructive_action_blocked", "policy_blocked"} THEN "policy-block"
  ELSE IF failure = "output_limit_exceeded" THEN "output-budget"
  ELSE IF failure = "non_zero_exit" THEN "process-exit"
  ELSE IF failure = "unknown" THEN "unknown"
  ELSE failure

Boundary(cause) ==
  CASE cause \in {"missing-binary", "wrong-cwd", "permission-denied"} -> "environment"
    [] cause \in {"schema-mismatch", "deadline", "cancellation"} -> "caller"
    [] cause \in {"protocol-parse-failure", "sidecar_protocol_error"} -> "protocol"
    [] cause \in {"policy-block", "circuit_open"} -> "policy"
    [] cause \in UnsafeOutput -> "safety"
    [] cause \in {"process_crash", "process-exit"} -> "downstream"
    [] cause = "sidecar_unavailable" -> "adapter"
    [] cause = "output-budget" -> "core"
    [] OTHER -> "unknown"

-----------------------------------------------------------------------------
(* triage.ts                                                               *)

Fingerprint(log, i) ==
  LET r == RequestOf[log[i].call]
      cause == Cause(log[i].data.failure, r.hint)
  IN <<r.tool, log[i].data.failure, cause, Boundary(cause)>>

Groups(log) == { Fingerprint(log, i) : i \in Failures(log) }
Members(log, g) == { i \in Failures(log) : Fingerprint(log, i) = g }

\* The card shown for a group: of the latest occurrence.
LastMember(log, g) ==
  CHOOSE i \in Members(log, g) : \A j \in Members(log, g) :
    log[j].at < log[i].at \/ (log[j].at = log[i].at /\ j <= i)

RelatedLedger(log, ledger, g) ==
  { k \in DOMAIN ledger : \E i \in Members(log, g) : log[i].call = ledger[k].call }

Suspect(entry) ==
  \/ entry.effect = "unknown"
  \/ entry.reversibility = "irreversible-risk"
  \/ entry.label \in {"workspace-risk", "system-risk"}

\* Slip: only the ledger rows of the card that is shown count.
SeverityScoreOfLast(log, ledger, g) ==
  LET card == log[LastMember(log, g)].data
      points(cond, n) == IF cond THEN n ELSE 0
  IN points(card.failure \in UnsafeOutput \cup Blocked, 4)
     + points(\E k \in DOMAIN ledger : /\ ledger[k].call = log[LastMember(log, g)].call
                                       /\ Suspect(ledger[k]), 3)

\* assignSeverity.
SeverityScore(log, ledger, g) ==
  LET card == log[LastMember(log, g)].data
      points(cond, n) == IF cond THEN n ELSE 0
  IN points(card.failure \in {"destructive_action_blocked", "policy_blocked"}, 4)
     + points(card.failure = "secret_leak_risk", 4)
     + points(\/ card.loop = "loop-detected" \/ card.repeated > 1
              \/ Cardinality(Members(log, g)) > 1, 3)
     + points(\E k \in RelatedLedger(log, ledger, g) : Suspect(ledger[k]), 3)
     + points(card.failure \in DoNotRetrySameCall, 1)

Severity(log, ledger, g) ==
  LET score == SeverityScore(log, ledger, g) IN
  IF score >= 7 THEN "critical"
  ELSE IF score >= 4 THEN "high"
  ELSE IF score >= 2 THEN "medium"
  ELSE "low"

TriageState(log, ledger, g) ==
  IF Cardinality(Members(log, g)) > 1 THEN "grouped"
  ELSE IF Severity(log, ledger, g) \in {"critical", "high"} THEN "ready-to-file"
  ELSE "new"

TriageFailures(log) == MapThenSumSet(
  LAMBDA g : Cardinality(Members(log, g)), Groups(log))

-----------------------------------------------------------------------------
(* metrics.ts                                                              *)

Terminal == {"tool.call.completed", "tool.call.failed"}

\* A duration is observed for every terminal event after a start of its call.
DurationsObserved(log) ==
  Cardinality({ i \in DOMAIN log : /\ log[i].type \in Terminal
      /\ \E j \in 1 .. i : log[j].type = "tool.call.started" /\ log[j].call = log[i].call })

Metrics(log) ==
  [calls |-> Cardinality(Of(log, "tool.call.started")),
   failures |-> Cardinality(Failures(log)),
   sanitized |-> Cardinality(Of(log, "output.sanitized")),
   openCircuits |-> Cardinality(Of(log, "circuit.opened")),
   blocks |-> Cardinality({ i \in Of(log, "policy.decision") : log[i].data.kind = "block" }),
   durations |-> DurationsObserved(log)]

-----------------------------------------------------------------------------
(* /api/health                                                             *)

\* The findings of the run's latest preflight: a status for each tool.
\* Preflight events of single calls carry none.
Preflights(log) ==
  { i \in Of(log, "server.preflight.completed") : log[i].call = NoCall }
Findings(log) ==
  IF Preflights(log) = {} THEN <<>> ELSE log[Max(Preflights(log))].data.findings

ServerFailures(log, s) ==
  { i \in Failures(log) : RequestOf[log[i].call].server = s }

\* The row of a downstream server: the worst of its tools, its latest failure,
\* and a circuit that is shown open once any circuit of it was opened.
ServerRow(log, s) ==
  LET statuses == { Findings(log)[t] : t \in { t \in DOMAIN Findings(log) : t[1] = s } }
      last == ServerFailures(log, s)
  IN [status |-> IF "failed" \in statuses THEN "failed"
                 ELSE IF "degraded" \in statuses THEN "degraded" ELSE "healthy",
      failure |-> IF last = {} THEN "none" ELSE log[Max(last)].data.failure,
      circuit |-> IF \E i \in Of(log, "circuit.opened") : RequestOf[log[i].call].server = s
                  THEN "open" ELSE "closed"]

HealthSummary(log) ==
  [failures |-> Cardinality(Failures(log)),
   completed |-> Cardinality(Of(log, "tool.call.completed")),
   circuitOpen |-> Cardinality(Of(log, "circuit.opened"))]
=============================================================================
