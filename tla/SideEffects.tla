----------------------------- MODULE SideEffects -----------------------------
(***************************************************************************)
(* packages/core/src/side-effects.ts and observed-impact.ts: what a ledger *)
(* entry says about the effect of an attempt, from the request, the outcome *)
(* and, where the call names a workspace, from looking at it before and    *)
(* after.  The contents of a workspace are two numbers, one of which changes *)
(* with each write: that of what a look at it covers, and that of the rest. *)
(***************************************************************************)
EXTENDS CoreEvents, Integers

EffectStates == {"none", "planned", "blocked", "simulated", "completed",
                 "partial", "unknown"}
Labels == <<"contained", "limited", "workspace-risk", "system-risk">>
Containments == {"destructive_action_blocked", "policy_blocked", "circuit_open"}

\* Names first, then the path, then the registered tool.
TargetType(r) ==
  IF r.subject = "report" THEN "report-artifact"
  ELSE IF r.subject = "git" THEN "git"
  ELSE IF r.path = "framework-adapter" THEN "python-framework-tool"
  ELSE IF r.path = "cli-wrapper" THEN "process"
  ELSE IF r.risk = "high" THEN "filesystem"
  ELSE IF r.protocol = "http" THEN "network-loopback"
  ELSE IF r.protocol = "mcp" THEN "mcp-tool"
  ELSE IF r.protocol = "browser" THEN "ui-action"
  ELSE IF r.protocol = "fixture" THEN "filesystem"
  ELSE "process"

Reversibility(r) ==
  IF r.risk = "high" /\ ~r.fixtureOnly THEN "irreversible-risk"
  ELSE IF r.fixtureOnly THEN "fixture-only"
  ELSE IF r.risk = "medium" THEN "manual-review"
  ELSE "reversible"

\* effectState of inferSideEffect.
InferEffect(r, outcome, failure) ==
  IF outcome = "retry" THEN "planned"
  ELSE IF outcome = "blocked" \/ failure \in Containments THEN "blocked"
  ELSE IF outcome = "completed"
    THEN IF r.fixtureOnly /\ r.risk # "none" THEN "simulated" ELSE "completed"
  ELSE IF failure \in {"timeout", "cancellation"} THEN "unknown"
  ELSE "none"

-----------------------------------------------------------------------------
(* Blast radius.                                                           *)

TargetScore(t) ==
  CASE t = "filesystem" -> 35 [] t = "git" -> 45 [] t = "network-loopback" -> 30
    [] t \in {"report-artifact", "ui-action"} -> 20 [] OTHER -> 25

StateScore(s) ==
  CASE s = "planned" -> 10 [] s = "simulated" -> 5 [] s = "completed" -> 25
    [] s = "partial" -> 35 [] s = "unknown" -> 20 [] OTHER -> 0

ReversibilityScore(v) ==
  CASE v = "manual-review" -> 20 [] v = "irreversible-risk" -> 35 [] OTHER -> 0

RiskScore(k) ==
  CASE k = "low" -> 5 [] k = "medium" -> 15 [] k = "high" -> 30 [] OTHER -> 0

ContainmentScore(failure) ==
  CASE failure \in {"destructive_action_blocked", "policy_blocked"} -> -15
    [] failure = "circuit_open" -> -10
    [] OTHER -> 0

Clamp(n, low, high) == IF n < low THEN low ELSE IF n > high THEN high ELSE n

BlastRadius(r, state, failure) ==
  Clamp(TargetScore(TargetType(r)) + StateScore(state)
          + ReversibilityScore(Reversibility(r)) + RiskScore(r.risk)
          + ContainmentScore(failure), 0, 100)

LabelOf(score) ==
  IF score >= 75 THEN Labels[4]
  ELSE IF score >= 50 THEN Labels[3]
  ELSE IF score >= 25 THEN Labels[2]
  ELSE Labels[1]

-----------------------------------------------------------------------------
(* Observed impact.                                                        *)

\* Where a tool may write: to what a look covers, or to what it passes over.
\* In a temporary directory that is .git, node_modules, dist, coverage, bundle,
\* run_* and run-index.jsonl wherever they are, a directory or file that cannot
\* be listed or examined, and all that comes after the first 500 entries; in a
\* repository it is what git ignores.
Places == {"covered", "passed"}

\* Slip: files are compared by name, so that a change of one does not show.
LookAtNames(r, content) == IF r.workspace = "git" THEN Min({content.covered, 1}) ELSE 0

\* What a look at a workspace tells: the hash of every file it covers of a
\* temporary directory; in a repository which files git reports, where a
\* further change of a changed file does not show; elsewhere nothing.
Look(r, content) ==
  CASE r.workspace = "temp" -> content.covered
    [] r.workspace = "git"  -> Min({content.covered, 1})
    [] OTHER -> 0

NoImpact == [seen |-> FALSE, changed |-> FALSE]
Impact(r, before, after) ==
  IF r.workspace = "none" THEN NoImpact
  ELSE [seen |-> TRUE, changed |-> Look(r, before) # Look(r, after)]

\* outcome of the impact: chooseImpactOutcome.
ImpactOutcome(impact, state) ==
  CASE state = "unknown" /\ ~impact.changed -> "none"
    [] state # "unknown" /\ impact.changed  -> "completed"
    [] OTHER -> state

\* effectState of the entry: unknown is cleared by an impact that saw nothing.
EffectState(r, outcome, failure, impact) ==
  LET state == InferEffect(r, outcome, failure) IN
  IF state = "unknown" /\ impact.seen /\ ImpactOutcome(impact, "unknown") = "none"
    THEN "none" ELSE state

Attribution(state, impact) ==
  IF state = "blocked" THEN "blocked-before-execution"
  ELSE IF impact.changed THEN "observed-after"
  ELSE IF impact.seen THEN "observed-caused"
  ELSE IF state = "unknown" THEN "unknown"
  ELSE "inferred-risk"

LoopClass(repeated, scheduledRetry) ==
  IF repeated >= 3 THEN "loop-detected"
  ELSE IF scheduledRetry THEN "recovery-retry"
  ELSE "none"

\* #recordSideEffect: the entry of one attempt.
LedgerEntry(c, n, outcome, failure, impact, loop, artifacts) ==
  LET r == RequestOf[c]
      state == EffectState(r, outcome, failure, impact)
      score == BlastRadius(r, state, failure)
  IN [call |-> c, attempt |-> n, artifacts |-> artifacts,
      target |-> TargetType(r), effect |-> state,
      reversibility |-> Reversibility(r), label |-> LabelOf(score),
      attribution |-> Attribution(state, impact), loop |-> loop,
      \* counterEvidence: a postflight observation found no mutation
      unmutated |-> state # "blocked" /\ impact.seen /\ ~impact.changed]
=============================================================================
