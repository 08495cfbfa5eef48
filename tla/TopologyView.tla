----------------------------- MODULE TopologyView -----------------------------
(***************************************************************************)
(* packages/core/src/topology.ts: the graph of a run, and the recovery     *)
(* status its narrative gives, from the log and the ledger.  A node or an  *)
(* edge is what its identifier says; labels and correlation are left out.  *)
(* A ledger entry is known by its place, an artifact by call and attempt   *)
(* and kind.                                                               *)
(***************************************************************************)
EXTENDS SideEffects

\* sourceEventsFor: events of this core's run, without those that only
\* announce a graph or a narrative.
SourceEvents(log) ==
  { i \in DOMAIN log : /\ RunOf(log[i]) = "own"
                       /\ log[i].type \notin {"topology.generated", "narrative.generated"} }

\* sourceLedgerFor: an entry counts by itself or by the event that carries it.
SourceLedger(log, ledger) ==
  { k \in DOMAIN ledger : RequestOf[ledger[k].call].run = "own" }

-----------------------------------------------------------------------------
(* Identifiers.                                                            *)

RunNode(kind, c) ==
  <<kind, RequestOf[c][IF kind = "server" THEN "server" ELSE "path"]>>
ToolNode(c) == <<"tool", RequestOf[c].server, RequestOf[c].tool>>
AttemptNode(c, n) == <<"attempt", c, n>>
PolicyNode(c, n) == <<"policy", c, n>>
ArtifactNode(c, n, kind) == <<"artifact", c, n, kind>>
CircuitNode(c) == <<"circuit", RequestOf[c].server, c>>
EffectNode(k) == <<"effect", k>>
ReportNode(i) == <<"report", i>>

\* The call whose ids an event carries.  adapter.connected names harness,
\* adapter and server of a call but not the call, the preflight of the run
\* harness and adapter only.
RunPreflights == {"server.preflight.started", "server.preflight.completed"}
ContextOf(event) ==
  IF event.call # NoCall THEN event.call
  ELSE IF event.type = "adapter.connected" THEN event.data.kind
  ELSE IF event.type \in RunPreflights THEN event.data.seed
  ELSE NoCall
ContextKinds(event) ==
  {"harness", "adapter"}
  \cup (IF event.call = NoCall /\ event.type \in RunPreflights THEN {} ELSE {"server"})

\* Events whose data is a policy decision: a retry and a circuit carry one.
Circuits == {"circuit.opened", "circuit.closed"}
Decides(event) == /\ event.type \in {"policy.decision", "tool.retry.scheduled"} \cup Circuits
                  /\ ~event.copied
Stops(event) ==
  event.type = "policy.decision" /\ event.data.kind \in {"block", "fail-fast"}
EventNodes(log, i) ==
  LET e == log[i]  c == e.call  x == ContextOf(e) IN
       (IF x = NoCall THEN {} ELSE { RunNode(k, x) : k \in ContextKinds(e) })
  \cup (IF c = NoCall THEN {} ELSE {ToolNode(c), AttemptNode(c, e.attempt)})
  \cup (IF Decides(e) THEN {PolicyNode(c, e.attempt)} ELSE {})
  \cup (IF e.type = "evidence.artifact.created"
          THEN {ArtifactNode(c, e.attempt, e.data.kind)} ELSE {})
  \cup (IF e.type \in Circuits THEN {CircuitNode(c)} ELSE {})
  \cup (IF e.type = "report.exported" THEN {ReportNode(i)} ELSE {})

\* The attempt a retry follows: the one of the call's latest earlier event.
Previous(log, i) ==
  LET earlier == { j \in SourceEvents(log) : j < i /\ log[j].call = log[i].call } IN
  IF earlier = {} THEN {} ELSE {log[Max(earlier)].attempt}

EventEdges(log, i) ==
  LET e == log[i]  c == e.call  x == ContextOf(e)  a == AttemptNode(c, e.attempt) IN
       (IF x = NoCall THEN {}
        ELSE {<<"routed", RunNode("harness", x), RunNode("adapter", x)>>}
             \cup { <<"routed", RunNode("adapter", x), RunNode(k, x)>> :
                      k \in ContextKinds(e) \cap {"server"} })
  \cup (IF c = NoCall THEN {}
        ELSE {<<"routed", RunNode("server", c), ToolNode(c)>>,
              <<"routed", ToolNode(c), a>>})
  \cup (IF Decides(e) THEN {<<"caused-by", a, PolicyNode(c, e.attempt)>>} ELSE {})
  \cup (IF Stops(e) THEN {<<"blocked-by", a, PolicyNode(c, e.attempt)>>} ELSE {})
  \cup (IF e.type = "evidence.artifact.created"
          THEN {<<"produced", a, ArtifactNode(c, e.attempt, e.data.kind)>>} ELSE {})
  \cup (IF e.type = "output.sanitized"
          THEN {<<"sanitized-to", a, ArtifactNode(c, e.attempt, "raw-result")>>} ELSE {})
  \cup (IF e.type = "tool.retry.scheduled"
          THEN { <<"retried-as", AttemptNode(c, n), a>> : n \in Previous(log, i) } ELSE {})
  \cup (IF e.type \in Circuits THEN {<<"caused-by", CircuitNode(c), a>>} ELSE {})

LedgerEdges(ledger, k) ==
  LET entry == ledger[k] IN
  {<<"caused-by", EffectNode(k), AttemptNode(entry.call, entry.attempt)>>}
  \cup { <<"produced", EffectNode(k), ArtifactNode(entry.call, x[1], x[2])>> :
           x \in entry.artifacts }

Nodes(log, ledger) ==
  (UNION { EventNodes(log, i) : i \in SourceEvents(log) })
  \cup { EffectNode(k) : k \in SourceLedger(log, ledger) }

\* addEdge leaves out an edge from a node to itself.
Edges(log, ledger) ==
  { e \in (UNION { EventEdges(log, i) : i \in SourceEvents(log) })
          \cup (UNION { LedgerEdges(ledger, k) : k \in SourceLedger(log, ledger) }) :
      e[2] # e[3] }

-----------------------------------------------------------------------------
(* Status, summary, narrative.                                             *)

Ranks == <<"healthy", "evidence-ready", "degraded", "failed", "blocked", "retry-loop">>

EventStatus(e) ==
  IF e.type = "retry_loop.detected" THEN 6
  ELSE IF Stops(e) \/ e.type = "circuit.opened" THEN 5
  ELSE IF \/ e.type = "tool.call.failed"
          \/ e.type = "server.preflight.completed" /\ e.call # NoCall /\ e.data.kind = "failed"
    THEN 4
  ELSE IF e.type = "output.sanitized" THEN 3
  ELSE IF e.type \in {"evidence.artifact.created", "report.exported"} THEN 2
  ELSE 1

\* strongerStatus over everything that touched the node; a policy node takes
\* from an event its decision only.
NodeStatus(log, n) ==
  LET rank(e) == IF n[1] = "policy" THEN (IF Stops(e) THEN 5 ELSE 1) ELSE EventStatus(e) IN
  Ranks[Max({1} \cup { rank(log[i]) :
                         i \in { i \in SourceEvents(log) : n \in EventNodes(log, i) } })]

EffectStatus(entry) ==
  CASE entry.loop = "loop-detected" -> "retry-loop"
    [] entry.effect = "blocked" -> "blocked"
    [] entry.effect \in {"unknown", "partial"} -> "degraded"
    [] OTHER -> "healthy"

TopologyFailures(log) ==
  Cardinality({ i \in SourceEvents(log) : log[i].type = "tool.call.failed" })

RecoveryStatus(log, ledger) ==
  LET seen(type) == \E i \in SourceEvents(log) : log[i].type = type IN
  IF seen("circuit.opened") THEN "circuit"
  ELSE IF \E k \in SourceLedger(log, ledger) : ledger[k].loop = "loop-detected" THEN "loop"
  ELSE IF seen("tool.retry.scheduled") THEN "retry"
  ELSE IF seen("tool.call.failed") THEN "failed-safely"
  ELSE IF seen("tool.call.completed") THEN "completed"
  ELSE "waiting"
=============================================================================
