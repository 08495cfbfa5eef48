----------------------------- MODULE ServerViews ------------------------------
(***************************************************************************)
(* What the core server (server.ts) shows of a run besides failures, graph  *)
(* and coverage: files of its directory, traces, impact, the export pages   *)
(* and the validation dashboard.  The views read the recorded events and    *)
(* ledger and the files as they are at that moment; wording is left out.    *)
(***************************************************************************)
EXTENDS Integers, Sequences, FiniteSets

Nothing == "none"

-----------------------------------------------------------------------------
(* Files.                                                                  *)

\* A path is the sequence of its parts; path.resolve reads them from a
\* directory on, and a path that starts at the root forgets the directory.
Up == ".."
Root == "/"

Resolve(dir, parts) ==
  LET At[k \in 0 .. Len(parts)] ==
        IF k = 0 THEN dir
        ELSE CASE parts[k] = Root -> IF k = 1 THEN <<>> ELSE At[k - 1]
               [] parts[k] = Up   -> IF At[k - 1] = <<>> THEN <<>>
                                     ELSE SubSeq(At[k - 1], 1, Len(At[k - 1]) - 1)
               [] OTHER           -> Append(At[k - 1], parts[k])
  IN At[Len(parts)]

\* filePath === runDir or filePath starts with runDir and a separator.
Within(dir, path) == Len(path) >= Len(dir) /\ SubSeq(path, 1, Len(dir)) = dir

\* serveRunFile, serveSafeArtifactFile: what a file is answered with.
Serve(dir, parts, files) ==
  LET path == Resolve(dir, parts) IN
  IF ~Within(dir, path) THEN 403 ELSE IF path \in files THEN 200 ELSE 404

ReportFiles == {"report.html", "manifest.json", "artifact-hashes.json",
                "redaction-summary.json"}

\* serveReportFile, serveBundleFile, serveArtifactFile: `own` says that the
\* run asked for is the session's or "latest".  A report file is one of four
\* names; a bundle file is any path below the bundle, raw ones marked as such;
\* an artifact is one an event recorded, where that event says it is.
ServeReportFile(own, dir, name, files) ==
  IF ~own \/ name \notin ReportFiles THEN 404 ELSE Serve(dir, <<name>>, files)
ServeBundleFile(own, dir, parts, files) ==
  IF ~own \/ parts = <<>> THEN 404 ELSE Serve(Append(dir, "bundle"), parts, files)
MarkedRaw(parts) == \E k \in 1 .. Len(parts) - 1 : parts[k] = "raw-untrusted"
ServeArtifact(own, dir, id, artifacts, files) ==
  IF ~own \/ \A a \in artifacts : a.id # id THEN 404
  ELSE Serve(dir, (CHOOSE a \in artifacts : a.id = id).parts, files)

-----------------------------------------------------------------------------
(* Traces.  An event has ids by kind, Nothing where it has no such id.      *)

\* buildTraceNodes: the kinds, and the kind an event's id of it hangs on.
KindNames == {"harness", "adapter", "downstream", "toolCall", "attempt",
              "policyDecision", "artifact"}
ParentKind(kind) ==
  CASE kind = "harness" -> Nothing
    [] kind = "adapter" -> "harness"
    [] kind = "downstream" -> "adapter"
    [] kind = "toolCall" -> "downstream"
    [] kind \in {"attempt", "artifact"} -> "toolCall"
    [] OTHER -> "attempt"

\* The ids a sequence of events names; each is a node.
NamedIds(events) ==
  (UNION { { events[i].ids[kind] : kind \in KindNames } : i \in 1 .. Len(events) }) \ {Nothing}

\* The first event with an id decides its kind and its parent.
FirstWith(events, id) ==
  CHOOSE i \in 1 .. Len(events) :
    /\ \E kind \in KindNames : events[i].ids[kind] = id
    /\ \A j \in 1 .. i - 1 : \A kind \in KindNames : events[j].ids[kind] # id
FirstKind(event, id) ==
  CHOOSE kind \in KindNames : event.ids[kind] = id
TraceParent(events, id) ==
  LET event == events[FirstWith(events, id)]
      parent == ParentKind(FirstKind(event, id))
  IN IF parent = Nothing THEN Nothing ELSE event.ids[parent]

\* buildTracePayload: "latest" is the trace of the first event that has one;
\* an unknown trace shows the whole run.
TraceId(events, requested) ==
  IF requested # "latest" THEN requested
  ELSE IF \A i \in 1 .. Len(events) : events[i].trace = Nothing THEN "trace:waiting"
  ELSE events[CHOOSE i \in 1 .. Len(events) :
                /\ events[i].trace # Nothing
                /\ \A j \in 1 .. i - 1 : events[j].trace = Nothing].trace
TraceEvents(events, requested) ==
  LET own(e) == e.trace = TraceId(events, requested)
      shown == SelectSeq(events, own)
  IN IF shown = <<>> THEN events ELSE shown
TraceStatus(events, requested) ==
  IF events = <<>> THEN "empty"
  ELSE IF \E i \in 1 .. Len(events) : events[i].trace = TraceId(events, requested)
    THEN "ready" ELSE "degraded"

\* mergedCorrelationFromEvents: of each kind the first id any event has, of
\* whichever call it is.
Correlation(events, kind) ==
  IF \A i \in 1 .. Len(events) : events[i].ids[kind] = Nothing THEN Nothing
  ELSE events[CHOOSE i \in 1 .. Len(events) :
                /\ events[i].ids[kind] # Nothing
                /\ \A j \in 1 .. i - 1 : events[j].ids[kind] = Nothing].ids[kind]

\* enrichArtifacts: content outside the run directory, or that cannot be read,
\* is left out; it is truncated if the first output limit recorded for it says.
ArtifactView(dir, artifact, files, limited) ==
  LET path == Resolve(dir, artifact.parts) IN
  [id |-> artifact.id, truncated |-> artifact.id \in limited,
   content |-> path # dir /\ Within(dir, path) /\ path \in files]

-----------------------------------------------------------------------------
(* The ledger, policies, exports and the dashboard.                        *)

\* buildImpactPayload.
ImpactSummary(ledger) ==
  LET Count(P(_)) == Cardinality({ k \in 1 .. Len(ledger) : P(ledger[k]) })
      IsReversible(e) == e.reversibility # "irreversible-risk"
      IsBlocked(e) == e.effect = "blocked"
      HasProcess(e) == e.process
      Changes[k \in 0 .. Len(ledger)] ==
        IF k = 0 THEN 0 ELSE Changes[k - 1] + Cardinality(ledger[k].changes)
      Paths[k \in 0 .. Len(ledger)] ==
        IF k = 0 THEN 0
        ELSE Paths[k - 1] + Cardinality(ledger[k].changes \cup ledger[k].writes)
  IN [entries |-> Len(ledger), observedChanges |-> Changes[Len(ledger)],
      safeAffectedPaths |-> Paths[Len(ledger)], processChildren |-> Count(HasProcess),
      reversible |-> Count(IsReversible), blocked |-> Count(IsBlocked)]

\* buildPolicyPayload: the preview of a draft; a limit that is not a number is 1.
PolicyPreview(retryLimit, timeoutMs) ==
  IF retryLimit < 0 \/ timeoutMs < 1 THEN "block"
  ELSE IF retryLimit = 0 THEN "allow" ELSE "retry"

\* buildReportDetailPayload: the report as it is on disk now beside what the
\* events say now.
ReportDetail(files, valid, events) ==
  [exists |-> "manifest.json" \in files, manifestValid |-> valid,
   artifacts |-> { i \in 1 .. Len(events) : events[i].type = "evidence.artifact.created" },
   failures |-> { i \in 1 .. Len(events) : events[i].type = "tool.call.failed" }]

\* buildBundlePayload: a manifest that cannot be read is no bundle; the files
\* are validated again, what the export found of the report is the manifest's.
BundlePayload(manifest, valid) ==
  IF manifest = Nothing
    THEN [exists |-> FALSE, health |-> "missing", hashes |-> "missing",
          redaction |-> "missing", replay |-> "missing", trust |-> "missing"]
    ELSE [exists |-> TRUE,
          health |-> IF valid /\ manifest.reportValid THEN "healthy" ELSE "failed",
          hashes |-> IF valid THEN "healthy" ELSE "failed",
          redaction |-> "healthy",
          replay |-> IF manifest.replaySafe THEN "healthy" ELSE "blocked",
          trust |-> IF valid /\ manifest.contained /\ manifest.rawApart
                      THEN "healthy" ELSE "failed"]

\* probeProcessHygiene: of the ten approved ports only the server's own may be
\* open.
ApprovedPorts == 3660 .. 3669
ProcessHygiene(open, own) ==
  IF (open \cap ApprovedPorts) \ {own} = {} THEN "pass" ELSE "fail"

\* buildValidationDashboardPayload; the first three checks are only advice.
\* The scan looks at what of five files is there, and at the story texts.
Dashboard(types, files, secrets, open, own) ==
  [tests |-> "warn", typecheck |-> "warn", lint |-> "warn",
   demo |-> IF {"run.started", "tool.call.failed"} \subseteq types THEN "pass" ELSE "warn",
   export |-> IF ~ {"report.html", "manifest.json"} \subseteq files THEN "fail"
              ELSE IF "bundle/manifest.json" \in files THEN "pass" ELSE "warn",
   noSecrets |-> IF secrets \cap files \cap
                      {"ledger.jsonl", "topology.json", "narrative.json",
                       "bundle/manifest.json", "bundle/replay-instructions.json"} = {}
                   THEN "pass" ELSE "fail",
   hygiene |-> ProcessHygiene(open, own)]
=============================================================================
