------------------------------ MODULE BundleViews -------------------------------
(***************************************************************************)
(* What the files of an evidence bundle say besides the events themselves   *)
(* (bundle.ts): where copies of artifacts go, which links are contained,     *)
(* the visibility metadata, the replay recipes, and whether the environment *)
(* is still the one the bundle was made in.  EvidenceBundle says when these *)
(* files are written and hashed.                                            *)
(*                                                                         *)
(* A path is the sequence of its parts, "/" first if it is absolute.        *)
(***************************************************************************)
EXTENDS VisibilityInterop

-----------------------------------------------------------------------------
(* Paths and links.                                                        *)

\* isContainedRelativePath.
ContainedPath(parts) ==
  /\ parts # <<>> /\ parts[1] # "/"
  /\ \A k \in 1 .. Len(parts) : parts[k] # ".."

\* isContainedLink: an anchor, a page of the local server's API, or a path.
ContainedLink(link) ==
  CASE link.kind = "anchor" -> TRUE
    [] link.kind = "url" ->
         /\ link.protocol = "http" /\ link.host \in {"127.0.0.1", "localhost"}
         /\ link.port \in 3660 .. 3669 /\ link.api
    [] OTHER -> ContainedPath(link.parts)

\* validateContainedLinks looks at the texts among the files the manifest names.
UnsafeLinks(files) ==
  { f \in DOMAIN files : files[f].ending \in {".md", ".html", ".json"}
                           /\ \E link \in files[f].links : ~ContainedLink(link) }

\* resolveArtifactSourcePath, of what path.resolve makes of the relative path.
SourceAllowed(runDir, parts, resolved) ==
  /\ parts = <<>> \/ parts[1] # "/"
  /\ Len(resolved) >= Len(runDir) /\ SubSeq(resolved, 1, Len(runDir)) = runDir

\* copyEvidenceArtifacts: a copy has the artifact's id in its name, and what
\* came from downstream as it was goes to a directory of its own.
IsRaw(kind) == kind \in {"raw-result", "raw-stdout", "raw-stderr"}
CopyTarget(artifact) ==
  IF IsRaw(artifact.kind)
    THEN <<"evidence", "raw-untrusted", <<artifact.id, "raw-untrusted", artifact.base>>>>
    ELSE <<"evidence", <<artifact.id, artifact.base>>>>
RawPaths(artifacts) == { CopyTarget(a) : a \in { b \in artifacts : IsRaw(b.kind) } }

-----------------------------------------------------------------------------
(* What is told of events and ledger.  Of an entry it counts whether it      *)
(* belongs to a loop, is a fixture's, is a loopback's, and is safe to repeat. *)

\* buildBlastRadius, buildRetryLoops.
BlastRadius(entries) == [k \in 1 .. Len(entries) |-> entries[k].score]
RetryLoops(entries) == { k \in 1 .. Len(entries) : entries[k].loop }

\* isFailureCard, buildContextMetrics, buildDiagnostics: a failure that was
\* ingested without a card is not shown.
HasCard(event) == event.type = "tool.call.failed" /\ event.card
Diagnosed(events) == { k \in 1 .. Len(events) : HasCard(events[k]) }
MeasuredSuccesses(events) ==
  { k \in 1 .. Len(events) : events[k].type = "tool.call.completed" /\ events[k].impact }

\* replayDecision, the reason it gives.
Reason(entries, evidence) ==
  LET places == 1 .. Len(entries) IN
  IF ~evidence \/ entries = <<>> \/ \E k \in places : ~entries[k].safe THEN "withheld"
  ELSE IF \A k \in places : entries[k].fixture THEN "fixture"
  ELSE IF \A k \in places : entries[k].loopback THEN "loopback"
  ELSE "both"

\* buildReplayRecipes: the classes that may be executed.
Executable(reason) ==
  { class \in {"fixture", "loopback"} : reason \in {class, "both"} }

-----------------------------------------------------------------------------
(* Visibility metadata.                                                    *)

Visible(events) == { k \in 1 .. Len(events) : events[k].visible }
LastOf(S) == CHOOSE k \in S : \A other \in S : other <= k

\* The labels of all events.
BundleLabels(events) == UNION { Labels(events[k].metadata) : k \in Visible(events) }

\* The passport of an id: what the last event that names it makes of it, and
\* only if no event does the one of the last receipt, whichever came later.
Naming(seq, id) == { k \in 1 .. Len(seq) : seq[k].passport = id }
PassportIds(receipts, events) ==
  ({ receipts[k].passport : k \in 1 .. Len(receipts) }
     \cup { events[k].passport : k \in Visible(events) }) \ {NotGiven}
PassportStatus(receipts, events, id) ==
  LET named == Naming(events, id) \cap Visible(events) IN
  IF named # {}
    THEN IF events[LastOf(named)].metadata.producing THEN "passed" ELSE "not-run"
    ELSE receipts[LastOf(Naming(receipts, id))].smoke

\* A receipt for each receipt and for each event that names a route.
CoverageReceipts(receipts, events) ==
  { <<"receipt", receipts[k].id>> : k \in 1 .. Len(receipts) }
  \cup { <<"event", events[k].id>> :
           k \in { j \in Visible(events) : events[j].metadata.routeType # NotGiven } }

\* One context for each traceparent, the last event's.
TraceContexts(events) ==
  LET Of(k) == events[k].metadata.context
      Last(k) == \A j \in Visible(events) : Of(j).traceparent = Of(k).traceparent => j <= k
  IN { Of(k) : k \in { j \in Visible(events) : Last(j) } }

-----------------------------------------------------------------------------
(* Reproducibility.                                                        *)

\* currentReproducibilityInputs: the process it runs in, and the routes of the
\* ledger; routes have one hash only if they are the same.
RouteHash(routes) == <<"hash", routes>>
InputsOf(process, routes) ==
  [cwd |-> process.cwd, packageManager |-> process.packageManager,
   fixtureSeed |-> process.fixtureSeed, routes |-> routes, routeConfigHash |-> RouteHash(routes)]

\* buildReproducibilityChecks: every check compares a value with itself.  A
\* field of the file is <<value>>, or <<>> if it is not there.
FileOf(inputs) ==
  LET written == [name \in DOMAIN inputs |-> <<inputs[name]>>]
  IN [readable |-> TRUE, expected |-> written, checks |-> written]

\* expectedReproducibilityInputs: a value that is missing is taken from the
\* check of its name, and is else no value of anything; routes have no check.
ExpectedOf(file, name) ==
  IF file.expected[name] # <<>> THEN file.expected[name] ELSE file.checks[name]
ExpectedRoutes(file) == UNION { file.expected.routes[k] : k \in DOMAIN file.expected.routes }

\* readBundleLedger: lines that are no entries are left out, and one that
\* cannot be parsed leaves nothing.
RoutesRead(lines) ==
  IF \E k \in 1 .. Len(lines) : lines[k] = "noise" THEN {}
  ELSE { lines[k] : k \in 1 .. Len(lines) } \ {"other"}

\* validateReproducibilityFile, against the process that validates; a file
\* that cannot be read has nothing to object to.
Mismatches(file, process, lines) ==
  LET actual == InputsOf(process, RoutesRead(lines))
      Differs(name, value) == ExpectedOf(file, name) # <<value>>
  IN IF ~file.readable THEN {}
     ELSE { name \in {"cwd", "packageManager", "fixtureSeed"} : Differs(name, actual[name]) }
          \cup { name \in {"routeConfigHash"} :
                   \/ Differs(name, RouteHash(ExpectedRoutes(file)))
                   \/ Differs(name, actual.routeConfigHash) }
=============================================================================
