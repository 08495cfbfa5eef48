--------------------------- MODULE MCEvidenceBundle ---------------------------
(* Instances of EvidenceBundle for TLC.                                      *)
EXTENDS EvidenceBundle

CONSTANTS fixture, command, cli

Interchangeable == Permutations(Contents) \cup Permutations(Exports)

\* A fixture call that may be replayed, a command of the workspace that may
\* not, and a run of the command line wrapper that is only heard of.
MCEntryOf ==
  [c \in {fixture, command} |->
     IF c = fixture
       THEN [fixture |-> TRUE, reversibility |-> "fixture-only",
             effectState |-> "completed", endpoint |-> "none",
             routeConfig |-> "in-process"]
       ELSE [fixture |-> FALSE, reversibility |-> "manual-review",
             effectState |-> "unknown", endpoint |-> "none",
             routeConfig |-> "in-process"]]

\* The command may fail with a link in its message, and so may what the wrapper
\* forwards, in a text the issue packet leaves out.
MCTextsOf ==
  [c \in {fixture, command, cli} |->
     {"plain"} \cup (IF c = command THEN {"carded"} ELSE {})
               \cup (IF c = cli THEN {"shown"} ELSE {})]
MCPlainTexts == [c \in {fixture, command} |-> {"plain"}]

-----------------------------------------------------------------------------
(* Visibility, to OpenTelemetry and back from JSONL, and the derived files.  *)
Interop == INSTANCE BundleViews
Views == INSTANCE ServerViews

TracedCalls ==
  [path : {"mcp-adapter", "cli-wrapper"}, claim : {"absent", "observed"},
   traceparent : Interop!Given, trace : {"t"}, id : {"c1", "c2"}, attempt : {"a1", "a2"},
   routeType : {"absent", "mcp-routed"}, routeId : {"absent"}, scope : {"absent", "route"},
   producing : {"absent", "true", "false"}]
SpanOf(call, id) ==
  Interop!Span([visible |-> TRUE, context |-> Interop!TraceContext(call), trace |-> call.trace,
                id |-> id, parent |-> "p", type |-> "tool.call.failed", failure |-> "timeout",
                artifact |-> "absent", dataArtifact |-> "absent"])

\* The spans of one attempt are of one trace; a trace that was handed in is the
\* trace of all the attempts it was handed to.
ASSUME AttemptsAreTraces ==
  \A a, b \in TracedCalls :
    \/ a.id = b.id /\ a.attempt = b.attempt /\ a.traceparent = b.traceparent
    \/ {a.traceparent, b.traceparent} \subseteq { <<"tp">>, <<"TP">> }
    => SpanOf(a, "e1").trace = SpanOf(b, "e2").trace /\ SpanOf(a, "e1").span # SpanOf(b, "e2").span

\* Lines that are right but for at most one thing.
Line(id, traceparent) ==
  [content |-> "object", schema |-> "v1", fields |-> Interop!RequiredFields, sequence |-> TRUE,
   type |-> "tool.call.failed", visibility |-> "object", inner |-> "v1", texts |-> TRUE,
   traceparent |-> traceparent, trace |-> "t", id |-> id]
Spoiled(line) ==
  { [line EXCEPT !.content = c] : c \in {"blank", "noise", "value"} }
  \cup { [line EXCEPT !.schema = "other"], [line EXCEPT !.type = "unheard"],
         [line EXCEPT !.fields = @ \ {"summary"}], [line EXCEPT !.sequence = FALSE],
         [line EXCEPT !.visibility = "value"], [line EXCEPT !.inner = "other"],
         [line EXCEPT !.texts = FALSE], [line EXCEPT !.visibility = "absent", !.texts = FALSE] }
ImportLines == {Line("event_1", <<"tp">>), Line("malformed", <<"bad">>)}
               \cup Spoiled(Line("event_2", <<>>))
Files == UNION { [1 .. n -> ImportLines] : n \in 0 .. 3 }

\* A file is answered for or not at all, and only a file that is not can leave
\* events nobody was told of.
ASSUME ImportsAreAccountedFor ==
  \A file \in Files :
    LET import == Interop!Import(file) IN
    /\ import.answered => Cardinality(Interop!Recorded(file)) = import.accepted
    /\ import.accepted + import.rejected <= Len(file)
    /\ import.valid => import.rejected = 0

-----------------------------------------------------------------------------
(* The derived files of a bundle.                                          *)

Parts == {"..", "/", "bundle", "page"}
Paths == UNION { [1 .. n -> Parts] : n \in 0 .. 5 }

\* A path that passes for contained is below the bundle, wherever that is; one
\* that leaves the bundle does not pass.
ASSUME ContainedPathsStayBelow ==
  \A parts \in Paths :
    Interop!ContainedPath(parts) =>
      Views!Within(<<"run", "bundle">>, Views!Resolve(<<"run", "bundle">>, parts))

\* Of the routes and processes a bundle is made and validated under, exactly
\* the differences are objected to; unless the ledger of the bundle cannot be
\* parsed, when there must have been no routes.
Processes == [cwd : {"here", "there"}, packageManager : {"pnpm"}, fixtureSeed : {"v0", "v1"}]
LedgerLines == UNION { [1 .. n -> {"r1", "r2", "other", "noise"}] : n \in 0 .. 2 }
ASSUME DifferencesAreFound ==
  \A made, validating \in Processes, routes \in SUBSET {"r1", "r2"}, lines \in LedgerLines :
    LET file == Interop!FileOf(Interop!InputsOf(made, routes)) IN
    /\ Interop!Mismatches(file, validating, lines)
         = { f \in {"cwd", "packageManager", "fixtureSeed"} : made[f] # validating[f] }
           \cup { f \in {"routeConfigHash"} : Interop!RoutesRead(lines) # routes }
    /\ \A f \in {"cwd", "fixtureSeed", "routeConfigHash"} :
         Interop!Mismatches([file EXCEPT !.expected[f] = <<>>], validating, lines)
           = Interop!Mismatches(file, validating, lines)

\* No recipe of a run is offered for execution unless every entry of its
\* ledger is safe to repeat, and one of each class that is offered is there.
Entries ==
  UNION { [1 .. n -> { e \in [fixture : BOOLEAN, loopback : BOOLEAN, safe : BOOLEAN] :
                         e.safe => e.fixture \/ e.loopback }] : n \in 0 .. 3 }
ASSUME RecipesFollowTheLedger ==
  \A entries \in Entries, evidence \in BOOLEAN :
    LET offered == Interop!Executable(Interop!Reason(entries, evidence)) IN
    /\ offered # {} => \A k \in DOMAIN entries : entries[k].safe
    /\ "fixture" \in offered => \E k \in DOMAIN entries : entries[k].fixture
    /\ "loopback" \in offered => \E k \in DOMAIN entries : entries[k].loopback

\* Visible events and receipts that name passports and routes.
Metadata ==
  [level : {"observed"}, claim : {"observed"}, routeType : {"absent", "mcp-routed"},
   routeId : {"absent"}, scope : {"absent"}, producing : BOOLEAN,
   context : [traceparent : {<<"tp">>}, source : {"provided", "generated"}]]
SeenEvents ==
  UNION { [1 .. n -> [id : {"e"}, visible : BOOLEAN, passport : {"absent", "p1"},
                      metadata : Metadata]] : n \in 0 .. 2 }
GivenReceipts ==
  UNION { [1 .. n -> [id : {"r"}, passport : {"absent", "p1"}, smoke : {"passed", "failed"}]]
          : n \in 0 .. 2 }

\* A bundle's visibility has one context for each trace; of a passport it says
\* failed only if no event names the passport, however late the verification.
ASSUME VisibilityIsOfEvents ==
  \A events \in SeenEvents :
    /\ \A a, b \in Interop!TraceContexts(events) : a.traceparent = b.traceparent => a = b
    /\ (Interop!TraceContexts(events) = {}) = (Interop!Visible(events) = {})
    /\ \A receipts \in GivenReceipts : \A p \in Interop!PassportIds(receipts, events) :
         Interop!PassportStatus(receipts, events, p) = "failed" =>
           \A k \in Interop!Visible(events) : events[k].passport # p
===============================================================================
