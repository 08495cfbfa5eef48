--------------------------- MODULE VisibilityInterop ---------------------------
(***************************************************************************)
(* The visibility an event is given (visibility.ts), and its way out to     *)
(* OpenTelemetry and in from a JSONL file (visibility-interop.ts).          *)
(*                                                                         *)
(* Texts are kept where they decide something.  A traceparent is <<text>>   *)
(* as somebody wrote it, or generated from what its trace and its span are  *)
(* hashes of; hashes of different seeds, which are sequences, differ.       *)
(***************************************************************************)
EXTENDS Integers, Sequences, FiniteSets

NotGiven == "absent"

Levels == {"mediated", "supervised", "observed", "imported", "not-covered", "unknown"}

\* TRACEPARENT_PATTERN, and toLowerCase on what may be given.
Given == { <<"tp">>, <<"TP">>, <<"bad">>, <<>> }  \* <<>> is none at all
Lower(given) == IF given = <<"TP">> THEN <<"tp">> ELSE given
WellFormed(traceparent) == traceparent = <<"tp">> \/ Len(traceparent) > 1
Generated(trace, span) == <<"00", trace, span>>
Hash(seed) == <<"hash", seed>>

-----------------------------------------------------------------------------
(* The visibility of a call.                                               *)

\* SOURCE_VISIBILITY and visibilityLevelForCall.
SourceLevel(path) ==
  CASE path = "cli-wrapper" -> "supervised"
    [] path = "framework-adapter" -> "observed"
    [] OTHER -> "mediated"
LevelOf(call) == IF call.claim = NotGiven THEN SourceLevel(call.path) ELSE call.claim

\* traceContextForCall.
TraceContext(call) ==
  IF WellFormed(Lower(call.traceparent))
    THEN [traceparent |-> Lower(call.traceparent), source |-> "provided"]
    ELSE LET seed == <<call.trace, call.id, call.attempt>> IN
         [traceparent |-> Generated(seed, seed), source |-> "generated"]

\* buildVisibilityMetadata: a call that does not say otherwise is taken to
\* produce evidence.
MetadataOf(call) ==
  [level |-> LevelOf(call), claim |-> LevelOf(call), routeType |-> call.routeType,
   routeId |-> call.routeId, scope |-> call.scope,
   producing |-> call.producing \in {NotGiven, "true"}, context |-> TraceContext(call)]

\* visibilityLabels.
Labels(metadata) ==
  { metadata.level, metadata.claim,
    IF metadata.producing THEN "producing-evidence" ELSE "not-producing-evidence" }
  \cup ({metadata.scope, metadata.routeType} \ {NotGiven})

-----------------------------------------------------------------------------
(* To OpenTelemetry.                                                       *)

\* otelTraceId: an event without visibility has the hash of its own trace.
OtelTrace(event) ==
  IF ~event.visible \/ ~WellFormed(event.context.traceparent) THEN Hash(<<event.trace>>)
  ELSE IF event.context.traceparent \in Given THEN event.context.traceparent
  ELSE Hash(event.context.traceparent[2])

\* failureTypeForEvent and evidenceArtifactIdForEvent.
FailureOf(event) == IF event.type = "tool.call.failed" THEN event.failure ELSE NotGiven
ArtifactOf(event) == IF event.artifact # NotGiven THEN event.artifact ELSE event.dataArtifact

\* eventToSpan: the ids are hashes of the event's id and of its parent's.
Span(event) ==
  [trace |-> OtelTrace(event), span |-> Hash(<<event.id>>),
   parent |-> IF event.parent = NotGiven THEN <<>> ELSE Hash(<<event.parent>>),
   status |-> IF FailureOf(event) # NotGiven THEN "error"
              ELSE IF event.type = "run.completed" THEN "ok" ELSE "unset",
   links |-> IF ArtifactOf(event) = NotGiven THEN {} ELSE {ArtifactOf(event)}]

\* exportVisibilityOtel: a span for each event.
Export(events) == [k \in 1 .. Len(events) |-> Span(events[k])]

-----------------------------------------------------------------------------
(* From JSONL.                                                             *)

KnownTypes ==
  {"run.started", "run.completed", "adapter.connected", "server.preflight.started",
   "server.preflight.completed", "policy.decision", "tool.call.started", "tool.call.completed",
   "tool.call.failed", "tool.retry.scheduled", "side_effect.recorded", "blast_radius.scored",
   "retry_loop.detected", "circuit.opened", "circuit.closed", "output.sanitized",
   "evidence.artifact.created", "report.exported", "topology.generated", "narrative.generated",
   "policy.simulated", "integration.verified", "visibility.imported", "bundle.exported"}
RequiredFields == {"eventId", "type", "occurredAt", "summary", "runId", "traceId"}

\* A line: what it parses to, the schema versions it names, outside and inside
\* its visibility, the required fields that are nonempty texts, whether it has
\* a number, and whether the texts inside its visibility are texts.
Considered(lines) == { k \in 1 .. Len(lines) : lines[k].content # "blank" }

\* validateImportedEventShape, and JSON.parse before it.
ErrorOf(line) ==
  IF line.content = "noise" THEN "invalid_json"
  ELSE IF line.content = "value" THEN "not_object"
  ELSE IF line.schema = "other" THEN "unsupported_schema_version"
  ELSE IF ~RequiredFields \subseteq line.fields \/ ~line.sequence THEN "missing_required_field"
  ELSE IF line.type \notin KnownTypes THEN "invalid_event_type"
  ELSE IF line.visibility = "value" THEN "invalid_visibility"
  ELSE IF line.visibility = "object" /\ line.inner = "other" THEN "unsupported_schema_version"
  ELSE "none"

\* normalizeVisibility: whatever the line claims, the event is imported, and
\* transport evidence only.  The source is told by what was given, also if it
\* was not usable.
ImportedContext(line) ==
  [traceparent |-> IF line.traceparent = <<"tp">> THEN line.traceparent
                   ELSE Generated(<<line.trace>>, <<line.id>>),
   source |-> IF line.traceparent = <<>> THEN "generated" ELSE "provided"]
ImportedMetadata(line) ==
  [level |-> "imported", claim |-> "imported", routeType |-> "visibility-jsonl-import",
   routeId |-> "visibility-jsonl-import", scope |-> "transport", producing |-> FALSE,
   context |-> ImportedContext(line)]

\* normalizeImportedEvent: an id that has not the form of one is replaced, for
\* an event's, or left out, for the others.
FormOf(id, fresh) == IF id = "malformed" THEN fresh ELSE id
Normalised(line, fresh) ==
  [id |-> FormOf(line.id, fresh), trace |-> FormOf(line.trace, fresh), type |-> line.type,
   metadata |-> ImportedMetadata(line)]

\* importVisibilityEventsJsonl: every line on its own; a text inside the
\* visibility that is none ends the import with an exception, and the events
\* of the lines before it are already recorded.
Accepted(lines) == { k \in Considered(lines) : ErrorOf(lines[k]) = "none" }
Rejected(lines) == { k \in Considered(lines) : ErrorOf(lines[k]) # "none" }
Throwing(lines) ==
  { k \in Accepted(lines) : lines[k].visibility = "object" /\ ~lines[k].texts }
Recorded(lines) == { k \in Accepted(lines) : \A other \in Throwing(lines) : k < other }
Import(lines) ==
  IF Throwing(lines) # {} THEN [answered |-> FALSE, valid |-> FALSE, accepted |-> 0, rejected |-> 0]
  ELSE [answered |-> TRUE, valid |-> Rejected(lines) = {},
        accepted |-> Cardinality(Accepted(lines)), rejected |-> Cardinality(Rejected(lines))]
=============================================================================
