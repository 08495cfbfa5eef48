---------------------------- MODULE ServerRequests ----------------------------
(***************************************************************************)
(* How the core server (server.ts) takes a request: the methods a path      *)
(* allows, the body, the checks of each endpoint, the call a sidecar        *)
(* request stands for, and the status it is answered with.                  *)
(*                                                                         *)
(* A path is its pattern; of a body it counts whether it could be read and  *)
(* whether it says what the endpoint needs.                                 *)
(***************************************************************************)
EXTENDS Integers, Sequences

Absent == "absent"    \* a field that is not there
Invalid == "invalid"  \* a field that is no text, or an empty one

-----------------------------------------------------------------------------
(* Methods.                                                                *)

ReadPaths ==
  {"/health", "/metrics", "/events", "/api/runs/latest", "/api/run-index", "/api/runs",
   "/api/health", "/api/validation-dashboard", "/api/failures", "/api/impact", "/api/triage",
   "/api/triage/issue-packet", "/api/integrations", "/api/story", "/api/evidence",
   "/api/bundle", "/api/reports", "/api/reports/:run", "/api/traces/:trace",
   "/api/runs/:run/evidence", "/api/bundles/:run/files/:file",
   "/api/reports/:run/files/:file", "/api/reports/:run/artifacts/:artifact"}

\* A GET that makes something: a graph, a narrative, a report.
MakePaths == {"/api/topology/:run", "/api/narrative/:run", "/api/reports/export"}

PostPaths ==
  {"/api/triage/export", "/api/policy/simulate", "/api/integrations/verify",
   "/api/visibility/import/http", "/api/visibility/import/browser", "/api/story/reset",
   "/api/bundle/export", "/api/events/ingest", "/api/sidecar/v1/tool-calls"}

Endpoints == ReadPaths \cup MakePaths \cup PostPaths \cup {"/api/policies", "/api/replay"}
Methods == {"GET", "POST", "PUT", "DELETE", "OPTIONS"}

\* PUBLIC_API_ALLOWED_METHODS and allowedMethodsForPublicApiPath.
AllowedMethods(path) ==
  CASE path \in PostPaths -> {"POST"}
    [] path = "/api/policies" -> {"GET", "PUT"}
    [] path = "/api/replay" -> {"GET", "POST"}
    [] OTHER -> {"GET"}

-----------------------------------------------------------------------------
(* Bodies.                                                                 *)

\* What may come of reading a body: nothing is an empty object.
Bodies == {"object", "empty", "tooLong", "malformed", "notObject"}
Readable(body) == body \in {"object", "empty"}

\* readJsonBody: too much is refused while it is read.
BodyStatus(body) == IF body = "tooLong" THEN 413 ELSE 400

\* The paths that name a run: only the session's own, "latest", and for graph
\* and narrative the two demo runs.
RunStatus(path, run) ==
  CASE run \in {"own", "latest"} -> 200
    [] run = "demo" /\ path \in {"/api/topology/:run", "/api/narrative/:run"} -> 200
    [] OTHER -> 404

-----------------------------------------------------------------------------
(* POST /api/replay.                                                       *)

ReplayRequests ==
  [fixtureOnly : BOOLEAN, dryRun : BOOLEAN, loopback : BOOLEAN, realWorld : BOOLEAN,
   destructive : BOOLEAN, known : BOOLEAN]

\* handleReplayRequest; a tool that is no fixture is replaced by one.
ReplayVerdict(q) ==
  IF ~q.destructive /\ (q.dryRun \/ (q.loopback /\ ~q.realWorld)) THEN "preview"
  ELSE IF ~q.fixtureOnly \/ q.realWorld \/ q.destructive THEN "blocked"
  ELSE IF ~q.known THEN "missing"
  ELSE "run"

\* The recipes buildReplayPayload offers.
Recipe(mode, fixtureOnly, loopback, dryRun, risk) ==
  [mode |-> mode, fixtureOnly |-> fixtureOnly, loopback |-> loopback, dryRun |-> dryRun,
   risk |-> risk]
Recipes ==
  {Recipe("execute", TRUE, FALSE, FALSE, "none"), Recipe("loopback", FALSE, TRUE, FALSE, "none"),
   Recipe("dry-run", FALSE, FALSE, TRUE, "low"), Recipe("blocked", FALSE, FALSE, FALSE, "high")}

\* runReplay of the replay lab: the request it makes of a recipe.
ReplayRequestFor(recipe) ==
  [fixtureOnly |-> recipe.fixtureOnly,
   dryRun |-> recipe.mode = "dry-run" \/ recipe.dryRun,
   loopback |-> recipe.mode = "loopback" \/ recipe.loopback,
   realWorld |-> recipe.mode \notin {"dry-run", "loopback"} /\ ~recipe.fixtureOnly,
   destructive |-> recipe.risk = "high" \/ recipe.mode = "blocked",
   known |-> TRUE]

\* The status of a replay: failed says that the tool failed.
ReplayStatus(q, failed) ==
  CASE ReplayVerdict(q) = "preview" -> 200
    [] ReplayVerdict(q) = "blocked" -> 409
    [] ReplayVerdict(q) = "missing" -> 404
    [] OTHER                        -> IF failed THEN 200 ELSE 201

-----------------------------------------------------------------------------
(* POST /api/sidecar/v1/tool-calls.                                        *)

\* A payload names its protocol, its tool and has arguments or not.
SidecarPayloads ==
  [protocol : BOOLEAN, tool : {Absent, Invalid, "known", "unknown"}, arguments : BOOLEAN]

\* readSidecarJsonBody, validateSidecarPayload and the protocol check: the
\* payload is looked at only if it speaks the protocol.
SidecarStatus(body, payload) ==
  IF ~Readable(body) THEN BodyStatus(body)
  ELSE IF body = "empty" \/ ~payload.protocol THEN 426
  ELSE IF payload.tool \in {Absent, Invalid} \/ ~payload.arguments THEN 400
  ELSE 200

\* Every refusal is a failed call; a request that is taken is executed.
SidecarCall(body, payload) ==
  IF SidecarStatus(body, payload) = 200 THEN "execute" ELSE "sidecar_protocol_error"

\* stringFrom, stableIdFrom and `a ?? b`.
StringFrom(value, fallback) == IF value \in {Absent, Invalid} THEN fallback ELSE value
OrElse(a, b) == IF a = Absent THEN b ELSE a

\* makeSidecarToolCall, makeSidecarFailureToolCall: an identity is the
\* client's if it is given and can be used, and else a fresh one; the
\* payload's own field goes before the correlation's, also an unusable one.
SidecarIdentity(payloadField, correlationField, fresh) ==
  StringFrom(OrElse(payloadField, correlationField), fresh)

\* The idempotency of a sidecar call: what is not named otherwise may be retried.
SidecarIdempotency(value) ==
  IF value \in {"non-idempotent", "unknown"} THEN value ELSE "idempotent"

\* routeMetadataFrom: field by field what the client says, if it is one of
\* the values known, over what the sidecar assumes of a call.
SidecarRoute ==
  [routeType |-> "sdk-wrapped-python", claim |-> "observed", scope |-> "route",
   producing |-> TRUE]
RouteMetadata(value) ==
  LET known == [claim |-> {"mediated", "supervised", "observed", "imported", "not-covered",
                           "unknown"},
                scope |-> {"route", "harness", "host-config"}]
  IN [routeType |-> IF value.routeType = Absent THEN SidecarRoute.routeType ELSE value.routeType,
      claim |-> IF value.claim \in known.claim THEN value.claim ELSE SidecarRoute.claim,
      scope |-> IF value.scope \in known.scope THEN value.scope ELSE SidecarRoute.scope,
      producing |-> IF value.producing = Absent THEN SidecarRoute.producing
                    ELSE value.producing = "true"]

-----------------------------------------------------------------------------
(* The answer.                                                             *)

\* Requests other than those of the sidecar and of replay: `wellFormed` says
\* that the body names what the endpoint needs, `found` that the scenario, file
\* or artifact it names is there.
Requests ==
  [path : Endpoints \ {"/api/replay", "/api/sidecar/v1/tool-calls"}, method : Methods,
   body : Bodies, run : {"own", "latest", "demo", "other"}, wellFormed : BOOLEAN,
   found : BOOLEAN]

NamesRun(path) ==
  path \in {"/api/topology/:run", "/api/narrative/:run", "/api/reports/:run",
            "/api/bundles/:run/files/:file", "/api/reports/:run/files/:file",
            "/api/reports/:run/artifacts/:artifact"}
NamesFile(path) ==
  path \in {"/api/triage/issue-packet", "/api/bundles/:run/files/:file",
            "/api/reports/:run/files/:file", "/api/reports/:run/artifacts/:artifact"}

\* An export of triage reads no body; a draft of a policy that cannot be read
\* is taken for none; an import takes any object.
NeedsBody(path) == path \in PostPaths \ {"/api/triage/export"}
NeedsContent(path) ==
  path \in {"/api/policy/simulate", "/api/integrations/verify", "/api/story/reset",
            "/api/events/ingest"}

NotFound(q) ==
  \/ q.path = "/api/story/reset" /\ ~q.found
  \/ q.path = "/api/runs/:run/evidence" /\ q.run # "own"
  \/ NamesRun(q.path) /\ RunStatus(q.path, q.run) = 404
  \/ NamesFile(q.path) /\ ~q.found

Status(q) ==
  IF q.method = "OPTIONS" THEN 204
  ELSE IF q.method \notin AllowedMethods(q.path) THEN 405
  ELSE IF NeedsBody(q.path) /\ ~Readable(q.body) THEN BodyStatus(q.body)
  ELSE IF NeedsContent(q.path) /\ (~q.wellFormed \/ q.body = "empty") THEN 400
  ELSE IF NotFound(q) THEN 404
  ELSE IF q.path \in {"/api/visibility/import/http", "/api/visibility/import/browser",
                      "/api/events/ingest"} THEN 202
  ELSE 200
=============================================================================
