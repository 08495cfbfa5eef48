----------------------------- MODULE CoverageView -----------------------------
(***************************************************************************)
(* The coverage matrix of /api/integrations (server.ts): which routes and   *)
(* hosts are claimed to be available, on what evidence, and how fresh it    *)
(* is.                                                                     *)
(*                                                                         *)
(* The data of integration.verified is the receipt.                        *)
(***************************************************************************)
EXTENDS CoreEvents, Receipts

CONSTANTS
  Hour  \* the recent-evidence window, in ticks

ASSUME CoverageAssumption == Hour \in Nat

-----------------------------------------------------------------------------
(* Which events count.                                                     *)

\* visibility.routeType of an event: emitted with a call, it is the call's.
RouteOf(event) ==
  IF event.call = NoCall \/ event.copied THEN "none" ELSE RequestOf[event.call].route

\* isCoverageEvent: of any entry of the inventory (parseCoverageRouteId).
IsCoverageEvent(event) ==
  event.type = "integration.verified" \/ RouteOf(event) \in Inventory

\* Slip: the history keeps receipts only.
IsReceiptEvent(event) == event.type = "integration.verified"

\* isCoverageHistoryEvent of the recorder: any route type will do.
IsHistoryEvent(event) ==
  event.type = "integration.verified" \/ RouteOf(event) # "none"

\* mergeCoverageEvents: history and log by event id, in order of time.
Merge(history, log) ==
  { e \in history \cup ToSet(log) : IsCoverageEvent(e) }

Receipts(events, route) ==
  { e \in events : e.type = "integration.verified" /\ e.data.route = route }
Visible(events, route) == { e \in events : RouteOf(e) = route }
LatestOf(events) ==
  CHOOSE e \in events : \A f \in events :
    f.at < e.at \/ (f.at = e.at /\ f.id <= e.id)

Producing(event) == RequestOf[event.call].producing

-----------------------------------------------------------------------------
(* The rows.                                                               *)

FreshnessFor(at, now) == IF now - at <= Hour THEN "recent" ELSE "stale"

\* lastEvidenceAt: the latest receipt, whatever it says, before any call.
LastEvidence(receipts, visible) ==
  IF receipts # {} THEN {LatestOf(receipts)}
  ELSE IF visible # {} THEN {LatestOf(visible)} ELSE {}

\* buildRouteCoverageRow and, for direct-core-api, which has no receipts,
\* buildDirectCoreApiCoverageRow.
CoverageRow(events, route, now) ==
  LET receipts == Receipts(events, route)
      visible == Visible(events, route)
      latest == LatestOf(receipts)
      status(s) == receipts # {} /\ \E k \in DOMAIN latest.data.checks :
                                      latest.data.checks[k] = s
      last == LastEvidence(receipts, visible)
      produced == \E e \in visible : Producing(e)
  IN [configured |-> route = "direct-core-api" \/ status("configured") \/ visible # {},
      available |-> IF route = "direct-core-api" THEN produced
                    ELSE status("available") \/ visible # {},
      producing |-> produced \/ (receipts # {} /\ ReceiptProduces(route, latest.data)),
      freshness |-> IF last = {} THEN "missing"
                    ELSE FreshnessFor((CHOOSE e \in last : TRUE).at, now)]

\* integrationClaimFromRoute.
Claim(row) ==
  IF row.producing /\ row.freshness = "recent" /\ row.available THEN "available"
  ELSE IF row.producing /\ row.freshness = "recent" /\ row.configured THEN "configured"
  ELSE "not-yet-verified"

\* integrationClaimFromPassport: an MCP host has only what the latest receipt
\* that matches its passport says, at the time it was given.
PassportClaim(events, passport, now) ==
  LET exact == { e \in Receipts(events, "mcp-routed") : MatchesPassport(e.data, passport) } IN
  IF exact = {} THEN "not-yet-verified"
  ELSE LET e == LatestOf(exact) IN
    Claim([CoverageRow(events, "mcp-routed", now) EXCEPT
             !.freshness = FreshnessFor(e.at, now),
             !.producing = ReceiptProduces("mcp-routed", e.data)])

\* buildTransportCoverageRow, and the row of the native tools: written as they
\* are, whatever the events say.
FixedRow(id) ==
  [configured |-> id \in TransportRoutes, available |-> id \in TransportRoutes,
   producing |-> FALSE,
   freshness |-> IF id \in TransportRoutes THEN "not-applicable" ELSE "missing"]

\* buildIntegrationCoverageMatrix.
CoverageMatrix(events, now) ==
  [id \in Inventory |-> IF id \in Routes THEN CoverageRow(events, id, now) ELSE FixedRow(id)]

\* isCoverageHistoryRouteEvent, of buildCoverageHistory.
HistoryRows(events) ==
  { e \in events :
      \/ e.type = "integration.verified"
      \/ /\ RouteOf(e) \in Inventory /\ Producing(e)
         /\ e.type \in {"visibility.imported", "tool.call.completed", "tool.call.failed"} }
=============================================================================
