------------------------------- MODULE Receipts -------------------------------
(***************************************************************************)
(* What a receipt of a verified integration says and who believes it:      *)
(* integration-verification.ts makes it, server.ts and                     *)
(* integration-doctor.ts judge it again, and the passports of              *)
(* /api/integrations claim it for a host.  Texts, versions and platforms   *)
(* are left out; a configuration is what sets it apart from the others,    *)
(* and two texts have one hash only if they are the same.                  *)
(***************************************************************************)
EXTENDS Integers, Sequences, FiniteSets

None == "none"   \* a field that is not there

-----------------------------------------------------------------------------
(* The canonical route inventory.                                          *)

VerifiedRoutes == {"mcp-routed", "cli-supervised", "sdk-wrapped-python", "js-ts-wrapper",
                   "http-webhook-import", "browser-evidence-import"}
Routes == VerifiedRoutes \cup {"direct-core-api"}
TransportRoutes == {"visibility-jsonl-import", "otel-evidence-transport"}
Inventory == Routes \cup TransportRoutes \cup {"native-host-tools"}

Category(id) ==
  CASE id \in {"http-webhook-import", "browser-evidence-import"} -> "imported-evidence"
    [] id \in TransportRoutes -> "evidence-transport"
    [] id = "native-host-tools" -> "non-claim"
    [] OTHER -> "proofed-route"

\* Only a route may produce route evidence, and all of them may.
InventoryScope(id) ==
  CASE id \in Routes -> "route"
    [] id \in TransportRoutes -> "transport"
    [] OTHER -> "none"
ProducesRouteEvidence(id) == id \in Routes
PassportRequired(id) == id \in VerifiedRoutes

VisibilityLevel(id) ==
  CASE id \in {"direct-core-api", "mcp-routed", "js-ts-wrapper"} -> "mediated"
    [] id = "cli-supervised" -> "supervised"
    [] id \in {"sdk-wrapped-python", "browser-evidence-import"} -> "observed"
    [] id = "native-host-tools" -> "not-covered"
    [] OTHER -> "imported"

\* The setup snippets: (route, platform) of each, in the order they are given.
PlatformSnippets ==
  << <<"mcp-routed", "posix">>, <<"mcp-routed", "powershell">>, <<"mcp-routed", "cmd">>,
     <<"mcp-routed", "wsl">>, <<"mcp-routed", "container">>, <<"cli-supervised", "ci">>,
     <<"cli-supervised", "posix">>, <<"cli-supervised", "powershell">>,
     <<"cli-supervised", "cmd">>, <<"sdk-wrapped-python", "posix">>, <<"shell-api", "posix">> >>

\* buildSetupMetadata: the inventory entry a snippet sets up.
SnippetInventory(snippet) == IF snippet[1] = "shell-api" THEN "direct-core-api" ELSE snippet[1]

\* setupPlatforms of an entry.
SetupPlatforms(id) ==
  { PlatformSnippets[k][2] : k \in { j \in DOMAIN PlatformSnippets :
                                       SnippetInventory(PlatformSnippets[j]) = id } }

-----------------------------------------------------------------------------
(* MCP hosts and their configuration snippets.                             *)

McpHosts == {"cline", "roo-code", "claude-desktop", "claude-code", "cursor", "windsurf",
             "codex-cli", "opencode", "hermes"}

\* hostFamily of HOST_BOUNDARIES.
HostFamily(host) ==
  CASE host \in {"cline", "roo-code"} -> "cline-roo-style"
    [] host \in {"claude-desktop", "claude-code"} -> "claude-style"
    [] host \in {"cursor", "windsurf"} -> "cursor-windsurf-style"
    [] host \in {"codex-cli", "opencode"} -> "codex-opencode-style"
    [] OTHER -> "hermes-style"

\* configHash of generateHostConfigSnippets: the configurations differ only in
\* extraServerFields, and most hosts have none.
ConfigHash(host) ==
  CASE host = "cline" -> "autoApprove"
    [] host = "roo-code" -> "alwaysAllow"
    [] host = "hermes" -> "toolFilter"
    [] OTHER -> "plain"

\* The passports of buildIntegrationsPayload.
Passports == {"cline", "roo-code", "claude-desktop-code", "cursor-windsurf"}
PassportHosts(passport) ==
  CASE passport = "claude-desktop-code" -> {"claude-desktop", "claude-code"}
    [] passport = "cursor-windsurf" -> {"cursor", "windsurf"}
    [] OTHER -> {passport}
PassportFamily(passport) ==
  CASE passport = "claude-desktop-code" -> "claude-style"
    [] passport = "cursor-windsurf" -> "cursor-windsurf-style"
    [] OTHER -> "cline-roo-style"

\* withConfigHashes.
PassportHashes(passport) == { ConfigHash(host) : host \in PassportHosts(passport) }

-----------------------------------------------------------------------------
(* The receipt.                                                            *)

\* buildCapabilityChecks: the capabilities of a route, with the status a
\* passing probe gives.  Probes of the last three do not catch: a receipt of
\* theirs has no failing check.
Capabilities(route) ==
  CASE route = "mcp-routed" ->
         [adapter |-> "available", config |-> "configured", routedTool |-> "available"]
    [] route = "sdk-wrapped-python" ->
         [sidecar |-> "available", loopback |-> "available", wrapper |-> "configured"]
    [] route = "cli-supervised" ->
         [process |-> "available", argv |-> "available", guard |-> "available"]
    [] OTHER -> [import |-> "configured"]

CanFail(route) == route \in {"mcp-routed", "sdk-wrapped-python", "cli-supervised"}

\* routeSpecificEvidenceCapabilityPassed: the capability that counts.
Specific(route) ==
  CASE route = "mcp-routed" -> "routedTool"
    [] route = "sdk-wrapped-python" -> "wrapper"
    [] route = "cli-supervised" -> "process"
    [] OTHER -> "import"

\* probeCapability: what the probes of a route may leave.
Checks(route) ==
  { checks \in [DOMAIN Capabilities(route) ->
                  {"configured", "available", "not-yet-verified"}] :
      \A k \in DOMAIN checks :
        \/ checks[k] = Capabilities(route)[k]
        \/ CanFail(route) /\ checks[k] = "not-yet-verified" }

Passed(status) == status \in {"configured", "available"}
SmokePassed(checks) == \A k \in DOMAIN checks : checks[k] # "not-yet-verified"

\* routeProducesEvidence: the verdict of the verification itself, which is the
\* scope of the link to the receipt's artifact.
ReceiptScope(route, checks) ==
  IF SmokePassed(checks) /\ Passed(checks[Specific(route)])
    THEN "route" ELSE "host-config"

\* buildRouteCoverage: the states the receipt's entries stand for.
CoverageStates(route, checks) ==
  { s \in {"configured", "available"} : \E k \in DOMAIN checks : checks[k] = s }
  \cup (IF SmokePassed(checks) THEN {} ELSE {"not-verified"})
  \cup (IF ReceiptScope(route, checks) = "route" THEN {"producing-evidence"} ELSE {})

\* What a request may name of a host, and what routePassportBase fills in.
PassportBase(route) ==
  IF route = "mcp-routed"
    THEN [integrationId |-> "cline", hostId |-> "cline", hosts |-> {"cline"},
          hash |-> ConfigHash("cline"), family |-> "cline-roo-style"]
    ELSE [integrationId |-> route, hostId |-> route, hosts |-> {},
          hash |-> route, family |-> None]

\* buildPlatformPassportMetadata: each field of the request on its own, or
\* else the base's.
Metadata(route, request) ==
  LET base == PassportBase(route)
      field(f) == IF request[f] = None THEN base[f] ELSE request[f]
  IN [integrationId |-> field("integrationId"), hostId |-> field("hostId"),
      hosts |-> IF request.hosts = {} THEN base.hosts ELSE request.hosts,
      hash |-> field("hash"), family |-> field("family")]

\* verifyIntegrationRoute: the receipt, and its link, which says the same of
\* the host.
ReceiptOf(route, request, checks) ==
  [route |-> route, meta |-> Metadata(route, request), checks |-> checks,
   scope |-> ReceiptScope(route, checks)]

-----------------------------------------------------------------------------
(* The judgements.                                                         *)

\* receiptProducesRouteEvidence of the server.  Its table names the process
\* probe for every route it does not know: an import rests on the link.
ServerSpecific(route) ==
  IF route \in {"mcp-routed", "sdk-wrapped-python"} THEN Specific(route) ELSE "process"
ReceiptProduces(route, receipt) ==
  /\ SmokePassed(receipt.checks)
  /\ \/ LET k == ServerSpecific(route) IN
          k \in DOMAIN receipt.checks /\ Passed(receipt.checks[k])
     \/ receipt.scope = "route"

\* receiptProducesRouteEvidence of the doctor.
DoctorProduces(route, receipt) ==
  /\ SmokePassed(receipt.checks)
  /\ \/ Passed(receipt.checks[Specific(route)])
     \/ receipt.scope = "route"

\* hasExactMcpReceiptMetadata.
Exact(meta) ==
  \/ meta.integrationId # None
  \/ meta.hostId # None
  \/ meta.hosts # {}
  \/ meta.hash # None

\* receiptMatchesMcpPassport.
MatchesPassport(receipt, passport) ==
  LET meta == receipt.meta IN
  /\ receipt.route = "mcp-routed"
  /\ \/ meta.integrationId = passport
     \/ meta.hostId \in PassportHosts(passport)
     \/ meta.hosts \cap PassportHosts(passport) # {}
     \/ meta.hash \in PassportHashes(passport)
     \/ meta.family = PassportFamily(passport) /\ ~Exact(meta)

-----------------------------------------------------------------------------
(* The doctor: it verifies every route in turn, exports a bundle and       *)
(* reports what it found.                                                  *)

\* buildIntegrationDoctorJson: noSecrets is whether the redaction found any.
NoSecrets(redactions) == IF redactions = 0 THEN "passed" ELSE "failed"

\* parseIntegrationDoctorCliArgs: the options read so far and what is left of
\* the arguments; an error is final.  Values are "", "bad" and "good".
ValueOptions == {"--evidence-root", "--workspace-root", "--run-id", "--probe-timeout-ms"}
DoctorArgs(argv) ==
  LET Step[k \in 1..Len(argv) + 1, options \in SUBSET (ValueOptions \cup {"--json", "error"})] ==
        IF k > Len(argv) THEN options
        ELSE IF argv[k] = "--" THEN Step[k + 1, options]
        ELSE IF argv[k] = "--json" THEN Step[k + 1, options \cup {"--json"}]
        ELSE IF argv[k] \notin ValueOptions THEN {"error"}
        ELSE IF \/ k = Len(argv)
                \/ argv[k + 1] = ""
                \/ argv[k] = "--probe-timeout-ms" /\ argv[k + 1] # "good"
          THEN {"error"}
        ELSE Step[k + 2, options \cup {argv[k]}]
  IN Step[1, {}]
=============================================================================
