---------------------------- MODULE MCCoreServer ----------------------------
(* Instances of CoreServer for TLC.                                        *)
EXTENDS CoreServer

CONSTANTS fetch, send, wipe, bad, seed, replay, verify, wrapped, browse, simulate, cli

\* verificationRequestFor of the integrations screen: all it knows of the host.
Asks(passport, host) ==
  [integrationId |-> passport, hostId |-> host, hosts |-> {host},
   hash |-> ConfigHash(host), family |-> HostFamily(host)]
Unsaid == [integrationId |-> None, hostId |-> None, hosts |-> {}, hash |-> None,
           family |-> None]

Call == [run |-> "own", path |-> "framework-adapter", protocol |-> "python",
         risk |-> "none", fixtureOnly |-> FALSE, idempotent |-> TRUE,
         subject |-> "other", tool |-> "fetch", server |-> "python",
         route |-> "sdk-wrapped-python", producing |-> TRUE, workspace |-> "none",
         writes |-> Places,
         hint |-> "none", outcomes |-> {"within"}, op |-> "call", entry |-> "sidecar",
         impatient |-> FALSE, fault |-> "none"]
Task == [Call EXCEPT !.op = "import", !.tool = "none", !.producing = FALSE,
                     !.entry = "none"]
        @@ [verifies |-> "browser-evidence-import", asks |-> Unsaid, probe |-> NoCall]

\* Two calls of one tool, one of them idempotent and observed, one that is
\* not; a command the policy blocks; a request for a tool nobody registered;
\* the seed run; a replay; a verification that wraps a call; an import; a
\* simulation; an event of another run.
Described ==
  fetch :> [Call EXCEPT !.workspace = "temp",
               !.outcomes = {"within", "timeout"}]
  @@ send :> [Call EXCEPT !.idempotent = FALSE, !.impatient = TRUE,
               !.outcomes = {"timeout", "secret_leak_risk"}]
  @@ wipe :> [Call EXCEPT !.risk = "high", !.tool = "wipe"]
  @@ bad :> [Call EXCEPT !.fault = "unknown_tool", !.tool = "absent"]
  @@ seed :> [Call EXCEPT !.entry = "seed", !.outcomes = {"over"}, !.path = "non-mcp-direct",
               !.route = "direct-core-api", !.protocol = "fixture", !.server = "fixture",
               !.fixtureOnly = TRUE, !.risk = "low", !.tool = "echo"]
  @@ replay :> [Call EXCEPT !.entry = "replay", !.outcomes = {"process_crash"},
               !.idempotent = FALSE, !.path = "non-mcp-direct",
               !.route = "none", !.protocol = "fixture", !.server = "fixture",
               !.fixtureOnly = TRUE, !.risk = "low", !.tool = "echo"]
  @@ verify :> [Task EXCEPT !.op = "verify", !.route = "none",
               !.verifies = "sdk-wrapped-python"]
  @@ wrapped :> [Task EXCEPT !.op = "verify", !.route = "none", !.probe = browse]
  @@ browse :> [Task EXCEPT !.route = "browser-evidence-import", !.protocol = "browser",
               !.producing = TRUE]
  @@ simulate :> [Task EXCEPT !.op = "simulate", !.route = "none"]
  @@ cli :> ([Call EXCEPT !.run = "other", !.path = "cli-wrapper", !.server = "process",
               !.route = "cli-supervised", !.tool = "command"] @@ [event |-> -1])

\* A constant is evaluated wherever it is used; what it refers to, once.
MCRequestOf == Described

\* The same with a directory that is neither temporary nor a repository.
Plain == [Described EXCEPT ![fetch].workspace = "plain"]
MCPlainRequestOf == Plain

\* A rewriting that leaves nothing, the first lines, or all.
MCCutAt == {-2, 4, 1000}

\* The verification of an MCP host.
Hosted ==
  [Described EXCEPT ![verify] =
     [@ EXCEPT !.verifies = "mcp-routed",
               !.asks = Asks("claude-desktop-code", "claude-desktop")]]
MCHostRequestOf == Hosted

-----------------------------------------------------------------------------
(* What the server shows, over small inputs.                               *)
Views == INSTANCE ServerViews

Bundle == <<"run", "bundle">>
Named(n) == UNION { [1 .. k -> {"..", "/", "run", "bundle", "raw-untrusted", "page"}] : k \in 1 .. n }

\* However a path is put together, a file of the bundle's untrusted part is
\* only ever served with the mark of one, and nothing outside the bundle is.
ASSUME RawFilesAreMarked ==
  LET raw == Bundle \o <<"raw-untrusted", "page">>
      files == {raw, Bundle \o <<"page">>, <<"run", "page">>, <<"page">>}
  IN \A parts \in Named(5) :
       Views!ServeBundleFile(TRUE, <<"run">>, parts, files) = 200 =>
         /\ Views!Resolve(Bundle, parts) \in {raw, Bundle \o <<"page">>}
         /\ Views!Resolve(Bundle, parts) = raw => Views!MarkedRaw(parts)

\* The ids of one event, by kind.
IdsOf(ofCall, ofAttempt) ==
  [kind \in Views!KindNames |-> CASE kind = "toolCall" -> ofCall
                                  [] kind = "attempt" -> ofAttempt
                                  [] OTHER -> Views!Nothing]
TraceLogs ==
  UNION { [1 .. n -> [trace : {Views!Nothing, "t1", "t2"},
                      ids : { IdsOf("c1", Views!Nothing), IdsOf("c1", "a1"), IdsOf(Views!Nothing, "a1"),
                              IdsOf("c2", "a2") }]] : n \in 0 .. 3 }

\* A trace page shows events of one trace, or says that it shows the whole run;
\* it shows no node without an event, and hangs none on itself.
ASSUME TracesAreWhole ==
  \A run \in TraceLogs, asked \in {"latest", "t1", "t3"} :
    /\ LET shown == Views!TraceEvents(run, asked) IN
       \/ \A i, j \in DOMAIN shown : shown[i].trace = shown[j].trace
       \/ shown = run /\ Views!TraceStatus(run, asked) = "degraded"
    /\ \A id \in Views!NamedIds(run) : Views!TraceParent(run, id) # id

Ledgers ==
  UNION { [1 .. n -> [changes : SUBSET {"p1", "p2"}, writes : SUBSET {"p1"}, process : BOOLEAN,
                      reversibility : {"reversible", "irreversible-risk"},
                      effect : {"blocked", "completed"}]] : n \in 0 .. 2 }

\* The impact page never counts fewer affected paths than changes, or more
\* entries of a kind than entries.
ASSUME ImpactAddsUp ==
  \A entries \in Ledgers :
    LET summary == Views!ImpactSummary(entries) IN
    /\ summary.observedChanges <= summary.safeAffectedPaths
    /\ { summary.processChildren, summary.reversible, summary.blocked }
         \subseteq 0 .. summary.entries
=============================================================================
