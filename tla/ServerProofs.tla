------------------------------ MODULE ServerProofs ------------------------------
(* What is proved of the server's requests, of the trace it shows, of what *)
(* it imports and exports, and of its receipts.                            *)
EXTENDS ServerRequests, ServerViews, BundleViews, Receipts, WellFoundedInduction,
        SequenceTheorems, FiniteSetTheorems, TLAPS

\* A replay runs a tool only for a request that says it is a fixture's, and
\* neither the real world's nor destructive nor a preview, in whatever other
\* combination its flags come (handleReplayRequest).
THEOREM ReplayRunsFixturesOnly ==
  ASSUME NEW q \in ReplayRequests, ReplayVerdict(q) = "run"
  PROVE  q.fixtureOnly /\ q.known /\ ~q.realWorld /\ ~q.destructive /\ ~q.dryRun
BY DEF ReplayRequests, ReplayVerdict

\* What the replay lab offers is what the server does when it is asked for
\* it: a recipe to execute runs, a preview is shown, a blocked one is refused
\* (buildReplayPayload, runReplay and handleReplayRequest).
THEOREM RecipesAreKept ==
  ASSUME NEW recipe \in Recipes
  PROVE  ReplayVerdict(ReplayRequestFor(recipe))
         = CASE recipe.mode = "execute" -> "run"
             [] recipe.mode = "blocked" -> "blocked"
             [] OTHER                   -> "preview"
<1>1. CASE recipe = Recipe("execute", TRUE, FALSE, FALSE, "none")
  BY <1>1 DEF Recipe, ReplayRequestFor, ReplayVerdict
<1>2. CASE recipe = Recipe("loopback", FALSE, TRUE, FALSE, "none")
  BY <1>2 DEF Recipe, ReplayRequestFor, ReplayVerdict
<1>3. CASE recipe = Recipe("dry-run", FALSE, FALSE, TRUE, "low")
  BY <1>3 DEF Recipe, ReplayRequestFor, ReplayVerdict
<1>4. CASE recipe = Recipe("blocked", FALSE, FALSE, FALSE, "high")
  BY <1>4 DEF Recipe, ReplayRequestFor, ReplayVerdict
<1> QED BY <1>1, <1>2, <1>3, <1>4 DEF Recipes

-----------------------------------------------------------------------------
(* Traces.                                                                 *)

\* Events of a log: each kind of id is there or Nothing.
Logged(Id) == [trace : Id \cup {Nothing}, ids : [KindNames -> Id \cup {Nothing}]]

\* A nonempty set of natural numbers has a least one.
LEMMA LeastNat ==
  ASSUME NEW S \in SUBSET Nat, S # {}
  PROVE  \E n \in S : \A m \in S : n <= m
<1>1. PICK n \in S : \A m \in S : ~(<<m, n>> \in OpToRel(<, Nat))
  BY NatLessThanWellFounded, WFMin
<1>2. \A m \in S : ~(m < n)
  BY <1>1 DEF OpToRel
<1> QED BY <1>2

\* An id that is named has a first event.
LEMMA FirstWithIsThere ==
  ASSUME NEW Id, NEW events \in Seq(Logged(Id)), NEW id \in NamedIds(events)
  PROVE  /\ FirstWith(events, id) \in 1 .. Len(events)
         /\ \E kind \in KindNames : events[FirstWith(events, id)].ids[kind] = id
<1> DEFINE Has(i) == \E kind \in KindNames : events[i].ids[kind] = id
           With == { i \in 1 .. Len(events) : Has(i) }
<1>1. With # {} /\ With \in SUBSET Nat
  BY DEF NamedIds
<1> HIDE DEF With
<1>2. PICK i \in With : \A j \in With : i <= j
  BY <1>1, LeastNat
<1> USE DEF With
<1>3. \A j \in 1 .. i - 1 : \A kind \in KindNames : events[j].ids[kind] # id
  <2> SUFFICES ASSUME NEW j \in 1 .. i - 1, Has(j) PROVE FALSE
    OBVIOUS
  <2>1. j \in With
    BY <1>2
  <2> QED BY <2>1, <1>2
<1> QED BY <1>2, <1>3 DEF FirstWith

\* A trace is closed: whatever events it shows, the parent of a node is none
\* or is a node itself, although parents are taken from the first event that
\* names the child only (buildTraceNodes).
THEOREM TraceParentsShown ==
  ASSUME NEW Id, Nothing \notin Id, NEW events \in Seq(Logged(Id)), NEW id \in NamedIds(events)
  PROVE  TraceParent(events, id) \in NamedIds(events) \cup {Nothing}
<1> DEFINE i == FirstWith(events, id)
           event == events[i]
           kind == FirstKind(event, id)
<1>1. i \in 1 .. Len(events) /\ \E k \in KindNames : event.ids[k] = id
  BY FirstWithIsThere
<1>2. kind \in KindNames
  BY <1>1 DEF FirstKind
<1>3. ParentKind(kind) \in KindNames \cup {Nothing}
  BY <1>2 DEF ParentKind, KindNames
<1>4. CASE ParentKind(kind) = Nothing
  BY <1>4 DEF TraceParent
<1>5. CASE ParentKind(kind) \in KindNames
  <2>1. TraceParent(events, id) \in {event.ids[ParentKind(kind)], Nothing}
    BY DEF TraceParent
  <2>2. PICK k \in KindNames : k = ParentKind(kind)
    BY <1>5
  <2>3. event.ids[k] \in NamedIds(events) \cup {Nothing}
    <3>1. event.ids[k] \in { event.ids[other] : other \in KindNames }
      OBVIOUS
    <3>2. { event.ids[other] : other \in KindNames }
            \in { { events[n].ids[other] : other \in KindNames } : n \in 1 .. Len(events) }
      BY <1>1
    <3> QED BY <3>1, <3>2 DEF NamedIds
  <2> QED BY <2>1, <2>2, <2>3
<1> QED BY <1>3, <1>4, <1>5

-----------------------------------------------------------------------------
(* Imports and exports of visibility.                                      *)

\* An import that is answered accounts for every line that is not blank, and
\* all the events it reports as accepted are recorded
\* (importVisibilityEventsJsonl; one that throws may have recorded some).
THEOREM AnsweredImportsAddUp ==
  ASSUME NEW lines, Len(lines) \in Nat, Import(lines).answered
  PROVE  /\ Import(lines).accepted + Import(lines).rejected
              = Cardinality(Considered(lines))
         /\ Import(lines).valid
              <=> Import(lines).accepted = Cardinality(Considered(lines))
         /\ Recorded(lines) = Accepted(lines)
<1> DEFINE considered == Considered(lines)
           accepted == Accepted(lines)
           rejected == Rejected(lines)
<1>1. Throwing(lines) = {}
  BY DEF Import
<1>2. /\ accepted \subseteq considered /\ rejected \subseteq considered
      /\ accepted \cup rejected = considered /\ accepted \cap rejected = {}
  BY DEF Accepted, Rejected
<1>3. IsFiniteSet(considered)
  <2>1. IsFiniteSet(1 .. Len(lines))
    BY FS_Interval
  <2>2. considered \in SUBSET (1 .. Len(lines))
    BY DEF Considered
  <2> QED BY <2>1, <2>2, FS_Subset
<1>4. /\ IsFiniteSet(accepted) /\ IsFiniteSet(rejected)
      /\ Cardinality(accepted) \in Nat /\ Cardinality(rejected) \in Nat
  BY <1>2, <1>3, FS_Subset, FS_CardinalityType
<1>5. Cardinality(considered) = Cardinality(accepted) + Cardinality(rejected)
  <2>1. Cardinality(accepted \cap rejected) = 0
    BY <1>2, FS_EmptySet
  <2>2. Cardinality(accepted \cup rejected)
          = Cardinality(accepted) + Cardinality(rejected) - Cardinality(accepted \cap rejected)
    BY <1>4, FS_Union
  <2>3. Cardinality(accepted) + Cardinality(rejected) - 0
          = Cardinality(accepted) + Cardinality(rejected)
    <3>1. \A m, n \in Nat : m + n - 0 = m + n
      OBVIOUS
    <3> QED BY ONLY <1>4, <3>1
  <2>4. Cardinality(accepted \cup rejected) = Cardinality(accepted) + Cardinality(rejected)
    BY ONLY <2>1, <2>2, <2>3
  <2>5. Cardinality(accepted \cup rejected) = Cardinality(considered)
    BY ONLY <1>2
  <2> QED BY ONLY <2>4, <2>5
<1>6. rejected = {} <=> Cardinality(rejected) = 0
  BY <1>4, FS_EmptySet
<1>7. /\ Import(lines).accepted = Cardinality(accepted)
      /\ Import(lines).rejected = Cardinality(rejected)
      /\ Import(lines).valid = (rejected = {})
  BY <1>1 DEF Import
<1>8. Recorded(lines) = accepted
  BY <1>1 DEF Recorded
<1> HIDE DEF considered, accepted, rejected
<1>9. \A m, n \in Nat : n = 0 <=> m = m + n
  OBVIOUS
<1>10. Cardinality(rejected) = 0 <=> Cardinality(accepted) = Cardinality(considered)
  BY <1>4, <1>5, <1>9
<1> QED BY <1>5, <1>6, <1>7, <1>8, <1>10 DEF considered, accepted

\* Attempts nobody handed a trace are traces of their own in OpenTelemetry,
\* whatever the ids; attempts that were handed one are in that one
\* (generatedTraceparent and otelTraceId).
THEOREM HandedTracesAreKept ==
  ASSUME NEW a, NEW b, NEW ea, NEW eb, ea.visible, eb.visible,
         a.traceparent \in Given, b.traceparent \in Given,
         ea.context = TraceContext(a), eb.context = TraceContext(b),
         TraceContext(a).source = TraceContext(b).source
  PROVE  IF TraceContext(a).source = "provided"
           THEN OtelTrace(ea) = OtelTrace(eb)
           ELSE OtelTrace(ea) = OtelTrace(eb)
                  <=> <<a.trace, a.id, a.attempt>> = <<b.trace, b.id, b.attempt>>
<1> DEFINE seed(call) == <<call.trace, call.id, call.attempt>>
<1>1. \A call : call.traceparent \in Given =>
        TraceContext(call)
          = IF call.traceparent \in { <<"tp">>, <<"TP">> }
              THEN [traceparent |-> <<"tp">>, source |-> "provided"]
              ELSE [traceparent |-> <<"00", seed(call), seed(call)>>, source |-> "generated"]
  <2> SUFFICES ASSUME NEW call, call.traceparent \in Given
               PROVE  TraceContext(call)
                        = IF call.traceparent \in { <<"tp">>, <<"TP">> }
                            THEN [traceparent |-> <<"tp">>, source |-> "provided"]
                            ELSE [traceparent |-> <<"00", seed(call), seed(call)>>,
                                  source |-> "generated"]
    OBVIOUS
  <2>1. /\ WellFormed(<<"tp">>) /\ ~WellFormed(<<"bad">>) /\ ~WellFormed(<<>>)
        /\ Lower(<<"TP">>) = <<"tp">> /\ Lower(<<"tp">>) = <<"tp">>
        /\ Lower(<<"bad">>) = <<"bad">> /\ Lower(<<>>) = <<>>
    BY DEF WellFormed, Lower
  <2>2. CASE call.traceparent \in { <<"tp">>, <<"TP">> }
    BY <2>1, <2>2 DEF TraceContext
  <2>3. CASE call.traceparent \in { <<"bad">>, <<>> }
    BY <2>1, <2>3 DEF TraceContext, Generated
  <2> QED BY <2>2, <2>3 DEF Given
<1>2. \A event, s : event.visible /\ event.context.traceparent = <<"00", s, s>>
        => OtelTrace(event) = Hash(s)
  BY DEF OtelTrace, WellFormed, Given
<1>3. \A event : event.visible /\ event.context.traceparent = <<"tp">>
        => OtelTrace(event) = <<"tp">>
  BY DEF OtelTrace, WellFormed, Given
<1>4. \A s, t : Hash(s) = Hash(t) <=> s = t
  BY DEF Hash
<1>5. CASE TraceContext(a).source = "provided"
  <2>1. /\ ea.context.traceparent = <<"tp">>
        /\ eb.context.traceparent = <<"tp">>
    <3>1. \A call : call.traceparent \in Given /\ TraceContext(call).source = "provided"
                      => TraceContext(call).traceparent = <<"tp">>
      <4> SUFFICES ASSUME NEW call, call.traceparent \in Given,
                          TraceContext(call).source = "provided"
                   PROVE  TraceContext(call).traceparent = <<"tp">>
        OBVIOUS
      <4> QED BY <1>1
    <3>2. TraceContext(b).source = "provided"
      BY <1>5
    <3> QED BY <1>5, <3>1, <3>2
  <2> QED BY <1>3, <1>5, <2>1
<1>6. CASE TraceContext(a).source # "provided"
  <2>1. /\ ea.context.traceparent = <<"00", seed(a), seed(a)>>
        /\ eb.context.traceparent = <<"00", seed(b), seed(b)>>
    BY <1>1, <1>6
  <2> HIDE DEF seed
  <2>2. OtelTrace(ea) = Hash(seed(a)) /\ OtelTrace(eb) = Hash(seed(b))
    BY <1>2, <2>1
  <2>3. OtelTrace(ea) = OtelTrace(eb) <=> seed(a) = seed(b)
    BY <1>4, <2>2
  <2> QED BY <1>6, <2>3 DEF seed
<1> QED BY <1>5, <1>6

-----------------------------------------------------------------------------
(* Receipts and who believes them.                                         *)

\* A request for a host as the integrations screen makes it.
HostRequest(passport, host) ==
  [integrationId |-> passport, hostId |-> host, hosts |-> {host},
   hash |-> ConfigHash(host), family |-> HostFamily(host)]

\* A request that names nothing but the host.
BareRequest(host) ==
  [integrationId |-> None, hostId |-> host, hosts |-> {}, hash |-> None, family |-> None]

\* The capability that counts is one the route is checked for.
LEMMA SpecificIsChecked ==
  ASSUME NEW route \in VerifiedRoutes, NEW checks \in Checks(route)
  PROVE  /\ DOMAIN checks = DOMAIN Capabilities(route)
         /\ Specific(route) \in DOMAIN checks
BY DEF VerifiedRoutes, Checks, Capabilities, Specific

\* The three judgements of a receipt, written apart from each other in the
\* verification, the server and the doctor, agree on every receipt a
\* verification gives, whatever its probes found (routeProducesEvidence and
\* the two receiptProducesRouteEvidence).
THEOREM JudgementsAgree ==
  ASSUME NEW route \in VerifiedRoutes, NEW checks \in Checks(route), NEW request
  PROVE  LET receipt == ReceiptOf(route, request, checks) IN
         /\ ReceiptProduces(route, receipt) <=> receipt.scope = "route"
         /\ DoctorProduces(route, receipt) <=> receipt.scope = "route"
<1> DEFINE receipt == ReceiptOf(route, request, checks)
<1>1. receipt.checks = checks /\ receipt.scope = ReceiptScope(route, checks)
  BY DEF ReceiptOf
<1>2. receipt.scope = "route" <=> SmokePassed(checks) /\ Passed(checks[Specific(route)])
  BY <1>1 DEF ReceiptScope
<1>3. DoctorProduces(route, receipt) <=> receipt.scope = "route"
  BY <1>1, <1>2 DEF DoctorProduces
<1>4. ReceiptProduces(route, receipt) <=> receipt.scope = "route"
  <2>1. CASE route \in {"mcp-routed", "sdk-wrapped-python", "cli-supervised"}
    <3>1. ServerSpecific(route) = Specific(route)
      BY <2>1 DEF ServerSpecific, Specific
    <3> QED BY <3>1, <1>1, <1>2, SpecificIsChecked DEF ReceiptProduces
  <2>2. CASE route \in {"js-ts-wrapper", "http-webhook-import", "browser-evidence-import"}
    <3>1. ServerSpecific(route) \notin DOMAIN checks
      BY <2>2, SpecificIsChecked DEF ServerSpecific, Capabilities
    <3> QED BY <3>1, <1>1, <1>2 DEF ReceiptProduces
  <2> QED BY <2>1, <2>2 DEF VerifiedRoutes
<1> QED BY <1>3, <1>4

\* A receipt of a request with all a host's fields matches passports by name,
\* host and configuration only: the family counts where nothing else is said.
LEMMA MatchOfHost ==
  ASSUME NEW host \in McpHosts, NEW name, name # None, NEW checks,
         NEW passport \in Passports
  PROVE  MatchesPassport(ReceiptOf("mcp-routed", HostRequest(name, host), checks), passport)
         <=> \/ name = passport
             \/ host \in PassportHosts(passport)
             \/ ConfigHash(host) \in PassportHashes(passport)
<1> DEFINE meta == Metadata("mcp-routed", HostRequest(name, host))
<1>1. /\ meta.integrationId = name /\ meta.hostId = host
      /\ meta.hosts = {host} /\ meta.hash = ConfigHash(host)
  <2>1. host # None /\ ConfigHash(host) # None
    BY DEF McpHosts, ConfigHash, None
  <2> QED BY <2>1 DEF Metadata, HostRequest
<1>2. Exact(meta)
  BY <1>1 DEF Exact
<1> QED BY <1>1, <1>2 DEF MatchesPassport, ReceiptOf

\* A host whose configuration is its own, verified with all its fields, is
\* claimed by its own passport and by no other (receiptMatchesMcpPassport).
THEOREM OwnConfigSpeaksForItsHost ==
  ASSUME NEW host \in {"cline", "roo-code"}, NEW checks, NEW passport \in Passports
  PROVE  MatchesPassport(ReceiptOf("mcp-routed", HostRequest(host, host), checks), passport)
         <=> host \in PassportHosts(passport)
<1>1. host \in McpHosts /\ host # None
  BY DEF McpHosts, None
<1>2. host = passport => host \in PassportHosts(passport)
  BY DEF PassportHosts
<1>3. ConfigHash(host) \in PassportHashes(passport) => host \in PassportHosts(passport)
  BY DEF PassportHashes, PassportHosts, ConfigHash, Passports
<1> QED BY <1>1, <1>2, <1>3, MatchOfHost

\* The other hosts share one configuration: whichever of them is verified, the
\* passports of Claude and of Cursor and Windsurf both take the receipt for
\* theirs, and no other does (withConfigHashes; the run core_server_passports
\* shows what follows).
THEOREM SharedConfigSpeaksForAll ==
  ASSUME NEW host \in McpHosts \ {"cline", "roo-code", "hermes"}, NEW checks,
         NEW name, name \notin {None, "cline", "roo-code"}, NEW passport \in Passports
  PROVE  MatchesPassport(ReceiptOf("mcp-routed", HostRequest(name, host), checks), passport)
         <=> passport \in {"claude-desktop-code", "cursor-windsurf"}
<1>1. ConfigHash(host) = "plain"
  BY DEF McpHosts, ConfigHash
<1>2. "plain" \in PassportHashes(passport)
      <=> passport \in {"claude-desktop-code", "cursor-windsurf"}
  BY DEF PassportHashes, PassportHosts, ConfigHash, Passports
<1>3. name = passport \/ host \in PassportHosts(passport)
      => passport \in {"claude-desktop-code", "cursor-windsurf"}
  BY DEF Passports, PassportHosts, McpHosts
<1> QED BY <1>1, <1>2, <1>3, MatchOfHost

\* A request that names only its host is filled up with Cline's name, hosts
\* and configuration, so that its receipt is taken for Cline's, whichever host
\* it names (buildPlatformPassportMetadata, defaultMcpPassportMetadata).
THEOREM BareRequestSpeaksForCline ==
  ASSUME NEW host \in McpHosts, NEW checks
  PROVE  MatchesPassport(ReceiptOf("mcp-routed", BareRequest(host), checks), "cline")
BY DEF MatchesPassport, ReceiptOf, Metadata, BareRequest, PassportBase

-----------------------------------------------------------------------------
(* Recursion: what holds at the start and at each next place holds at all.  *)

LEMMA EveryPlace ==
  ASSUME NEW N \in Nat, NEW T, 0 \in T, \A k \in 0 .. N - 1 : k \in T => k + 1 \in T
  PROVE  \A k \in 0 .. N : k \in T
<1> DEFINE Left == { k \in 0 .. N : k \notin T }
<1>1. SUFFICES ASSUME Left # {} PROVE FALSE
  OBVIOUS
<1>2. Left \in SUBSET Nat
  OBVIOUS
<1> HIDE DEF Left
<1>3. PICK n \in Left : \A m \in Left : n <= m
  BY <1>1, <1>2, LeastNat
<1> USE DEF Left
<1>4. n # 0 /\ n \in 0 .. N
  BY <1>3
<1>5. n - 1 \in 0 .. N - 1 /\ ~(n <= n - 1)
  BY <1>4
<1>6. n - 1 \notin Left
  BY <1>3, <1>5
<1>7. n - 1 \in T
  BY <1>5, <1>6
<1>8. (n - 1) + 1 \in T
  BY <1>5, <1>7
<1> QED BY <1>3, <1>4, <1>8

-----------------------------------------------------------------------------
(* Paths.                                                                  *)

\* path.resolve, one part further.
Further(path, part, k) ==
  CASE part = Root -> IF k = 1 THEN <<>> ELSE path
    [] part = Up   -> IF path = <<>> THEN <<>> ELSE SubSeq(path, 1, Len(path) - 1)
    [] OTHER       -> Append(path, part)
\* What is resolved of the first n parts.
Walk(f, dir, parts, n) ==
  f = [k \in 0 .. n |-> IF k = 0 THEN dir ELSE Further(f[k - 1], parts[k], k)]

LEMMA WalksExist ==
  ASSUME NEW dir, NEW parts, NEW N \in Nat
  PROVE  \E f : Walk(f, dir, parts, N)
<1> DEFINE T == { n \in 0 .. N : \E f : Walk(f, dir, parts, n) }
<1>1. 0 \in T
  <2> DEFINE f == [k \in 0 .. 0 |-> dir]
  <2>1. Walk(f, dir, parts, 0)
    BY DEF Walk
  <2> QED BY <2>1
<1>2. ASSUME NEW n \in 0 .. N - 1, n \in T PROVE n + 1 \in T
  <2>1. PICK f : Walk(f, dir, parts, n)
    BY <1>2
  <2> DEFINE g == [k \in 0 .. n + 1 |-> IF k = n + 1 THEN Further(f[n], parts[n + 1], n + 1) ELSE f[k]]
  <2>2. ASSUME NEW k \in 0 .. n + 1
        PROVE  g[k] = IF k = 0 THEN dir ELSE Further(g[k - 1], parts[k], k)
    <3>1. \A j \in 0 .. n : f[j] = IF j = 0 THEN dir ELSE Further(f[j - 1], parts[j], j)
      BY <2>1 DEF Walk
    <3>2. CASE k = n + 1
      <4>1. k # 0 /\ k - 1 = n /\ k - 1 \in 0 .. n + 1 /\ k - 1 # n + 1
        BY <3>2
      <4>2. g[k] = Further(f[n], parts[n + 1], n + 1) /\ g[k - 1] = f[n]
        BY <3>2, <4>1
      <4> QED BY <3>2, <4>1, <4>2
    <3>3. CASE k # n + 1 /\ k # 0
      <4>1. k \in 0 .. n /\ k - 1 \in 0 .. n + 1 /\ k - 1 # n + 1
        BY <3>3
      <4>2. g[k] = f[k] /\ g[k - 1] = f[k - 1]
        BY <3>3, <4>1
      <4> QED BY <3>1, <3>3, <4>1, <4>2
    <3>4. CASE k = 0
      BY <3>1, <3>4
    <3> QED BY <3>2, <3>3, <3>4
  <2>3. Walk(g, dir, parts, n + 1)
    <3>1. g = [k \in 0 .. n + 1 |-> g[k]]
      OBVIOUS
    <3> HIDE DEF g
    <3> QED BY <2>2, <3>1 DEF Walk
  <2> QED BY <2>3
<1> HIDE DEF T
<1>3. N \in T
  BY <1>1, <1>2, EveryPlace
<1> QED BY <1>3 DEF T

\* Resolve walks the parts.
LEMMA ResolveWalks ==
  ASSUME NEW dir, NEW parts, Len(parts) \in Nat
  PROVE  \E f : Walk(f, dir, parts, Len(parts)) /\ Resolve(dir, parts) = f[Len(parts)]
<1> DEFINE At[k \in 0 .. Len(parts)] ==
        IF k = 0 THEN dir
        ELSE CASE parts[k] = Root -> IF k = 1 THEN <<>> ELSE At[k - 1]
               [] parts[k] = Up   -> IF At[k - 1] = <<>> THEN <<>>
                                     ELSE SubSeq(At[k - 1], 1, Len(At[k - 1]) - 1)
               [] OTHER           -> Append(At[k - 1], parts[k])
<1>1. PICK f : Walk(f, dir, parts, Len(parts))
  BY WalksExist
<1>2. Walk(At, dir, parts, Len(parts))
  BY <1>1, Zenon DEF Walk, Further
<1>3. Resolve(dir, parts) = At[Len(parts)]
  BY DEF Resolve
<1> QED BY <1>2, <1>3
LEMMA WalkSteps ==
  ASSUME NEW f, NEW dir, NEW parts, NEW N \in Nat, Walk(f, dir, parts, N)
  PROVE  /\ f[0] = dir
         /\ \A k \in 0 .. N - 1 : f[k + 1] = Further(f[k], parts[k + 1], k + 1)
<1>1. \A k \in 0 .. N : f[k] = IF k = 0 THEN dir ELSE Further(f[k - 1], parts[k], k)
  BY DEF Walk
<1>2. ASSUME NEW k \in 0 .. N - 1 PROVE f[k + 1] = Further(f[k], parts[k + 1], k + 1)
  <2>1. k + 1 \in 0 .. N /\ k + 1 # 0 /\ (k + 1) - 1 = k
    OBVIOUS
  <2> QED BY <1>1, <2>1
<1> QED BY <1>1, <1>2

\* A path that passes for contained is resolved to one below the directory,
\* wherever that is and however long the path (isContainedRelativePath against
\* path.resolve).
THEOREM ContainedStaysBelow ==
  ASSUME NEW S, NEW dir \in Seq(S), NEW parts \in Seq(S), ContainedPath(parts)
  PROVE  Within(dir, Resolve(dir, parts))
<1> DEFINE Below(path) == /\ path \in Seq(S) /\ Len(dir) <= Len(path)
                          /\ \A i \in 1 .. Len(dir) : path[i] = dir[i]
<1>1. Len(parts) \in Nat /\ Len(dir) \in Nat
  OBVIOUS
<1>2. PICK f : Walk(f, dir, parts, Len(parts)) /\ Resolve(dir, parts) = f[Len(parts)]
  BY <1>1, ResolveWalks
<1> DEFINE T == { k \in 0 .. Len(parts) : Below(f[k]) }
<1>3. 0 \in T
  BY <1>1, <1>2, WalkSteps
<1>4. ASSUME NEW k \in 0 .. Len(parts) - 1, k \in T PROVE k + 1 \in T
  <2>1. f[k + 1] = Further(f[k], parts[k + 1], k + 1)
    BY <1>1, <1>2, WalkSteps
  <2>2. k + 1 \in 1 .. Len(parts) /\ parts[k + 1] \in S
    BY <1>1
  <2>3. parts[k + 1] # Up /\ (k + 1 = 1 => parts[k + 1] # Root)
    BY <2>2 DEF ContainedPath, Up, Root
  <2>4. Below(f[k])
    BY <1>4
  <2>5. f[k + 1] = f[k] \/ f[k + 1] = Append(f[k], parts[k + 1])
    BY <2>1, <2>3 DEF Further
  <2>6. Below(Append(f[k], parts[k + 1]))
    <3> DEFINE p == f[k]
               q == Append(f[k], parts[k + 1])
    <3>1. q \in Seq(S) /\ Len(q) = Len(p) + 1 /\ \A i \in 1 .. Len(p) : q[i] = p[i]
      BY <2>2, <2>4, AppendProperties
    <3> HIDE DEF q
    <3>2. Below(q)
      BY <1>1, <2>4, <3>1
    <3> QED BY <3>2 DEF q
  <2>7. Below(f[k + 1])
    BY <2>4, <2>5, <2>6
  <2> QED BY <1>1, <2>2, <2>7
<1>5. Len(parts) \in T
  <2> DEFINE N == Len(parts)
  <2>1. N \in Nat /\ N \in 0 .. N
    BY <1>1
  <2>2. 0 \in T /\ \A k \in 0 .. N - 1 : k \in T => k + 1 \in T
    BY <1>3, <1>4
  <2> HIDE DEF N, T
  <2>3. \A k \in 0 .. N : k \in T
    BY <2>1, <2>2, EveryPlace
  <2>4. N \in T
    BY <2>1, <2>3
  <2> QED BY <2>4 DEF N
<1>6. Below(f[Len(parts)])
  BY <1>5 DEF T
<1>7. ASSUME NEW path, Below(path) PROVE Within(dir, path)
  <2>1. \A i \in 1 .. Len(dir) : path[i] \in S
    BY <1>7, <1>1
  <2>2. SubSeq(path, 1, Len(dir)) \in Seq(S) /\ Len(SubSeq(path, 1, Len(dir))) = Len(dir)
        /\ \A i \in 1 .. Len(dir) : SubSeq(path, 1, Len(dir))[i] = path[i]
    BY <1>1, <2>1, SubSeqProperties
  <2>3. SubSeq(path, 1, Len(dir)) = dir
    BY <1>7, <2>2, SeqEqual
  <2>4. Len(path) >= Len(dir)
    BY <1>7, <1>1
  <2> QED BY <2>3, <2>4 DEF Within
<1> QED BY <1>2, <1>6, <1>7

\* All but the last part of a path: a path one shorter, with the same parts.
LEMMA ButLast ==
  ASSUME NEW S, NEW p \in Seq(S), NEW n \in Nat, n <= Len(p)
  PROVE  /\ SubSeq(p, 1, n) \in Seq(S)
         /\ Len(SubSeq(p, 1, n)) = n
         /\ \A i \in 1 .. n : SubSeq(p, 1, n)[i] = p[i]
<1>1. 1 \in Int /\ n \in Int /\ \A i \in 1 .. n : p[i] \in S
  OBVIOUS
<1> DEFINE front == SubSeq(p, 1, n)
<1>2. /\ front \in Seq(S)
      /\ Len(front) = IF 1 <= n THEN n - 1 + 1 ELSE 0
      /\ \A i \in 1 .. n - 1 + 1 : front[i] = p[1 + i - 1]
  BY <1>1, SubSeqProperties
<1>3. n - 1 + 1 = n /\ (~(1 <= n) => n = 0) /\ \A i \in 1 .. n : 1 + i - 1 = i
  OBVIOUS
<1> HIDE DEF front
<1>4. Len(front) = n
  BY <1>2, <1>3
<1>5. \A i \in 1 .. n : front[i] = p[i]
  BY <1>2, <1>3
<1> QED BY <1>2, <1>4, <1>5 DEF front

\* Where the parts of a resolved path come from: from the directory, or from
\* the parts of the path, and all but the last of it not from its last part.
LEMMA PartsComeFrom ==
  ASSUME NEW S, NEW dir \in Seq(S), NEW parts \in Seq(S), NEW name \in S,
         \A i \in 1 .. Len(dir) : dir[i] # name,
         NEW j \in 1 .. Len(Resolve(dir, parts)) - 1, Resolve(dir, parts)[j] = name
  PROVE  \E i \in 1 .. Len(parts) - 1 : parts[i] = name
<1> DEFINE Before(n) == \E i \in 1 .. n : parts[i] = name
           Come(path, k) ==
             /\ path \in Seq(S)
             /\ \A i \in 1 .. Len(path) : path[i] = name => Before(k)
             /\ \A i \in 1 .. Len(path) - 1 : path[i] = name => Before(k - 1)
<1>1. Len(parts) \in Nat
  OBVIOUS
<1>2. PICK f : Walk(f, dir, parts, Len(parts)) /\ Resolve(dir, parts) = f[Len(parts)]
  BY <1>1, ResolveWalks
<1> DEFINE T == { k \in 0 .. Len(parts) : Come(f[k], k) }
<1>3. 0 \in T
  <2>1. f[0] = dir
    BY <1>1, <1>2, WalkSteps
  <2> QED BY <1>1, <2>1
<1>4. ASSUME NEW k \in 0 .. Len(parts) - 1, k \in T PROVE k + 1 \in T
  <2>1. f[k + 1] = Further(f[k], parts[k + 1], k + 1)
    BY <1>1, <1>2, WalkSteps
  <2>2. k + 1 \in 1 .. Len(parts) /\ parts[k + 1] \in S /\ (k + 1) - 1 = k
    BY <1>1
  <2> DEFINE p == f[k]
             q == f[k + 1]
  <2>3. /\ p \in Seq(S) /\ Len(p) \in Nat
        /\ \A i \in 1 .. Len(p) : p[i] = name => Before(k)
    BY <1>4
  <2>4. Before(k) => Before(k + 1)
    BY <1>1
  <2>5. /\ q \in Seq(S) /\ Len(q) \in Nat
        /\ \A i \in 1 .. Len(q) : q[i] = name => Before(k + 1)
        /\ \A i \in 1 .. Len(q) - 1 : q[i] = name => Before(k)
    <3>1. CASE q = <<>>
      <4>1. q \in Seq(S) /\ Len(q) = 0
        BY <3>1
      <4> HIDE DEF q, Before
      <4> QED BY <4>1
    <3>2. CASE q = p
      BY <2>3, <2>4, <3>2
    <3>3. CASE p # <<>> /\ q = SubSeq(p, 1, Len(p) - 1)
      <4>1. Len(p) - 1 \in Nat /\ \A i \in 1 .. Len(p) - 1 : p[i] \in S
        BY <2>3, <3>3
      <4>2. /\ q \in Seq(S) /\ Len(q) = Len(p) - 1
            /\ \A i \in 1 .. Len(p) - 1 : q[i] = p[i]
        <5> HIDE DEF p, q, T, Come
        <5>1. /\ SubSeq(p, 1, Len(p) - 1) \in Seq(S)
              /\ Len(SubSeq(p, 1, Len(p) - 1)) = Len(p) - 1
              /\ \A i \in 1 .. Len(p) - 1 : SubSeq(p, 1, Len(p) - 1)[i] = p[i]
          <6>1. p \in Seq(S) /\ Len(p) - 1 \in Nat /\ Len(p) - 1 <= Len(p)
            BY <2>3, <4>1
          <6> QED BY <6>1, ButLast
        <5> QED BY <3>3, <5>1
      <4>3. ASSUME NEW i \in 1 .. Len(q), q[i] = name PROVE Before(k)
        <5>1. i \in 1 .. Len(p) /\ p[i] = name
          <6> HIDE DEF p, q
          <6> QED BY <2>3, <4>2, <4>3
        <5> QED BY <2>3, <5>1
      <4>4. Len(q) \in Nat /\ 1 .. Len(q) - 1 \subseteq 1 .. Len(q)
        <5> HIDE DEF p, q
        <5> QED BY <4>1, <4>2
      <4>5. \A i \in 1 .. Len(q) : q[i] = name => Before(k + 1)
        <5> HIDE DEF q, Before
        <5> QED BY <2>4, <4>3
      <4>6. \A i \in 1 .. Len(q) - 1 : q[i] = name => Before(k)
        <5> HIDE DEF q, Before
        <5> QED BY <4>3, <4>4
      <4> HIDE DEF q, Before
      <4> QED BY <4>2, <4>4, <4>5, <4>6
    <3>4. CASE q = Append(p, parts[k + 1])
      <4>1. /\ q \in Seq(S) /\ Len(q) = Len(p) + 1 /\ q[Len(q)] = parts[k + 1]
            /\ \A i \in 1 .. Len(p) : q[i] = p[i]
        BY <2>2, <2>3, <3>4, AppendProperties
      <4>2. parts[k + 1] = name => Before(k + 1)
        BY <2>2
      <4>3. ASSUME NEW i \in 1 .. Len(q) - 1, q[i] = name PROVE Before(k)
        <5>1. i \in 1 .. Len(p) /\ p[i] = name
          <6> HIDE DEF p, q
          <6> QED BY <2>3, <4>1, <4>3
        <5> QED BY <2>3, <5>1
      <4>4. Len(q) \in Nat /\ \A i \in 1 .. Len(q) : i \in 1 .. Len(q) - 1 \/ i = Len(q)
        <5> HIDE DEF p, q
        <5> QED BY <2>3, <4>1
      <4>5. \A i \in 1 .. Len(q) : q[i] = name => Before(k + 1)
        <5> HIDE DEF q, Before
        <5> QED BY <2>4, <4>1, <4>2, <4>3, <4>4
      <4>6. \A i \in 1 .. Len(q) - 1 : q[i] = name => Before(k)
        <5> HIDE DEF q, Before
        <5> QED BY <4>3
      <4> HIDE DEF q, Before
      <4> QED BY <4>1, <4>4, <4>5, <4>6
    <3>5. q = <<>> \/ q = p \/ (p # <<>> /\ q = SubSeq(p, 1, Len(p) - 1)) \/ q = Append(p, parts[k + 1])
      BY <2>1 DEF Further
    <3> QED BY <3>1, <3>2, <3>3, <3>4, <3>5
  <2>6. Come(f[k + 1], k + 1)
    BY <2>2, <2>5
  <2> QED BY <1>1, <2>2, <2>6
<1>5. Len(parts) \in T
  <2> DEFINE N == Len(parts)
  <2>1. N \in Nat /\ N \in 0 .. N
    BY <1>1
  <2>2. 0 \in T /\ \A k \in 0 .. N - 1 : k \in T => k + 1 \in T
    BY <1>3, <1>4
  <2> HIDE DEF N, T
  <2>3. \A k \in 0 .. N : k \in T
    BY <2>1, <2>2, EveryPlace
  <2>4. N \in T
    BY <2>1, <2>3
  <2> QED BY <2>4 DEF N
<1>6. Come(f[Len(parts)], Len(parts))
  BY <1>5
<1> QED BY <1>2, <1>6

\* However a request for a file of the bundle is put together, with steps up
\* and absolute parts anywhere: what is served is a file below the bundle, and
\* if it is one of the untrusted part it is marked as such (serveBundleFile).
THEOREM RawFilesAlwaysMarked ==
  ASSUME NEW S, NEW runDir \in Seq(S), NEW parts \in Seq(S), {"bundle", "raw-untrusted"} \subseteq S,
         \A i \in 1 .. Len(runDir) : runDir[i] # "raw-untrusted",
         NEW files, NEW own \in BOOLEAN, ServeBundleFile(own, runDir, parts, files) = 200
  PROVE  LET bundle == Append(runDir, "bundle")
             path == Resolve(bundle, parts)
         IN /\ path \in files /\ Within(bundle, path)
            /\ (\E j \in 1 .. Len(path) - 1 : path[j] = "raw-untrusted") => MarkedRaw(parts)
<1> DEFINE bundle == Append(runDir, "bundle")
           path == Resolve(bundle, parts)
<1>1. path \in files /\ Within(bundle, path)
  BY DEF ServeBundleFile, Serve
<1>2. /\ bundle \in Seq(S)
      /\ \A i \in 1 .. Len(bundle) : bundle[i] # "raw-untrusted"
  <2>1. /\ bundle \in Seq(S) /\ Len(bundle) = Len(runDir) + 1 /\ bundle[Len(bundle)] = "bundle"
        /\ \A i \in 1 .. Len(runDir) : bundle[i] = runDir[i]
    BY AppendProperties
  <2>2. Len(runDir) \in Nat
    OBVIOUS
  <2> HIDE DEF bundle
  <2> QED BY <2>1, <2>2
<1> HIDE DEF bundle
<1>3. ASSUME NEW j \in 1 .. Len(path) - 1, path[j] = "raw-untrusted" PROVE MarkedRaw(parts)
  BY <1>2, <1>3, PartsComeFrom DEF MarkedRaw
<1> QED BY <1>1, <1>3 DEF bundle

-----------------------------------------------------------------------------
(* The derived files of a bundle.                                          *)

\* What a bundle offers to execute is safe to repeat, all of it, however long
\* its ledger; and what it offers to execute as is there (replayDecision and
\* buildReplayRecipes).
THEOREM OfferedIsRepeatable ==
  ASSUME NEW S, NEW entries \in Seq(S), NEW evidence \in BOOLEAN,
         \A k \in 1 .. Len(entries) : entries[k].safe => entries[k].fixture \/ entries[k].loopback,
         NEW class \in Executable(Reason(entries, evidence))
  PROVE  /\ evidence /\ \A k \in 1 .. Len(entries) : entries[k].safe
         /\ \E k \in 1 .. Len(entries) :
              IF class = "fixture" THEN entries[k].fixture ELSE entries[k].loopback
<1>1. class \in {"fixture", "loopback"} /\ Reason(entries, evidence) \in {class, "both"}
  BY DEF Executable
<1>2. Reason(entries, evidence) # "withheld"
  BY <1>1
<1>3. evidence /\ entries # <<>> /\ \A k \in 1 .. Len(entries) : entries[k].safe
  BY <1>2 DEF Reason
<1>4. \E k \in 1 .. Len(entries) :
        IF class = "fixture" THEN entries[k].fixture ELSE entries[k].loopback
  <2>1. 1 \in 1 .. Len(entries)
    <3>1. Len(entries) \in Nat /\ Len(entries) # 0
      BY <1>3, EmptySeq
    <3> QED BY <3>1
  <2>2. CASE Reason(entries, evidence) = "both"
    <3>1. PICK k \in 1 .. Len(entries) : ~entries[k].fixture
      BY <1>3, <2>2 DEF Reason
    <3>2. PICK j \in 1 .. Len(entries) : ~entries[j].loopback
      BY <1>3, <2>2 DEF Reason
    <3>3. entries[k].loopback /\ entries[j].fixture
      BY <1>3, <3>1, <3>2
    <3> QED BY <3>3
  <2>3. CASE Reason(entries, evidence) = "fixture"
    BY <1>1, <1>3, <2>1, <2>3 DEF Reason
  <2>4. CASE Reason(entries, evidence) = "loopback"
    BY <1>1, <1>3, <2>1, <2>4 DEF Reason
  <2> QED BY <1>1, <2>2, <2>3, <2>4
<1> QED BY <1>3, <1>4

\* Of the environment a bundle was made in, a validation objects to exactly
\* what differs from its own, and to the routes if those of the ledger in the
\* bundle are not those it was made with (currentReproducibilityInputs,
\* expectedReproducibilityInputs, validateReproducibilityFile).
THEOREM DifferencesAreFound ==
  ASSUME NEW made, NEW validating, NEW routes, NEW lines
  PROVE  Mismatches(FileOf(InputsOf(made, routes)), validating, lines)
         = { name \in {"cwd", "packageManager", "fixtureSeed"} :
               InputsOf(made, routes)[name] # InputsOf(validating, routes)[name] }
           \cup { name \in {"routeConfigHash"} : RoutesRead(lines) # routes }
<1> DEFINE inputs == InputsOf(made, routes)
           actual == InputsOf(validating, RoutesRead(lines))
           file == FileOf(inputs)
<1>1. /\ file.readable
      /\ \A name \in {"cwd", "packageManager", "fixtureSeed", "routes", "routeConfigHash"} :
           file.expected[name] = <<inputs[name]>>
      /\ DOMAIN file.expected.routes = {1}
  BY DEF FileOf, InputsOf
<1>2. \A name \in {"cwd", "packageManager", "fixtureSeed", "routeConfigHash"} :
        ExpectedOf(file, name) = <<inputs[name]>>
  <2>1. \A x : <<x>> # <<>>
    OBVIOUS
  <2>2. ASSUME NEW name \in {"cwd", "packageManager", "fixtureSeed", "routeConfigHash"}
        PROVE  ExpectedOf(file, name) = <<inputs[name]>>
    <3>1. file.expected[name] = <<inputs[name]>> /\ file.expected[name] # <<>>
      <4> HIDE DEF file, inputs
      <4> QED BY <1>1, <2>1
    <3> HIDE DEF file, inputs
    <3> QED BY <3>1, Zenon DEF ExpectedOf
  <2> QED BY <2>2
<1>3. inputs.routeConfigHash = RouteHash(routes) /\ inputs.routes = routes
  BY DEF InputsOf
<1>4. ExpectedRoutes(file) = routes
  <2>1. file.expected.routes = <<routes>>
    BY <1>1, <1>3
  <2> HIDE DEF file
  <2> QED BY <2>1 DEF ExpectedRoutes
<1>5. \A r1, r2 : RouteHash(r1) = RouteHash(r2) <=> r1 = r2
  BY DEF RouteHash
<1>6. /\ actual.routeConfigHash = RouteHash(RoutesRead(lines))
      /\ \A name \in {"cwd", "packageManager", "fixtureSeed"} :
           actual[name] = InputsOf(validating, routes)[name]
  BY DEF InputsOf
<1>7. Mismatches(file, validating, lines)
      = { name \in {"cwd", "packageManager", "fixtureSeed"} :
            ExpectedOf(file, name) # <<actual[name]>> }
        \cup { name \in {"routeConfigHash"} :
                 \/ ExpectedOf(file, name) # <<RouteHash(ExpectedRoutes(file))>>
                 \/ ExpectedOf(file, name) # <<actual.routeConfigHash>> }
  <2> HIDE DEF file
  <2> QED BY <1>1 DEF Mismatches
<1> HIDE DEF file, inputs, actual
<1>8. \A x, y : <<x>> = <<y>> <=> x = y
  OBVIOUS
<1>9. \A name \in {"cwd", "packageManager", "fixtureSeed"} :
        ExpectedOf(file, name) # <<actual[name]>>
        <=> inputs[name] # InputsOf(validating, routes)[name]
  BY <1>2, <1>6, <1>8
<1>10. ExpectedOf(file, "routeConfigHash") = <<RouteHash(routes)>>
  BY <1>2, <1>3
<1>11. \A name \in {"routeConfigHash"} :
         (\/ ExpectedOf(file, name) # <<RouteHash(ExpectedRoutes(file))>>
          \/ ExpectedOf(file, name) # <<actual.routeConfigHash>>)
         <=> RoutesRead(lines) # routes
  BY <1>4, <1>5, <1>6, <1>8, <1>10
<1> QED BY <1>7, <1>9, <1>11 DEF file, inputs

\* A set of places that has one has a last one.
LEMMA LastPlace ==
  ASSUME NEW N \in Nat, NEW P \in SUBSET (1 .. N), P # {}
  PROVE  \E last \in P : \A k \in P : k <= last
<1> DEFINE T == { n \in 0 .. N : \/ \A k \in P : ~(k <= n)
                                 \/ \E last \in P : last <= n /\ \A k \in P : k <= n => k <= last }
<1>1. 0 \in T
  OBVIOUS
<1>2. ASSUME NEW n \in 0 .. N - 1, n \in T PROVE n + 1 \in T
  <2>1. CASE n + 1 \in P
    BY <2>1
  <2>2. CASE n + 1 \notin P
    <3>1. \A k \in P : k <= n + 1 => k <= n
      BY <2>2
    <3> QED BY <1>2, <3>1
  <2> QED BY <2>1, <2>2
<1>3. N \in T
  <2> HIDE DEF T
  <2>1. \A k \in 0 .. N : k \in T
    BY <1>1, <1>2, EveryPlace
  <2> QED BY <2>1
<1>4. \A k \in P : k <= N
  OBVIOUS
<1>5. PICK k \in P : TRUE
  OBVIOUS
<1>6. \E last \in P : \A j \in P : j <= N => j <= last
  BY <1>3, <1>4, <1>5
<1> QED BY <1>4, <1>6

\* A bundle tells of every trace its visible events are of, and of none twice,
\* though two events of one trace may give different sources
\* (buildBundleVisibility).
THEOREM OneContextPerTrace ==
  ASSUME NEW events, Len(events) \in Nat
  PROVE  /\ \A a, b \in TraceContexts(events) : a.traceparent = b.traceparent => a = b
         /\ \A k \in Visible(events) : \E context \in TraceContexts(events) :
              context.traceparent = events[k].metadata.context.traceparent
<1> DEFINE Of(k) == events[k].metadata.context
           Last(k) == \A j \in Visible(events) : Of(j).traceparent = Of(k).traceparent => j <= k
<1>1. Visible(events) \in SUBSET (1 .. Len(events))
  BY DEF Visible
<1>2. TraceContexts(events) = { Of(k) : k \in { j \in Visible(events) : Last(j) } }
  BY DEF TraceContexts
<1>3. ASSUME NEW a \in TraceContexts(events), NEW b \in TraceContexts(events),
             a.traceparent = b.traceparent
      PROVE  a = b
  <2>1. PICK i \in Visible(events) : a = Of(i) /\ Last(i)
    BY <1>2
  <2>2. PICK j \in Visible(events) : b = Of(j) /\ Last(j)
    BY <1>2
  <2>3. i <= j /\ j <= i
    BY <1>3, <2>1, <2>2
  <2>4. i = j
    BY <1>1, <2>3
  <2> QED BY <2>1, <2>2, <2>4
<1>4. ASSUME NEW k \in Visible(events)
      PROVE  \E context \in TraceContexts(events) : context.traceparent = Of(k).traceparent
  <2> DEFINE same == { j \in Visible(events) : Of(j).traceparent = Of(k).traceparent }
  <2>1. same \in SUBSET (1 .. Len(events)) /\ same # {}
    BY <1>1
  <2>2. PICK last \in same : \A j \in same : j <= last
    <3> HIDE DEF same
    <3> QED BY <2>1, LastPlace
  <2>3. last \in Visible(events) /\ Last(last) /\ Of(last).traceparent = Of(k).traceparent
    BY <2>2
  <2>4. Of(last) \in TraceContexts(events)
    BY <1>2, <2>3
  <2> QED BY <2>3, <2>4
<1> QED BY <1>3, <1>4

\* A bundle says of a passport that its verification failed only if no event
\* it shows names that passport, and it says it has passed because of an
\* event only if the last event that names it produced evidence, whatever the
\* receipts say (buildBundleVisibility).
THEOREM EventsOverrideReceipts ==
  ASSUME NEW receipts, NEW events, Len(events) \in Nat, NEW id
  PROVE  /\ PassportStatus(receipts, events, id) = "failed" =>
              \A k \in Visible(events) : events[k].passport # id
         /\ \A k \in Visible(events) :
              /\ events[k].passport = id
              /\ \A j \in Visible(events) : events[j].passport = id => j <= k
              => PassportStatus(receipts, events, id)
                   = IF events[k].metadata.producing THEN "passed" ELSE "not-run"
<1> DEFINE named == Naming(events, id) \cap Visible(events)
<1>1. named = { k \in Visible(events) : events[k].passport = id }
  BY DEF Naming, Visible
<1>2. ASSUME named # {}
      PROVE  PassportStatus(receipts, events, id)
             = IF events[LastOf(named)].metadata.producing THEN "passed" ELSE "not-run"
  BY <1>2 DEF PassportStatus
<1>3. ASSUME NEW k \in named, \A j \in named : j <= k PROVE LastOf(named) = k
  <2>1. named \in SUBSET (1 .. Len(events))
    BY DEF Naming
  <2> HIDE DEF named
  <2>2. LastOf(named) \in named /\ \A j \in named : j <= LastOf(named)
    BY <1>3 DEF LastOf
  <2>3. k <= LastOf(named) /\ LastOf(named) <= k
    BY <1>3, <2>2
  <2>4. \A n \in named : n \in Int
    BY <2>1
  <2>5. k \in named /\ LastOf(named) \in named
    BY <1>3, <2>2
  <2> QED BY <2>3, <2>4, <2>5
<1> HIDE DEF named
<1>4. ASSUME PassportStatus(receipts, events, id) = "failed" PROVE named = {}
  BY <1>2, <1>4
<1>5. ASSUME NEW k \in Visible(events), events[k].passport = id,
             \A j \in Visible(events) : events[j].passport = id => j <= k
      PROVE  PassportStatus(receipts, events, id)
             = IF events[k].metadata.producing THEN "passed" ELSE "not-run"
  <2>1. k \in named /\ \A j \in named : j <= k
    BY <1>1, <1>5
  <2>2. LastOf(named) = k
    BY <1>3, <2>1
  <2> QED BY <1>2, <2>1, <2>2
<1> QED BY <1>1, <1>4, <1>5
=============================================================================
