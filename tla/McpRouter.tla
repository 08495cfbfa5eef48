------------------------------ MODULE McpRouter ------------------------------
(***************************************************************************)
(* packages/mcp-adapter/src/index.ts: the router that offers the tools of  *)
(* several downstream MCP servers under virtual names.  It initialises the *)
(* servers one after the other, asks a server for its health before the    *)
(* first call of a route, keeps that verdict with the route, and hands     *)
(* calls to the core session, which is taken at its word here: Session is  *)
(* MediatedCall, the specification CoreSession implements.                 *)
(*                                                                         *)
(* The servers are SdkDownstreamMcpServer objects.  Health of a server is  *)
(* external: it fails and recovers.  A probe asks (Answer...) and stores   *)
(* (Store...) in two steps, since other callbacks run in between.  Of the  *)
(* verdicts, "degraded" is treated by the code as "failed" is.             *)
(***************************************************************************)
EXTENDS Naturals, FiniteSets, Sequences, SequencesExt

CONSTANTS
  Calls,                 \* calls made by the upstream host
  Servers,               \* downstreamServers, in the order of initialisation
  ToolsOf,               \* the tools each server lists, in order
  Names,                 \* virtual names
  VirtualName,           \* toVirtualToolName, for each <<server, tool>>
  BlockedName,           \* a virtual name with the suffix __preflight_blocked
  AllowUnhealthyPreflight,
  MaxRetries,            \* retry.maxRetries of the session
  MaxFlips               \* bound on changes of a server's health

ServerSet == Range(Servers)
Tools == UNION { { <<s, t>> : t \in Range(ToolsOf[s]) } : s \in ServerSet }
NoTool == <<>>
Stub == <<"policy_blocked">>   \* a tool that does nothing but raise it

ASSUME RouterAssumption ==
  /\ \A i, j \in DOMAIN Servers : Servers[i] = Servers[j] => i = j
  /\ VirtualName \in [Tools -> Names]
  /\ BlockedName \in [Range(VirtualName) -> Names]
  /\ \A n \in Range(VirtualName) : BlockedName[n] # n
  /\ Stub \notin Tools
  /\ AllowUnhealthyPreflight \in BOOLEAN
  /\ MaxRetries \in Nat
  /\ MaxFlips \in Nat

VARIABLES
  stage,      \* of create(): <<"connecting"|"listing", i>>, "ready", "failed"
  up,         \* servers that would answer now
  flips,      \* changes of health so far
  client,     \* servers whose #client is set
  routes,     \* #routes: the tool each virtual name leads to
  registered, \* what the registry executes under each name
  verdict,    \* route.preflight
  admin,      \* preflight() of the operator: names still to probe
  adminRead,  \* a probe of it that has its answer, <<name, verdict>>
  closed,     \* #closed
  released,   \* servers whose close() has returned
  pc, name,   \* of each call: its phase and virtual name
  read,       \* the answer a call's own probe got
  asked,      \* the name under which the session looks the call's tool up
  claimed,    \* server and original tool the call's evidence names
  ran,        \* how often each downstream tool ran for the call
  outcome, budget, runs \* of the mediated call

setupVars == <<stage, routes, registered>>
healthVars == <<up, flips, client, closed, released>>
adminVars == <<admin, adminRead>>
sessionVars == <<outcome, budget, runs>>
callVars == <<pc, name, read, asked, claimed, ran>>
vars == <<setupVars, healthVars, verdict, adminVars, callVars, sessionVars>>

Session == INSTANCE MediatedCall WITH MaxBudget <- MaxRetries + 1

Phases == {"idle", "probing", "probed", "unknown", "blocked", "routed", "done"}
Verdicts == {"none", "healthy", "failed"}
Stages == ({"connecting", "listing"} \X (1 .. Len(Servers))) \cup
          {<<"ready">>, <<"failed">>}

TypeOK ==
  /\ stage \in Stages
  /\ up \subseteq ServerSet /\ client \subseteq ServerSet
  /\ released \subseteq ServerSet
  /\ flips \in 0 .. MaxFlips
  /\ routes \in [Names -> Tools \cup {NoTool}]
  /\ registered \in [Names -> Tools \cup {NoTool, Stub}]
  /\ verdict \in [Names -> Verdicts]
  /\ admin \subseteq Names
  /\ adminRead \in (Names \X Verdicts) \cup {<<>>}
  /\ closed \in BOOLEAN
  /\ pc \in [Calls -> Phases]
  /\ name \in [Calls -> Names]
  /\ read \in [Calls -> Verdicts]
  /\ asked \in [Calls -> Names]
  /\ claimed \in [Calls -> Tools \cup {NoTool}]
  /\ ran \in [Calls -> [Tools -> Nat]]
  /\ outcome \in [Calls -> {"none", "pending", "ok", "failed"}]
  /\ budget \in [Calls -> 0 .. MaxRetries + 1]
  /\ runs \in [Calls -> 0 .. MaxRetries + 1]

Init ==
  /\ stage = <<"connecting", 1>>
  /\ up = ServerSet
  /\ flips = 0
  /\ client = {}
  /\ routes = [n \in Names |-> NoTool]
  /\ registered = [n \in Names |-> NoTool]
  /\ verdict = [n \in Names |-> "none"]
  /\ admin = {}
  /\ adminRead = <<>>
  /\ closed = FALSE
  /\ released = {}
  /\ pc = [c \in Calls |-> "idle"]
  /\ name \in [Calls -> Names]
  /\ read = [c \in Calls |-> "none"]
  /\ asked = name
  /\ claimed = [c \in Calls |-> NoTool]
  /\ ran = [c \in Calls |-> [t \in Tools |-> 0]]
  /\ Session!Init

-----------------------------------------------------------------------------
(* create()                                                                *)

Reject(i) ==
  /\ Servers[i] \notin up
  /\ stage' = <<"failed">>
  /\ UNCHANGED <<healthVars, routes, registered>>

\* initialize(): the transport connects and the client is kept, or create()
\* rejects and the servers connected before are left as they are.
Connect(i) ==
  /\ stage = <<"connecting", i>>
  /\ \/ /\ Servers[i] \in up
        /\ client' = client \cup {Servers[i]}
        /\ stage' = <<"listing", i>>
        /\ UNCHANGED <<up, flips, closed, released, routes, registered>>
     \/ Reject(i)
  /\ UNCHANGED <<verdict, adminVars, callVars, sessionVars>>

\* Map.set for the tools of a server in turn: the last of several tools with
\* one virtual name stays.
SetAll(table, s) ==
  [n \in Names |->
     LET same == { k \in DOMAIN ToolsOf[s] : VirtualName[<<s, ToolsOf[s][k]>>] = n }
     IN IF same = {} THEN table[n]
        ELSE <<s, ToolsOf[s][CHOOSE k \in same : \A m \in same : m <= k]>>]

\* Slip: the registry keeps the first of several tools with one name.
RegisterFirst(table, s) ==
  [n \in Names |-> IF table[n] # NoTool THEN table[n] ELSE SetAll(table, s)[n]]

\* register() of the ToolRegistry, for the tools of a server in turn.
Register(table, s) == SetAll(table, s)

\* listTools(), and a route and a registered tool for each.
Discover(i) ==
  /\ stage = <<"listing", i>>
  /\ \/ /\ Servers[i] \in up
        /\ routes' = SetAll(routes, Servers[i])
        /\ registered' = Register(registered, Servers[i])
        /\ stage' = IF i = Len(Servers) THEN <<"ready">>
                    ELSE <<"connecting", i + 1>>
        /\ UNCHANGED healthVars
     \/ Reject(i)
  /\ UNCHANGED <<verdict, adminVars, callVars, sessionVars>>

-----------------------------------------------------------------------------
(* Health and probes.                                                      *)

Flip(s) ==
  /\ flips < MaxFlips
  /\ flips' = flips + 1
  /\ up' = IF s \in up THEN up \ {s} ELSE up \cup {s}
  /\ UNCHANGED <<client, closed, released, setupVars, verdict,
                 adminVars, callVars, sessionVars>>

\* probeRoute(): the server lists its tools, or the probe has failed; so it
\* has when the client is gone.
Health(n) ==
  IF routes[n][1] \in up \cap client THEN "healthy" ELSE "failed"

\* preflight(): the session's own preflight stores nothing in the routes;
\* then every route is probed anew, one after the other.
StartPreflight ==
  /\ stage = <<"ready">> /\ admin = {} /\ adminRead = <<>>
  /\ admin' = { n \in Names : routes[n] # NoTool }
  /\ UNCHANGED <<setupVars, healthVars, verdict, adminRead, callVars,
                 sessionVars>>

AnswerPreflight(n) ==
  /\ n \in admin /\ adminRead = <<>>
  /\ adminRead' = <<n, Health(n)>>
  /\ UNCHANGED <<setupVars, healthVars, verdict, admin, callVars,
                 sessionVars>>

StorePreflight(n) ==
  /\ adminRead # <<>> /\ adminRead[1] = n
  /\ verdict' = [verdict EXCEPT ![n] = adminRead[2]]
  /\ admin' = admin \ {n}
  /\ adminRead' = <<>>
  /\ UNCHANGED <<setupVars, healthVars, callVars, sessionVars>>

-----------------------------------------------------------------------------
(* callVirtualTool()                                                       *)

\* Every call the router makes says idempotency: "idempotent", so the session
\* may repeat it within its retry limit.
AttemptLimit == MaxRetries + 1

\* The session takes the call, under a name and on behalf of a tool.
HandOver(c, phase, n, tool) ==
  /\ pc' = [pc EXCEPT ![c] = phase]
  /\ asked' = [asked EXCEPT ![c] = n]
  /\ claimed' = [claimed EXCEPT ![c] = tool]
  /\ Session!Accept(c) /\ budget'[c] = AttemptLimit /\ runs'[c] = 0

\* The blocked tool is looked up in the registry all tools share: whatever is
\* there under its name stays, be it a tool some server lists.
EnsureBlockedTool(n) ==
  registered' = [registered EXCEPT ![BlockedName[n]] = IF @ = NoTool THEN Stub ELSE @]

\* The call is routed under its own name, or under that of the blocked tool.
Decide(c, found) ==
  LET n == name[c] IN
  IF found = "healthy"
    THEN HandOver(c, "routed", n, routes[n]) /\ UNCHANGED registered
    ELSE HandOver(c, "blocked", BlockedName[n], routes[n]) /\ EnsureBlockedTool(n)

\* A name without a route is left to the registry, which may know a stub.
CallUnknown(c) ==
  /\ stage = <<"ready">> /\ pc[c] = "idle" /\ routes[name[c]] = NoTool
  /\ HandOver(c, "unknown", name[c], NoTool)
  /\ UNCHANGED <<setupVars, healthVars, verdict, adminVars, name, read, ran>>

CallKnown(c) ==
  /\ stage = <<"ready">> /\ pc[c] = "idle" /\ routes[name[c]] # NoTool
  /\ \/ AllowUnhealthyPreflight /\ Decide(c, "healthy")
     \/ /\ ~AllowUnhealthyPreflight /\ verdict[name[c]] # "none"
        /\ Decide(c, verdict[name[c]])
     \/ /\ ~AllowUnhealthyPreflight /\ verdict[name[c]] = "none"
        /\ pc' = [pc EXCEPT ![c] = "probing"]
        /\ UNCHANGED <<registered, asked, claimed, sessionVars>>
  /\ UNCHANGED <<stage, routes, healthVars, verdict, adminVars, name, read, ran>>

AnswerProbe(c) ==
  /\ pc[c] = "probing"
  /\ read' = [read EXCEPT ![c] = Health(name[c])]
  /\ pc' = [pc EXCEPT ![c] = "probed"]
  /\ UNCHANGED <<setupVars, healthVars, verdict, adminVars, name,
                 asked, claimed, ran, sessionVars>>

\* The finding is kept, over any other that came in the meantime, and decides.
StoreProbe(c) ==
  /\ pc[c] = "probed"
  /\ verdict' = [verdict EXCEPT ![name[c]] = read[c]]
  /\ Decide(c, read[c])
  /\ UNCHANGED <<stage, routes, healthVars, adminVars, name, read, ran>>

\* An attempt of the session executes what is registered under the name it was
\* given: the request of a tool reaches the server if there is a client and the
\* server is up.
Run(c) ==
  /\ pc[c] \in {"unknown", "blocked", "routed"}
  /\ registered[asked[c]] # NoTool
  /\ Session!Run(c)
  /\ LET tool == registered[asked[c]] IN
     ran' = IF tool \in Tools /\ tool[1] \in client \cap up
              THEN [ran EXCEPT ![c][tool] = @ + 1] ELSE ran
  /\ UNCHANGED <<setupVars, healthVars, verdict, adminVars, pc, name, read,
                 asked, claimed>>

\* Slip: a call that was answered with a result restores its route's health.
AnswerRestoresHealth(c) ==
  /\ pc[c] \in {"unknown", "blocked", "routed"}
  /\ \/ /\ (\E t \in Tools : ran[c][t] > 0) /\ Session!Succeed(c)
        /\ verdict' = [verdict EXCEPT ![name[c]] = "healthy"]
     \/ Session!Fail(c) /\ verdict' = verdict
  /\ pc' = [pc EXCEPT ![c] = "done"]
  /\ UNCHANGED <<setupVars, healthVars, adminVars, name, read, asked, claimed,
                 ran>>

\* toMcpToolResult of what the session answers.
Answer(c) ==
  /\ pc[c] \in {"unknown", "blocked", "routed"}
  /\ \/ (\E t \in Tools : ran[c][t] > 0) /\ Session!Succeed(c)
     \/ Session!Fail(c)
  /\ pc' = [pc EXCEPT ![c] = "done"]
  /\ UNCHANGED <<setupVars, healthVars, verdict, adminVars, name, read,
                 asked, claimed, ran>>

-----------------------------------------------------------------------------
(* close()                                                                 *)

Close ==
  /\ stage = <<"ready">> /\ ~closed
  /\ closed' = TRUE
  /\ UNCHANGED <<setupVars, up, flips, client, released, verdict,
                 adminVars, callVars, sessionVars>>

\* Slip: the client is kept when the server is closed.
CloseServerKeepsClient(s) ==
  /\ closed /\ s \notin released
  /\ client' = client
  /\ released' = released \cup {s}
  /\ UNCHANGED <<setupVars, up, flips, closed, verdict, adminVars,
                 callVars, sessionVars>>

\* close() of one server returns; calls and probes may still be under way.
CloseServer(s) ==
  /\ closed /\ s \notin released
  /\ client' = client \ {s}
  /\ released' = released \cup {s}
  /\ UNCHANGED <<setupVars, up, flips, closed, verdict, adminVars,
                 callVars, sessionVars>>

Setup == \E i \in DOMAIN Servers : Connect(i) \/ Discover(i)
Probe(n) == AnswerPreflight(n) \/ StorePreflight(n)
Proceed(c) == AnswerProbe(c) \/ StoreProbe(c) \/ Answer(c)

Next ==
  \/ Setup
  \/ \E s \in ServerSet : Flip(s) \/ CloseServer(s)
  \/ StartPreflight \/ Close
  \/ \E n \in Names : Probe(n)
  \/ \E c \in Calls : CallUnknown(c) \/ CallKnown(c) \/ Run(c) \/ Proceed(c)

Spec == Init /\ [][Next]_vars

-----------------------------------------------------------------------------
(* Properties.                                                             *)

\* What the evidence names is what ran: a call only reaches the server and
\* tool its events claim, also where names collide.  An unknown one reaches none;
\* a blocked one none either, unless a server lists a tool under the very name of
\* the blocked one, which then runs in its place.
RightToolRuns ==
  \A c \in Calls : \A t \in Tools :
    ran[c][t] > 0 =>
      IF asked[c] = name[c] THEN t = claimed[c] ELSE t = routes[asked[c]]

\* Among probes of one route, whoever stores last decides: a verdict never
\* becomes healthy by a call, unless that call had begun to probe while there
\* was no verdict.  A server that recovers stays blocked until preflight().
OnlyProbesLift ==
  [][\A n \in Names :
       verdict[n] = "failed" /\ verdict'[n] = "healthy" =>
         \/ adminRead = <<n, "healthy">>
         \/ \E c \in Calls : pc[c] = "probed" /\ name[c] = n /\ pc'[c] = "routed"]_vars

\* No request reaches a server after close() of it has returned, although
\* attempts and probes go on and close() does not wait for them.
ClosedForGood ==
  [][\A c \in Calls, t \in Tools :
       t[1] \in released => ran'[c][t] = ran[c][t]]_vars
=============================================================================
