----------------------------- MODULE McpRouterProofs -----------------------------
(***************************************************************************)
(* Theorems about McpRouter for any servers, tools, names, calls and        *)
(* bounds: which tool runs for a call, who lifts a failed verdict, and what *)
(* reaches a server that was closed.                                       *)
(***************************************************************************)
EXTENDS McpRouter, TLAPS

\* The part of TypeOK these theorems need.
RouterType ==
  /\ verdict \in [Names -> Verdicts]
  /\ adminRead \in (Names \X Verdicts) \cup {<<>>}
  /\ admin \subseteq Names
  /\ pc \in [Calls -> Phases]
  /\ name \in [Calls -> Names]
  /\ read \in [Calls -> Verdicts]
  /\ asked \in [Calls -> Names]
  /\ registered = [n \in Names |-> registered[n]]
  /\ claimed = [c \in Calls |-> claimed[c]]
  /\ ran \in [Calls -> [Tools -> Nat]]

Setups == {"connecting", "listing"}
Unrun == {"idle", "probing", "probed"}

\* A virtual name that has a tool is registered for it; a stub only takes a
\* name that leads nowhere.
TablesAgree ==
  /\ \A n \in Names : \/ registered[n] = routes[n]
                      \/ routes[n] = NoTool /\ registered[n] = Stub
  /\ \A n \in Names : routes[n] # NoTool => n \in Range(VirtualName)

\* Both tables are built by the same loop, and the routes are final when the
\* first call can come: a call claims what its name leads to, and runs what
\* the name it was handed over with leads to.
RoutingInv ==
  /\ TablesAgree
  /\ stage[1] \in Setups => registered = routes /\ \A c \in Calls : pc[c] = "idle"
  /\ \A c \in Calls : pc[c] \in Unrun => \A t \in Tools : ran[c][t] = 0
  /\ \A c \in Calls : pc[c] \notin Unrun => claimed[c] = routes[name[c]]
  /\ \A c \in Calls, t \in Tools : ran[c][t] > 0 => t = routes[asked[c]]
  /\ \A c \in Calls : pc[c] \in {"probing", "probed"} => routes[name[c]] # NoTool

\* Servers are only closed when no server is connected any more.
ClosingInv ==
  /\ closed => stage = <<"ready">>
  /\ released # {} => closed
  /\ client \cap released = {}

RouterInv == RouterType /\ RoutingInv /\ ClosingInv

-----------------------------------------------------------------------------
LEMMA HealthIsVerdict ==
  ASSUME NEW n PROVE Health(n) \in {"healthy", "failed"}
BY DEF Health

LEMMA InitRouterInv == Init => RouterInv
<1> SUFFICES ASSUME Init PROVE RouterInv
  OBVIOUS
<1>1. RouterType
  BY DEF Init, RouterType, Verdicts, Phases
<1>2. RoutingInv
  <2>1. \A c \in Calls : pc[c] = "idle" /\ \A t \in Tools : ran[c][t] = 0
    BY DEF Init
  <2>2. registered = routes /\ \A n \in Names : routes[n] = NoTool
    BY DEF Init
  <2> QED BY <2>1, <2>2 DEF RoutingInv, TablesAgree, Unrun
<1>3. ClosingInv
  BY DEF Init, ClosingInv
<1> QED BY <1>1, <1>2, <1>3 DEF RouterInv

\* create(): no call is there yet, so the tables may change.
LEMMA SetupStep ==
  ASSUME RouterInv, NEW i \in DOMAIN Servers, Connect(i) \/ Discover(i)
  PROVE  RouterInv'
<1>1. stage[1] \in Setups /\ stage # <<"ready">>
  BY DEF Connect, Discover, Setups
<1>2. /\ ~closed /\ released = {}
      /\ \A c \in Calls : pc[c] = "idle"
  BY <1>1 DEF RouterInv, RoutingInv, ClosingInv
<1>3. UNCHANGED <<verdict, admin, adminRead, pc, name, read, asked, claimed, ran,
                  closed, released>>
  BY DEF Connect, Discover, Reject, callVars, healthVars, adminVars
<1>4. registered' = routes' /\ registered' = [n \in Names |-> registered'[n]]
  <2>1. registered = routes /\ registered = [n \in Names |-> registered[n]]
    BY <1>1 DEF RouterInv, RoutingInv, RouterType
  <2>2. \/ UNCHANGED <<registered, routes>>
        \/ /\ registered' = SetAll(registered, Servers[i])
           /\ routes' = SetAll(routes, Servers[i])
    BY DEF Connect, Discover, Reject, Register
  <2>3. SetAll(registered, Servers[i]) = [n \in Names |-> SetAll(registered, Servers[i])[n]]
    BY DEF SetAll
  <2> QED BY <2>1, <2>2, <2>3
<1>5. \A n \in Names : routes'[n] # NoTool => n \in Range(VirtualName)
  <2>1. CASE UNCHANGED routes
    BY <2>1 DEF RouterInv, RoutingInv, TablesAgree
  <2>2. CASE routes' = SetAll(routes, Servers[i])
    <3> DEFINE s == Servers[i]
               same(n) == { k \in DOMAIN ToolsOf[s] :
                              VirtualName[<<s, ToolsOf[s][k]>>] = n }
    <3> SUFFICES ASSUME NEW n \in Names, routes'[n] # NoTool
                 PROVE  n \in Range(VirtualName)
      OBVIOUS
    <3>1. CASE same(n) = {}
      <4>1. routes'[n] = routes[n]
        BY <2>2, <3>1 DEF SetAll
      <4> QED BY <4>1 DEF RouterInv, RoutingInv, TablesAgree
    <3>2. CASE same(n) # {}
      <4>1. PICK k \in DOMAIN ToolsOf[s] : VirtualName[<<s, ToolsOf[s][k]>>] = n
        BY <3>2
      <4>2. s \in ServerSet /\ ToolsOf[s][k] \in Range(ToolsOf[s])
        BY <4>1 DEF ServerSet, Range
      <4>3. <<s, ToolsOf[s][k]>> \in Tools
        BY <4>2 DEF Tools
      <4> QED BY <4>1, <4>3, RouterAssumption DEF Range
    <3> QED BY <3>1, <3>2
  <2> QED BY <2>1, <2>2 DEF Connect, Discover, Reject
<1>6. \A c \in Calls : pc'[c] = "idle" /\ \A t \in Tools : ran'[c][t] = 0
  BY <1>2, <1>3 DEF RouterInv, RoutingInv, Unrun
<1>7. RoutingInv'
  BY <1>4, <1>5, <1>6 DEF RoutingInv, TablesAgree, Unrun
<1>8. RouterType'
  BY <1>3, <1>4 DEF RouterInv, RouterType
<1> QED BY <1>2, <1>3, <1>7, <1>8 DEF RouterInv, ClosingInv

\* What does not touch a call or a table.
LEMMA ServerStep ==
  ASSUME RouterInv,
         \/ StartPreflight \/ Close
         \/ \E s \in ServerSet : Flip(s) \/ CloseServer(s)
         \/ \E n \in Names : Probe(n)
  PROVE  RouterInv'
<1>1. UNCHANGED <<setupVars, callVars>>
  BY DEF StartPreflight, Close, Flip, CloseServer, Probe, AnswerPreflight,
         StorePreflight, setupVars, callVars
<1>2. RoutingInv'
  BY <1>1 DEF RouterInv, RoutingInv, TablesAgree, setupVars, callVars
<1>3. /\ verdict' \in [Names -> Verdicts]
      /\ adminRead' \in (Names \X Verdicts) \cup {<<>>}
      /\ admin' \subseteq Names
  <2>1. CASE \E n \in Names : AnswerPreflight(n)
    BY <2>1, HealthIsVerdict DEF AnswerPreflight, RouterInv, RouterType, Verdicts
  <2>2. CASE \E n \in Names : StorePreflight(n)
    BY <2>2 DEF StorePreflight, RouterInv, RouterType
  <2>3. CASE StartPreflight
    BY <2>3 DEF StartPreflight, RouterInv, RouterType
  <2>4. CASE Close \/ \E s \in ServerSet : Flip(s) \/ CloseServer(s)
    BY <2>4 DEF Close, Flip, CloseServer, adminVars, RouterInv, RouterType
  <2> QED BY <2>1, <2>2, <2>3, <2>4 DEF Probe
<1>4. RouterType'
  BY <1>1, <1>3 DEF RouterInv, RouterType, callVars, setupVars
<1>5. ClosingInv'
  <2>1. CASE Close
    BY <2>1 DEF Close, RouterInv, ClosingInv, setupVars
  <2>2. CASE \E s \in ServerSet : CloseServer(s)
    BY <2>2 DEF CloseServer, RouterInv, ClosingInv, setupVars
  <2>3. CASE StartPreflight \/ \E s \in ServerSet : Flip(s)
    BY <2>3 DEF StartPreflight, Flip, RouterInv, ClosingInv, setupVars, healthVars
  <2>4. CASE \E n \in Names : Probe(n)
    BY <2>4 DEF Probe, AnswerPreflight, StorePreflight, RouterInv, ClosingInv,
                setupVars, healthVars
  <2> QED BY <2>1, <2>2, <2>3, <2>4
<1> QED BY <1>2, <1>4, <1>5 DEF RouterInv

\* The session takes a call that has not run anything.
LEMMA HandOverStep ==
  ASSUME RouterInv, NEW c \in Calls, NEW phase \in Phases \ Unrun, NEW n \in Names,
         HandOver(c, phase, n, routes[name[c]]), pc[c] \in {"idle", "probed"},
         UNCHANGED <<routes, name, ran>>, stage[1] \notin Setups, stage' = stage,
         TablesAgree'
  PROVE  /\ pc' \in [Calls -> Phases]
         /\ asked' \in [Calls -> Names]
         /\ claimed' = [d \in Calls |-> claimed'[d]]
         /\ RoutingInv'
<1> DEFINE tool == routes[name[c]]
<1>1. /\ pc' = [pc EXCEPT ![c] = phase]
      /\ asked' = [asked EXCEPT ![c] = n]
      /\ claimed' = [claimed EXCEPT ![c] = tool]
  BY DEF HandOver
<1>2. /\ pc \in [Calls -> Phases]
      /\ asked \in [Calls -> Names]
      /\ claimed = [d \in Calls |-> claimed[d]]
      /\ ran \in [Calls -> [Tools -> Nat]]
  BY DEF RouterInv, RouterType
<1>3. \A t \in Tools : ran[c][t] = 0
  BY DEF RouterInv, RoutingInv, Unrun
<1>4. /\ pc' \in [Calls -> Phases] /\ pc'[c] = phase
      /\ asked' \in [Calls -> Names]
      /\ claimed'[c] = tool
      /\ claimed' = [d \in Calls |-> claimed'[d]]
      /\ \A d \in Calls \ {c} : /\ pc'[d] = pc[d] /\ claimed'[d] = claimed[d]
                                /\ asked'[d] = asked[d]
  BY <1>1, <1>2
<1>5. stage'[1] \notin Setups
  BY DEF Setups
<1>6. \A d \in Calls : pc'[d] \in Unrun => \A t \in Tools : ran'[d][t] = 0
  BY <1>3, <1>4 DEF RouterInv, RoutingInv
<1>7. \A d \in Calls : pc'[d] \notin Unrun => claimed'[d] = routes'[name'[d]]
  BY <1>4 DEF RouterInv, RoutingInv
<1>8. \A d \in Calls, t \in Tools : ran'[d][t] > 0 => t = routes'[asked'[d]]
  BY <1>3, <1>4 DEF RouterInv, RoutingInv
<1>9. \A d \in Calls :
        pc'[d] \in {"probing", "probed"} => routes'[name'[d]] # NoTool
  BY <1>4 DEF RouterInv, RoutingInv, Unrun
<1> QED BY <1>4, <1>5, <1>6, <1>7, <1>8, <1>9 DEF RoutingInv

\* A stub is put where nothing is; its name may be one that a tool has.
LEMMA DecideStep ==
  ASSUME RouterInv, NEW c \in Calls, NEW found, Decide(c, found),
         pc[c] \in {"idle", "probed"}, routes[name[c]] # NoTool,
         UNCHANGED <<routes, name, ran>>, stage[1] \notin Setups, stage' = stage
  PROVE  /\ pc' \in [Calls -> Phases]
         /\ asked' \in [Calls -> Names]
         /\ claimed' = [d \in Calls |-> claimed'[d]]
         /\ registered' = [n \in Names |-> registered'[n]]
         /\ RoutingInv'
<1> DEFINE m == BlockedName[name[c]]
<1>1. /\ name[c] \in Names
      /\ registered = [n \in Names |-> registered[n]]
      /\ TablesAgree
  BY DEF RouterInv, RouterType, RoutingInv
<1>2. CASE found = "healthy"
  <2>1. HandOver(c, "routed", name[c], routes[name[c]]) /\ UNCHANGED registered
    BY <1>2 DEF Decide
  <2>2. "routed" \in Phases \ Unrun
    BY DEF Phases, Unrun
  <2>3. TablesAgree'
    BY <1>1, <2>1 DEF TablesAgree
  <2> QED BY <1>1, <2>1, <2>2, <2>3, HandOverStep
<1>3. CASE found # "healthy"
  <2>1. /\ HandOver(c, "blocked", m, routes[name[c]])
        /\ registered' = [registered EXCEPT ![m] = IF @ = NoTool THEN Stub ELSE @]
    BY <1>3 DEF Decide, EnsureBlockedTool
  <2>2. "blocked" \in Phases \ Unrun
    BY DEF Phases, Unrun
  <2>3. m \in Names
    BY <1>1, RouterAssumption DEF TablesAgree
  <2>4. /\ registered' = [n \in Names |-> registered'[n]]
        /\ registered'[m] = IF registered[m] = NoTool THEN Stub ELSE registered[m]
        /\ \A n \in Names \ {m} : registered'[n] = registered[n]
    BY <1>1, <2>1, <2>3
  <2>5. TablesAgree'
    BY <1>1, <2>3, <2>4 DEF TablesAgree
  <2> QED BY <2>1, <2>2, <2>3, <2>4, <2>5, HandOverStep
<1> QED BY <1>2, <1>3

\* The calls: from the request to the hand-over, and after it.
LEMMA TakeStep ==
  ASSUME RouterInv, NEW c \in Calls, CallUnknown(c) \/ CallKnown(c)
  PROVE  RouterInv'
<1> DEFINE Asks == /\ pc' = [pc EXCEPT ![c] = "probing"]
                   /\ UNCHANGED <<registered, asked, claimed, sessionVars>>
<1>1. /\ stage = <<"ready">> /\ pc[c] = "idle"
      /\ UNCHANGED <<stage, routes, healthVars, verdict, adminVars, name, read, ran>>
  BY DEF CallUnknown, CallKnown, setupVars
<1>2. stage[1] \notin Setups
  BY <1>1 DEF Setups
<1>3. ClosingInv'
  BY <1>1 DEF RouterInv, ClosingInv, healthVars
<1>4. /\ pc' \in [Calls -> Phases]
      /\ asked' \in [Calls -> Names]
      /\ claimed' = [d \in Calls |-> claimed'[d]]
      /\ registered' = [n \in Names |-> registered'[n]]
      /\ RoutingInv'
  <2>1. CASE CallUnknown(c)
    <3>1. /\ HandOver(c, "unknown", name[c], routes[name[c]])
          /\ UNCHANGED registered /\ name[c] \in Names
      BY <2>1 DEF CallUnknown, setupVars, RouterInv, RouterType
    <3>2. "unknown" \in Phases \ Unrun
      BY DEF Phases, Unrun
    <3>3. TablesAgree' /\ registered' = [n \in Names |-> registered'[n]]
      BY <1>1, <3>1 DEF RouterInv, RouterType, RoutingInv, TablesAgree
    <3> QED BY <1>1, <1>2, <3>1, <3>2, <3>3, HandOverStep
  <2>2. CASE routes[name[c]] # NoTool /\ \E found : Decide(c, found)
    BY <1>1, <1>2, <2>2, DecideStep
  <2>3. CASE Asks /\ routes[name[c]] # NoTool
    <3>1. /\ pc' \in [Calls -> Phases] /\ pc'[c] = "probing"
          /\ \A d \in Calls \ {c} : pc'[d] = pc[d]
      BY <2>3 DEF Phases, RouterInv, RouterType
    <3>2. UNCHANGED <<registered, asked, claimed>> /\ \A t \in Tools : ran[c][t] = 0
      BY <1>1, <2>3 DEF RouterInv, RoutingInv, Unrun
    <3>3. TablesAgree'
      BY <1>1, <3>2 DEF RouterInv, RoutingInv, TablesAgree
    <3>4. \A d \in Calls : pc'[d] \in Unrun => \A t \in Tools : ran'[d][t] = 0
      BY <1>1, <3>1, <3>2 DEF RouterInv, RoutingInv
    <3>5. \A d \in Calls : pc'[d] \notin Unrun => claimed'[d] = routes'[name'[d]]
      BY <1>1, <3>1, <3>2 DEF RouterInv, RoutingInv, Unrun
    <3>6. /\ \A d \in Calls, t \in Tools : ran'[d][t] > 0 => t = routes'[asked'[d]]
          /\ \A d \in Calls :
               pc'[d] \in {"probing", "probed"} => routes'[name'[d]] # NoTool
      BY <1>1, <2>3, <3>1, <3>2 DEF RouterInv, RoutingInv
    <3>7. RoutingInv'
      BY <1>1, <1>2, <3>3, <3>4, <3>5, <3>6 DEF RoutingInv
    <3> QED BY <3>1, <3>2, <3>7 DEF RouterInv, RouterType
  <2> QED BY <2>1, <2>2, <2>3 DEF CallKnown
<1> QED BY <1>1, <1>3, <1>4 DEF RouterInv, RouterType, adminVars

LEMMA ProbeStep ==
  ASSUME RouterInv, NEW c \in Calls, AnswerProbe(c) \/ StoreProbe(c)
  PROVE  RouterInv'
<1>1. CASE AnswerProbe(c)
  <2>1. /\ UNCHANGED <<setupVars, healthVars, verdict, adminVars, name, asked,
                       claimed, ran>>
        /\ pc' = [pc EXCEPT ![c] = "probed"] /\ pc[c] = "probing"
        /\ read' \in [Calls -> Verdicts]
    BY <1>1, HealthIsVerdict DEF AnswerProbe, Verdicts, RouterInv, RouterType
  <2>2. /\ pc' \in [Calls -> Phases] /\ pc'[c] = "probed"
        /\ \A d \in Calls \ {c} : pc'[d] = pc[d]
    BY <2>1 DEF Phases, RouterInv, RouterType
  <2>3. \A t \in Tools : ran[c][t] = 0
    BY <2>1 DEF RouterInv, RoutingInv, Unrun
  <2>4. stage[1] \notin Setups
    BY <2>1 DEF RouterInv, RoutingInv
  <2>5. RoutingInv'
    BY <2>1, <2>2, <2>3, <2>4
       DEF RouterInv, RoutingInv, TablesAgree, Unrun, setupVars
  <2> QED BY <2>1, <2>2, <2>5 DEF RouterInv, RouterType, ClosingInv, setupVars,
                                  healthVars, adminVars
<1>2. CASE StoreProbe(c)
  <2>1. /\ UNCHANGED <<stage, routes, healthVars, adminVars, name, read, ran>>
        /\ pc[c] = "probed" /\ Decide(c, read[c])
        /\ verdict' \in [Names -> Verdicts]
    BY <1>2 DEF StoreProbe, RouterInv, RouterType
  <2>2. stage[1] \notin Setups /\ routes[name[c]] # NoTool
    BY <2>1 DEF RouterInv, RoutingInv
  <2>3. /\ pc' \in [Calls -> Phases]
        /\ asked' \in [Calls -> Names]
        /\ claimed' = [d \in Calls |-> claimed'[d]]
        /\ registered' = [n \in Names |-> registered'[n]]
        /\ RoutingInv'
    BY <2>1, <2>2, DecideStep
  <2> QED BY <2>1, <2>3 DEF RouterInv, RouterType, ClosingInv, healthVars, adminVars
<1> QED BY <1>1, <1>2

\* A run is of what is registered under the name the call was handed over with.
LEMMA RunStep ==
  ASSUME RouterInv, NEW c \in Calls, Run(c)
  PROVE  RouterInv'
<1> DEFINE tool == registered[asked[c]]
<1>1. /\ pc[c] \notin Unrun
      /\ UNCHANGED <<setupVars, healthVars, verdict, adminVars, pc, name, read,
                     asked, claimed>>
  BY DEF Run, Unrun
<1>2. ran \in [Calls -> [Tools -> Nat]] /\ asked \in [Calls -> Names]
  BY DEF RouterInv, RouterType
<1>3. \/ ran' = ran
      \/ tool \in Tools /\ ran' = [ran EXCEPT ![c][tool] = @ + 1]
  BY DEF Run
<1>4. tool \in Tools => tool = routes[asked[c]]
  BY <1>2, RouterAssumption DEF RouterInv, RoutingInv, TablesAgree
<1>5. /\ ran' \in [Calls -> [Tools -> Nat]]
      /\ \A d \in Calls, t \in Tools :
           ran'[d][t] = ran[d][t] \/ (d = c /\ t = routes[asked[c]])
  BY <1>2, <1>3, <1>4
<1>6. RoutingInv'
  BY <1>1, <1>5 DEF RouterInv, RoutingInv, TablesAgree, setupVars
<1> QED BY <1>1, <1>5, <1>6 DEF RouterInv, RouterType, ClosingInv, setupVars,
                                healthVars, adminVars

LEMMA AnswerStep ==
  ASSUME RouterInv, NEW c \in Calls, Answer(c)
  PROVE  RouterInv'
<1>1. /\ pc' = [pc EXCEPT ![c] = "done"] /\ pc[c] \notin Unrun
      /\ UNCHANGED <<setupVars, healthVars, verdict, adminVars, name, read, asked,
                     claimed, ran>>
  BY DEF Answer, Unrun
<1>2. /\ pc' \in [Calls -> Phases] /\ pc'[c] = "done"
      /\ \A d \in Calls \ {c} : pc'[d] = pc[d]
  BY <1>1 DEF Phases, RouterInv, RouterType
<1>3. stage[1] \notin Setups
  BY <1>1 DEF RouterInv, RoutingInv, Unrun
<1>4. RoutingInv'
  BY <1>1, <1>2, <1>3 DEF RouterInv, RoutingInv, TablesAgree, Unrun, setupVars
<1> QED BY <1>1, <1>2, <1>4 DEF RouterInv, RouterType, ClosingInv, setupVars,
                                healthVars, adminVars

LEMMA RouterInvariant == Spec => []RouterInv
<1>1. RouterInv /\ [Next]_vars => RouterInv'
  <2> SUFFICES ASSUME RouterInv, [Next]_vars PROVE RouterInv'
    OBVIOUS
  <2>1. CASE Setup
    BY <2>1, SetupStep DEF Setup
  <2>2. CASE \/ StartPreflight \/ Close
             \/ \E s \in ServerSet : Flip(s) \/ CloseServer(s)
             \/ \E n \in Names : Probe(n)
    BY <2>2, ServerStep
  <2>3. CASE \E c \in Calls : CallUnknown(c) \/ CallKnown(c) \/ Run(c) \/ Proceed(c)
    BY <2>3, TakeStep, ProbeStep, RunStep, AnswerStep DEF Proceed
  <2>4. CASE UNCHANGED vars
    BY <2>4 DEF vars, setupVars, healthVars, adminVars, callVars, RouterInv,
                RouterType, RoutingInv, TablesAgree, ClosingInv
  <2> QED BY <2>1, <2>2, <2>3, <2>4 DEF Next
<1> QED BY <1>1, InitRouterInv, PTL DEF Spec

-----------------------------------------------------------------------------
(* The theorems.                                                           *)

\* Whatever servers share a virtual name, and however calls, probes and
\* initialisation interleave, a call reaches only the server and the tool its
\* evidence names; a blocked one reaches at most a tool that has the name of
\* its stub.
THEOREM OnlyClaimedToolRuns == Spec => []RightToolRuns
<1>1. RouterInv => RightToolRuns
  <2> SUFFICES ASSUME RouterInv, NEW c \in Calls, NEW t \in Tools, ran[c][t] > 0
               PROVE  IF asked[c] = name[c] THEN t = claimed[c] ELSE t = routes[asked[c]]
    BY DEF RightToolRuns
  <2>1. pc[c] \notin Unrun
    BY DEF RouterInv, RoutingInv
  <2> QED BY <2>1 DEF RouterInv, RoutingInv
<1> QED BY <1>1, RouterInvariant, PTL

\* A route that was found unhealthy is offered again only on the word of a
\* probe: the operator's, or one that a call began before the finding.
THEOREM OnlyProbesLiftVerdicts == Spec => OnlyProbesLift
<1> DEFINE Lift(n) ==
             verdict[n] = "failed" /\ verdict'[n] = "healthy" =>
               \/ adminRead = <<n, "healthy">>
               \/ \E c \in Calls : pc[c] = "probed" /\ name[c] = n /\ pc'[c] = "routed"
<1>1. RouterInv /\ [Next]_vars => \A n \in Names : Lift(n)
  <2> SUFFICES ASSUME RouterInv, [Next]_vars, NEW n \in Names,
                      verdict[n] = "failed", verdict'[n] = "healthy"
               PROVE  \/ adminRead = <<n, "healthy">>
                      \/ \E c \in Calls : /\ pc[c] = "probed" /\ name[c] = n
                                          /\ pc'[c] = "routed"
    OBVIOUS
  <2>1. /\ verdict \in [Names -> Verdicts]
        /\ adminRead \in (Names \X Verdicts) \cup {<<>>}
        /\ pc \in [Calls -> Phases]
    BY DEF RouterInv, RouterType
  <2>2. CASE \E m \in Names : StorePreflight(m)
    BY <2>1, <2>2 DEF StorePreflight
  <2>3. CASE \E c \in Calls : StoreProbe(c)
    <3>1. PICK c \in Calls : StoreProbe(c)
      BY <2>3
    <3>2. name[c] = n /\ read[c] = "healthy"
      BY <2>1, <3>1 DEF StoreProbe
    <3>3. pc' = [pc EXCEPT ![c] = "routed"]
      BY <3>1, <3>2 DEF StoreProbe, Decide, HandOver
    <3>4. pc'[c] = "routed" /\ pc[c] = "probed"
      BY <2>1, <3>1, <3>3 DEF StoreProbe
    <3> QED BY <3>2, <3>4
  <2>4. CASE UNCHANGED verdict
    BY <2>4
  <2>5. \/ UNCHANGED verdict
        \/ \E m \in Names : StorePreflight(m)
        \/ \E c \in Calls : StoreProbe(c)
    BY DEF Next, Setup, Connect, Discover, Flip, CloseServer, StartPreflight, Close,
           Probe, AnswerPreflight, CallUnknown, CallKnown, Run, Proceed, AnswerProbe,
           Answer, vars
  <2> QED BY <2>2, <2>3, <2>4, <2>5
<1> QED BY <1>1, RouterInvariant, PTL DEF Spec, OnlyProbesLift

\* close() does not wait for the calls and probes under way, and yet none of
\* them reaches a server whose close() has returned.
THEOREM ClosedServersRest == Spec => ClosedForGood
<1> DEFINE Rests == \A c \in Calls, t \in Tools :
                      t[1] \in released => ran'[c][t] = ran[c][t]
<1>1. RouterInv /\ [Next]_vars => Rests
  <2> SUFFICES ASSUME RouterInv, [Next]_vars, NEW c \in Calls, NEW t \in Tools,
                      t[1] \in released
               PROVE  ran'[c][t] = ran[c][t]
    OBVIOUS
  <2>1. CASE \E d \in Calls : Run(d)
    <3>1. PICK d \in Calls : Run(d)
      BY <2>1
    <3>2. ran \in [Calls -> [Tools -> Nat]] /\ t[1] \notin client
      BY DEF RouterInv, RouterType, ClosingInv
    <3> DEFINE tool == registered[asked[d]]
    <3>3. ran' = IF tool \in Tools /\ tool[1] \in client \cap up
                   THEN [ran EXCEPT ![d][tool] = @ + 1] ELSE ran
      BY <3>1 DEF Run
    <3>4. CASE tool[1] \in client
      <4>1. tool # t
        BY <3>2, <3>4
      <4> QED BY <3>2, <3>3, <4>1
    <3>5. CASE tool[1] \notin client
      BY <3>3, <3>5
    <3> QED BY <3>4, <3>5
  <2>2. CASE UNCHANGED ran
    BY <2>2
  <2>3. UNCHANGED ran \/ \E d \in Calls : Run(d)
    BY DEF Next, Setup, Connect, Discover, Flip, CloseServer, StartPreflight, Close,
           Probe, AnswerPreflight, StorePreflight, CallUnknown, CallKnown, Proceed,
           AnswerProbe, StoreProbe, Answer, vars, callVars
  <2> QED BY <2>1, <2>2, <2>3
<1> QED BY <1>1, RouterInvariant, PTL DEF Spec, ClosedForGood
================================================================================
