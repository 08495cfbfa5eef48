------------------------------ MODULE CoreServer ------------------------------
(***************************************************************************)
(* packages/core/src/server.ts with the session behind it: requests arrive *)
(* over HTTP, their handlers append events and ledger entries, and every   *)
(* view (health, triage, topology, coverage) is computed from these.       *)
(*                                                                         *)
(* A handler's events up to the next time it waits for a tool are appended *)
(* in one step; how the events of two calls interleave is the subject of   *)
(* CoreSession.  Between the steps of a call other requests are served,    *)
(* tools write to the workspace, clients give up, other runs forward       *)
(* events, time passes, and the core is restarted.                         *)
(*                                                                         *)
(* An event is in the log, where every view counts it at once, before it   *)
(* is written to the files; a process that ends in between leaves them as  *)
(* they are then, the history perhaps cut short.                           *)
(*                                                                         *)
(* Bounds: MaxRequests requests (the seed run is one), MaxNow ticks,       *)
(* MaxWrites writes of tools to either part of a workspace, MaxFailing     *)
(* failing checks of a verification, MaxRestarts restarts, CutAt places    *)
(* where a rewriting may be cut short.                                     *)
(***************************************************************************)
EXTENDS TopologyView, FailureViews, CoverageView, ServerRequests

CONSTANTS
  MaxRequests,
  MaxNow,
  MaxRestarts,
  MaxWrites,
  CutAt,       \* after which ids a rewriting of the history may be cut short
  MaxFailing,  \* how many checks of one verification may fail
  MaxRetries,  \* retry.maxRetries
  Threshold,   \* circuitBreaker.failureThreshold
  OpenTicks    \* circuitBreaker.openMs

VARIABLES
  log,       \* session.recorder.events
  ledger,    \* session.recorder.ledger
  unwritten, \* those of the log's events the history has to get yet
  history,   \* the events of coverage-history.jsonl
  pc,        \* of each call: "idle", "executing", "failed", "done"
  attempt,   \* the number of its attempt
  card,      \* the failure card of its latest failed attempt
  before,    \* the workspace when the attempt began, and
  content,   \* now: what a look at it covers, and the rest
  fails,     \* #failures of each target
  opened,    \* #circuit: when the target's was opened, or Closed
  told,      \* what the client of a call holds as its answer
  now,
  requests,  \* how many were made
  session,   \* how many sessions there were before this one
  serial     \* no event was emitted while another call was executing or
             \* another request's events were being written

vars == <<log, ledger, unwritten, history, pc, attempt, card, before, content, fails,
          opened, told, now, requests, session, serial>>
callVars == <<pc, attempt, before, told>>

Closed == -1
Target(c) == <<RequestOf[c].server, RequestOf[c].tool>>
Targets == { Target(c) : c \in Calls }
NoCard == [failure |-> "none", repeated |-> 0, loop |-> "none"]

ASSUME ServerAssumption ==
  /\ {MaxRequests, MaxNow, MaxRestarts, MaxWrites, MaxFailing, MaxRetries, OpenTicks} \subseteq Nat
  /\ Threshold \in Nat \ {0} /\ CutAt \subseteq Int
  /\ \A c \in Calls :
       /\ RequestOf[c].entry \in {"sidecar", "seed", "replay"}
       /\ RequestOf[c].fault \in
            {"none", "sidecar_protocol_error", "unknown_tool", "invalid_arguments"}
       \* what its tool may do: answer within the output limit or over it, or fail
       /\ RequestOf[c].outcomes \subseteq {"within", "over"} \cup FailureTypes
       /\ RequestOf[c].writes \subseteq Places
       \* the tool of a refused call is not known
       /\ RequestOf[c].fault # "none" => RequestOf[c].risk = "none"
  \* the call a probe makes has an id of its own
  /\ \A t \in Tasks : RequestOf[t].op = "verify" => RequestOf[t].probe \in Tasks \cup {NoCall}

Init ==
  /\ log = <<>> /\ ledger = <<>> /\ unwritten = {} /\ history = {}
  /\ pc = [c \in Calls |-> "idle"]
  /\ attempt = [c \in Calls |-> 0]
  /\ card = [c \in Calls |-> NoCard]
  /\ content = [place \in Places |-> 0]
  /\ before = [c \in Calls |-> content]
  /\ fails = [t \in Targets |-> 0]
  /\ opened = [t \in Targets |-> Closed]
  /\ told = [c \in Calls |-> "waiting"]
  /\ now = 0 /\ requests = 0 /\ session = 0 /\ serial = TRUE

\* #emit of every event of a step, as far as the log, and what is to be written
\* to the history next: what counts there.  (An event of a step is appended when
\* the one before it is written: a view may count it a little earlier here.)
AppendEvents(events) ==
  /\ log' = log \o events
  /\ unwritten' = unwritten \cup { e \in ToSet(events) : IsHistoryEvent(e) }
  /\ UNCHANGED history

Publish(events) == AppendEvents(Stamped(events, session * 100 + Len(log), now))

\* The handler of call c waits until its events are written.
Settled(c) == \A e \in unwritten : e.call # c

\* What a rewriting of the history that is cut short leaves: its first lines,
\* which have the order of the ids (an ingested event, whose id is lower than
\* any, counts as the first); a torn line is passed over when it is read.
CutShort(lines) == { { e \in lines : e.id <= last } : last \in CutAt }

Record(entries) == ledger' = ledger \o entries

-----------------------------------------------------------------------------
(* What a step of a call emits.                                            *)

Artifact(c, n, kind) == Event("evidence.artifact.created", c, n, kind)
Effects(c, n) == <<Event("side_effect.recorded", c, n, "none"),
                   Event("blast_radius.scored", c, n, "none")>>

\* fixture.* preflights of the seed run answer healthy or what they found.
RunPreflight(c, status) ==
  <<Carrying("server.preflight.started", NoCall, 0, [seed |-> c]),
    Carrying("server.preflight.completed", NoCall, 0,
      [seed |-> c, findings |-> Target(c) :> status])>>

\* executeToolCall up to the check of tool and arguments; the sidecar
\* announces its adapter first.
Start(c) ==
  (IF RequestOf[c].entry = "sidecar"
     THEN <<Event("adapter.connected", NoCall, 0, c)>> ELSE <<>>)
  \o <<Event("run.started", c, 1, "none"), Event("tool.call.started", c, 1, "none"),
       Event("server.preflight.started", c, 1, "none")>>

Checked(c, status) == <<Event("server.preflight.completed", c, 1, status)>>
Decision(c, n, decision) == <<Event("policy.decision", c, n, decision)>>
RunCompleted(c, n) == <<Event("run.completed", c, n, "none")>>

\* buildCallFingerprint: failures of the same tool with the same arguments.
Repeated(c, failure) ==
  1 + Cardinality({ i \in Failures(log) :
        /\ log[i].call \in Calls /\ Target(log[i].call) = Target(c)
        /\ log[i].data.failure = failure })

CardOf(c, failure) ==
  [failure |-> failure, repeated |-> Repeated(c, failure),
   loop |-> LoopClass(Repeated(c, failure), FALSE)]

\* Slip: a call keeps the card of its first failure.
CardedOnce(c, failure) ==
  card' = IF card[c] = NoCard THEN [card EXCEPT ![c] = CardOf(c, failure)] ELSE card

Carded(c, failure) == card' = [card EXCEPT ![c] = CardOf(c, failure)]

\* #recordFailure: its events and its ledger entry.
FailureEvents(c, n, failure) ==
  <<Artifact(c, n, "raw-stderr")>> \o Effects(c, n)
  \o (IF CardOf(c, failure).loop = "loop-detected"
        THEN <<Event("retry_loop.detected", c, n, "none")>> ELSE <<>>)
  \o <<Carrying("tool.call.failed", c, n, CardOf(c, failure))>>

\* Slip: the raw result is linked whether there was one or not.
LinksAlways(n, failure) == {<<n, "raw-stderr">>, <<n, "raw-result">>}

FailureLinks(n, failure) ==
  {<<n, "raw-stderr">>} \cup (IF failure \in UnsafeOutput THEN {<<n, "raw-result">>} ELSE {})

FailureEntry(c, n, failure, impact) ==
  <<LedgerEntry(c, n, IF failure \in Blocked THEN "blocked" ELSE "failed", failure,
                impact, CardOf(c, failure).loop, FailureLinks(n, failure))>>

\* What a success emits from the result's artifact to the ledger.
SuccessEvents(c, n, overLimit) ==
  <<Artifact(c, n, "raw-result")>>
  \o (IF overLimit THEN <<Event("output.sanitized", c, n, "none")>> ELSE <<>>)
  \o <<Event("tool.call.completed", c, n, "none")>> \o Effects(c, n)

SuccessEntry(c, n, impact) ==
  <<LedgerEntry(c, n, "completed", "none", impact, "none", {<<n, "raw-result">>})>>

-----------------------------------------------------------------------------
(* Calls.                                                                  *)

Answered(c, answer) ==
  /\ pc' = [pc EXCEPT ![c] = "done"]
  /\ told' = [told EXCEPT ![c] = IF @ = "waiting" THEN answer ELSE @]

Arrives(c) == pc[c] = "idle" /\ requests < MaxRequests /\ requests' = requests + 1

\* failToolCall: a body the sidecar cannot read or a version it does not know.
SidecarRefuses(c) ==
  /\ Arrives(c) /\ RequestOf[c].fault = "sidecar_protocol_error"
  /\ LET failure == RequestOf[c].fault IN
       /\ Publish(<<Event("run.started", c, 1, "none"),
                   Event("tool.call.started", c, 1, "none")>>
                 \o FailureEvents(c, 1, failure) \o RunCompleted(c, 1))
       /\ Record(FailureEntry(c, 1, failure, NoImpact))
       /\ Carded(c, failure)
       /\ Answered(c, failure)
  /\ attempt' = [attempt EXCEPT ![c] = 1]
  /\ UNCHANGED <<before, content, fails, opened, now, session>>

\* An unknown tool, or arguments its schema refuses.
BadRequest(c) ==
  /\ Arrives(c) /\ RequestOf[c].fault \in {"unknown_tool", "invalid_arguments"}
  /\ LET failure == RequestOf[c].fault IN
       /\ Publish(Start(c) \o Checked(c, "failed") \o FailureEvents(c, 1, failure)
                 \o RunCompleted(c, 1))
       /\ Record(FailureEntry(c, 1, failure, NoImpact))
       /\ Carded(c, failure)
       /\ Answered(c, failure)
  /\ attempt' = [attempt EXCEPT ![c] = 1]
  /\ UNCHANGED <<before, content, fails, opened, now, session>>

\* #evaluateCircuit, then #evaluatePolicy.
Verdict(c) ==
  IF opened[Target(c)] # Closed /\ now - opened[Target(c)] < OpenTicks THEN "fail-fast"
  ELSE IF RequestOf[c].risk = "high" /\ ~RequestOf[c].fixtureOnly THEN "block"
  ELSE "allow"

Containment(verdict) ==
  IF verdict = "fail-fast" THEN "circuit_open" ELSE "destructive_action_blocked"

\* #executeAttempt up to the tool: the workspace is looked at, the circuit and
\* the policy are asked; a contained attempt fails here.
Attempt(c, n, events, entries) ==
  LET verdict == Verdict(c)  failure == Containment(verdict) IN
  /\ attempt' = [attempt EXCEPT ![c] = n]
  /\ before' = [before EXCEPT ![c] = content]
  /\ IF verdict = "allow"
       THEN /\ Publish(events \o Decision(c, n, verdict))
            /\ Record(entries)
            /\ pc' = [pc EXCEPT ![c] = "executing"]
            /\ UNCHANGED card
       ELSE /\ Publish(events \o Decision(c, n, verdict) \o FailureEvents(c, n, failure))
            /\ Record(entries \o FailureEntry(c, n, failure,
                                   Impact(RequestOf[c], content, content)))
            /\ pc' = [pc EXCEPT ![c] = "failed"]
            /\ Carded(c, failure)

Begin(c) ==
  /\ Arrives(c) /\ RequestOf[c].fault = "none" /\ RequestOf[c].entry = "sidecar"
  /\ Attempt(c, 1, Start(c) \o Checked(c, "healthy"), <<>>)
  /\ UNCHANGED <<content, fails, opened, told, now, session>>

\* The seed run of a core that got no session, as soon as it listens.
Seed(c) ==
  /\ Arrives(c) /\ RequestOf[c].entry = "seed" /\ log = <<>>
  /\ \E status \in {"healthy", "degraded"} :
       Attempt(c, 1, RunPreflight(c, status) \o Start(c) \o Checked(c, "healthy"), <<>>)
  /\ UNCHANGED <<content, fails, opened, told, now, session>>

\* The tool answers, within the output limit or over it.
Complete(c) ==
  /\ pc[c] = "executing" /\ Settled(c)
  /\ \E answer \in RequestOf[c].outcomes \cap {"within", "over"} :
       Publish(SuccessEvents(c, attempt[c], answer = "over")
              \o (IF opened[Target(c)] # Closed
                    THEN <<Event("circuit.closed", c, attempt[c], "none")>> ELSE <<>>)
              \o RunCompleted(c, attempt[c]))
  /\ Record(SuccessEntry(c, attempt[c], Impact(RequestOf[c], before[c], content)))
  /\ fails' = [fails EXCEPT ![Target(c)] = 0]
  /\ opened' = [opened EXCEPT ![Target(c)] = Closed]
  /\ Answered(c, "success")
  /\ UNCHANGED <<attempt, card, before, content, now, requests, session>>

\* #recordTargetFailure.
Opens(c, failure) ==
  /\ failure \in Qualifying
  /\ fails[Target(c)] + 1 >= Threshold /\ opened[Target(c)] = Closed

\* The tool throws, passes its deadline, or answers what is not safe to show.
\* An unsafe answer is recorded without a look at the workspace.
FailAttempt(c, failure) ==
  /\ pc[c] = "executing" /\ Settled(c) /\ failure \in RequestOf[c].outcomes
  /\ LET n == attempt[c]  unsafe == failure \in UnsafeOutput IN
       /\ Publish((IF unsafe THEN <<Artifact(c, n, "raw-result"),
                                   Event("output.sanitized", c, n, "none")>> ELSE <<>>)
                 \o FailureEvents(c, n, failure)
                 \o (IF Opens(c, failure)
                       THEN <<Event("circuit.opened", c, n, "none")>> ELSE <<>>))
       /\ Record(FailureEntry(c, n, failure,
                   IF unsafe THEN NoImpact ELSE Impact(RequestOf[c], before[c], content)))
  /\ fails' = [fails EXCEPT ![Target(c)] = IF failure \in Qualifying THEN @ + 1 ELSE @]
  /\ opened' = [opened EXCEPT ![Target(c)] = IF Opens(c, failure) THEN now ELSE @]
  /\ Carded(c, failure)
  /\ pc' = [pc EXCEPT ![c] = "failed"]
  /\ UNCHANGED <<attempt, before, content, told, now, requests, session>>

\* Slip: the attempts are not counted.
RetriesForever(c) ==
  /\ card[c].failure \in Retryable \ DoNotRetrySameCall
  /\ RequestOf[c].idempotent /\ RequestOf[c].risk \notin {"medium", "high"}

\* #shouldRetry.
Retries(c) ==
  /\ card[c].failure \in Retryable \ DoNotRetrySameCall
  /\ attempt[c] <= MaxRetries
  /\ RequestOf[c].idempotent /\ RequestOf[c].risk \notin {"medium", "high"}

\* The retry is planned in the ledger, and begins.
Retry(c) ==
  /\ pc[c] = "failed" /\ Settled(c) /\ Retries(c)
  /\ LET n == attempt[c] + 1 IN
       Attempt(c, n,
         <<Event("tool.retry.scheduled", c, n, "none")>> \o Effects(c, n)
           \o <<Event("tool.call.started", c, n, "none")>>,
         <<LedgerEntry(c, n, "retry", card[c].failure, NoImpact,
                       LoopClass(card[c].repeated, TRUE),
                       FailureLinks(attempt[c], card[c].failure))>>)
  /\ UNCHANGED <<content, fails, opened, told, now, requests, session>>

\* The failure is the answer.
GiveUp(c) ==
  /\ pc[c] = "failed" /\ Settled(c) /\ ~Retries(c)
  /\ Publish(RunCompleted(c, attempt[c]))
  /\ Answered(c, card[c].failure)
  /\ UNCHANGED <<ledger, attempt, card, before, content, fails, opened, now,
                 requests, session>>

\* The Python client's own timeout, where it is the shorter one; the sidecar
\* goes on with the call.
ClientGivesUp(c) ==
  /\ RequestOf[c].entry = "sidecar" /\ RequestOf[c].impatient /\ told[c] = "waiting"
  /\ pc[c] \in {"executing", "failed"}
  /\ told' = [told EXCEPT ![c] = "sidecar_unavailable"]
  /\ UNCHANGED <<log, ledger, unwritten, history, pc, attempt, card, before, content, fails,
                 opened, now, requests, session>>

\* A tool writes while it is called, or after it was given up at a deadline.
ToolWrites(c) ==
  /\ RequestOf[c].workspace # "none"
  /\ (pc[c] = "executing" /\ Settled(c)) \/ card[c].failure = "timeout"
  /\ \E place \in RequestOf[c].writes :
       content[place] < MaxWrites /\ content' = [content EXCEPT ![place] = @ + 1]
  /\ UNCHANGED <<log, ledger, unwritten, history, callVars, card, fails, opened, now, requests,
                 session>>

-----------------------------------------------------------------------------
(* Replay.                                                                 *)

Replay(c) ==
  /\ Arrives(c) /\ RequestOf[c].entry = "replay"
  /\ \E q \in ReplayRequests : ReplayVerdict(q) = "run"
  /\ Attempt(c, 1, Start(c) \o Checked(c, "healthy"), <<>>)
  /\ UNCHANGED <<content, fails, opened, told, now, session>>

-----------------------------------------------------------------------------
(* Requests that run no registered tool.                                   *)

Does(t, op) ==
  RequestOf[t].op = op /\ requests < MaxRequests /\ requests' = requests + 1
Quiet == UNCHANGED <<callVars, card, content, fails, opened, now, session>>

ImportEvents(t) == <<Artifact(t, 1, "safe-summary"), Event("visibility.imported", t, 1, "none")>>

\* importHttpWebhookEvidence, importBrowserEvidence.
Import(t) ==
  /\ Does(t, "import")
  /\ Publish(ImportEvents(t))
  /\ UNCHANGED ledger /\ Quiet

\* simulatePolicy.
Simulate(t) ==
  /\ Does(t, "simulate")
  /\ Publish(<<Artifact(t, 1, "policy-simulation"), Event("policy.simulated", NoCall, 0, "none")>>)
  /\ UNCHANGED ledger /\ Quiet

\* The probe of a route that runs in this session leaves its own evidence:
\* an import, or a wrapped call that succeeds.
ProbeEvents(p) ==
  IF p = NoCall THEN <<>>
  ELSE IF RequestOf[p].op = "import" THEN ImportEvents(p)
  ELSE Start(p) \o Checked(p, "healthy") \o Decision(p, 1, "allow")
                \o SuccessEvents(p, 1, FALSE) \o RunCompleted(p, 1)
ProbeEntries(p) ==
  IF p = NoCall \/ RequestOf[p].op = "import" THEN <<>> ELSE SuccessEntry(p, 1, NoImpact)

\* What the probes of a route may find: each passes or, where failing is
\* caught, is not verified.
ChecksOf(route) ==
  LET all == Capabilities(route) IN
  { [k \in DOMAIN all |-> IF k \in failing THEN "not-yet-verified" ELSE all[k]] :
      failing \in { s \in SUBSET DOMAIN all : IF CanFail(route)
                      THEN Cardinality(s) <= MaxFailing ELSE s = {} } }

Receipt(t, checks) == ReceiptOf(RequestOf[t].verifies, RequestOf[t].asks, checks)

\* verifyIntegrationRoute.
Verify(t) ==
  /\ Does(t, "verify")
  /\ \E checks \in ChecksOf(RequestOf[t].verifies) :
       Publish(ProbeEvents(RequestOf[t].probe)
               \o <<Artifact(t, 1, "verification-receipt"),
                    Carrying("integration.verified", NoCall, 0, Receipt(t, checks))>>)
  /\ Record(ProbeEntries(RequestOf[t].probe))
  /\ Quiet

\* A graph, a narrative, a report or a bundle, which holds a report, is made;
\* its event has the ids of the latest event.
Generate ==
  /\ requests < MaxRequests /\ requests' = requests + 1
  /\ \E type \in {"topology.generated", "narrative.generated", "report.exported"} :
       Publish(<<Echo(log, type)>>)
  /\ UNCHANGED ledger /\ Quiet
ExportBundle ==
  /\ requests < MaxRequests /\ requests' = requests + 1
  /\ Publish(<<Echo(log, "report.exported"), Echo(log, "bundle.exported")>>)
  /\ UNCHANGED ledger /\ Quiet

\* /api/events/ingest: another run's event is appended as it is, with its own
\* id (a number no own event has) and time, also when it was ingested before.
Ingest(f) ==
  /\ requests < MaxRequests /\ requests' = requests + 1
  /\ \E at \in 0 .. now :
       LET e == Dated(Carrying("tool.call.failed", f, 1, [NoCard EXCEPT !.failure = "timeout"]),
                      RequestOf[f].event, at)
       IN /\ \A i \in DOMAIN log : log[i].call = f => log[i].at = at
          /\ AppendEvents(<<e>>)
  /\ UNCHANGED ledger /\ Quiet

-----------------------------------------------------------------------------
(* Files, time and restart.                                                *)

\* appendCoverageHistoryEvent.  The history is read, changed and written
\* back for each of its events: where two handlers write at a time an event may
\* be missing from it, and history is what it holds at most.
Write ==
  /\ unwritten # {}
  /\ unwritten' = {} /\ history' = history \cup unwritten
  /\ UNCHANGED <<log, ledger, callVars, card, content, fails, opened, now, requests,
                 session>>

Tick ==
  /\ log # <<>> /\ now < MaxNow /\ now' = now + 1
  /\ UNCHANGED <<log, ledger, unwritten, history, callVars, card, content, fails, opened,
                 requests, session>>

\* A new process with a new session: its clients are cut off, what the session
\* held is gone, the history file is still there.  The old process may have
\* ended before or while it wrote the history.
Restart ==
  /\ session < MaxRestarts /\ log # <<>>
  /\ session' = session + 1
  /\ log' = <<>> /\ ledger' = <<>> /\ unwritten' = {}
  /\ history' \in IF unwritten = {} THEN {history}
                  ELSE {history} \cup CutShort(history \cup unwritten)
  /\ pc' = [c \in Calls |-> IF pc[c] = "idle" THEN "idle" ELSE "done"]
  /\ told' = [c \in Calls |-> IF pc[c] # "idle" /\ (told[c] = "waiting" \/ ~Settled(c))
                              THEN "sidecar_unavailable" ELSE told[c]]
  /\ attempt' = [c \in Calls |-> 0] /\ card' = [c \in Calls |-> NoCard]
  /\ fails' = [t \in Targets |-> 0]
  /\ opened' = [t \in Targets |-> Closed]
  /\ before' = [c \in Calls |-> content]
  /\ UNCHANGED <<content, now, requests>>

CallStep(c) ==
  \/ SidecarRefuses(c) \/ BadRequest(c) \/ Begin(c) \/ Seed(c) \/ Replay(c)
  \/ Complete(c)
  \/ \E failure \in RequestOf[c].outcomes \cap FailureTypes : FailAttempt(c, failure)
  \/ Retry(c) \/ GiveUp(c) \/ ClientGivesUp(c) \/ ToolWrites(c)

TaskStep(t) == Import(t) \/ Simulate(t) \/ Verify(t)

\* Calls in flight that a step is not about.
Bystanders ==
  { c \in Calls : /\ pc[c] \in {"executing", "failed"}
                  /\ pc'[c] = pc[c] /\ attempt'[c] = attempt[c] }

Step ==
  \/ \E c \in Calls : CallStep(c)
  \/ \E t \in Tasks : TaskStep(t)
  \/ \E f \in Forwarded : Ingest(f)
  \/ Generate \/ ExportBundle \/ Write \/ Tick \/ Restart

Next ==
  Step /\ serial' = (serial /\ (log' = log \/ (Bystanders = {} /\ unwritten = {})))

Spec == Init /\ [][Next]_vars

-----------------------------------------------------------------------------
(* Properties.                                                             *)

TypeOK ==
  /\ \A i \in DOMAIN log : log[i].call \in AllCalls \cup {NoCall}
  /\ \A k \in DOMAIN ledger :
       ledger[k].call \in AllCalls /\ ledger[k].effect \in EffectStates
  /\ pc \in [Calls -> {"idle", "executing", "failed", "done"}]
  /\ attempt \in [Calls -> 0 .. MaxRetries + 1]
  /\ told \in [Calls -> {"waiting", "success"} \cup FailureTypes]
  /\ unwritten \subseteq { log[i] : i \in DOMAIN log }
  /\ content \in [Places -> 0 .. MaxWrites]
  /\ before \in [Calls -> [Places -> 0 .. MaxWrites]]
  /\ fails \in [Targets -> Nat] /\ opened \in [Targets -> {Closed} \cup 0 .. MaxNow]
  /\ now \in 0 .. MaxNow /\ requests \in 0 .. MaxRequests
  /\ session \in 0 .. MaxRestarts /\ serial \in BOOLEAN

Ends(edges) == { e[2] : e \in edges } \cup { e[3] : e \in edges }

\* The graph of a run is closed: every edge of the topology, also those the
\* ledger draws to artifacts of the attempt it is about or of the one before
\* it, joins two nodes the graph has, whatever the log has reached and whoever
\* forwarded events into it (buildRunTopology).
GraphClosed ==
  LET nodes == Nodes(log, ledger) IN Ends(Edges(log, ledger)) \subseteq nodes

\* What a client was told of a call is what the log says of it last: success
\* if it ended completed, and else the failure of its latest attempt, also
\* when a circuit another call opened stopped the retry.  Only a client that
\* gave up knows nothing (executeToolCall, failToolCall).
ClientTold ==
  \A c \in Calls :
    LET ends == { i \in DOMAIN log : log[i].call = c /\ log[i].type \in Terminal } IN
    ends # {} /\ told[c] \notin {"waiting", "sidecar_unavailable"} =>
      LET e == log[Max(ends)] IN
      IF told[c] = "success" THEN e.type = "tool.call.completed"
      ELSE e.type = "tool.call.failed" /\ e.data.failure = told[c]

\* A deadline leaves it unknown what the tool did; the ledger clears that to
\* "none" for a call observed in a temporary directory only if nothing the look
\* covers of it changed since the attempt began, whichever tool wrote it.
ClearedWasQuiet ==
  [][\A k \in DOMAIN ledger' \ DOMAIN ledger :
       LET c == ledger'[k].call IN
       /\ c \in Calls /\ RequestOf[c].workspace = "temp"
       /\ pc[c] = "executing" /\ card'[c].failure = "timeout"
       /\ ledger'[k].effect = "none"
       => content.covered = before[c].covered]_vars

\* While a session lasts a group of failures is never rated lower than before:
\* a later, lesser failure of the group does not hide what an earlier one of
\* it left in the ledger (assignSeverity over relatedLedger, although the card
\* it reads is the latest only).
SeverityNeverDrops ==
  [][session' = session =>
       \A g \in Groups(log) :
         SeverityScore(log', ledger', g) >= SeverityScore(log, ledger, g)]_vars

\* A restart costs no route what is claimed of it, where requests came one at
\* a time and what they emitted is written: the coverage history has every
\* event the matrix counts (isCoverageHistoryEvent against isCoverageEvent,
\* mergeCoverageEvents).
ClaimSurvivesRestart ==
  [][session' # session /\ serial /\ unwritten = {} =>
       \A route \in Routes :
         Claim(CoverageRow(Merge(history', log'), route, now))
           = Claim(CoverageRow(Merge(history, log), route, now))]_vars

\* An MCP host is claimed to be available only after a verification of that
\* host, and not of another one: policy-simulator.test.ts keeps passport
\* availability "scoped to exact host metadata" (receiptMatchesMcpPassport).
ClaimScopedToHost ==
  \A passport \in Passports :
    LET events == Merge(history, log) IN
    PassportClaim(events, passport, now) # "not-yet-verified" =>
      \E e \in Receipts(events, "mcp-routed") :
        e.data.meta.hostId \in PassportHosts(passport)

\* What a ledger entry says against an effect: the observation after the call
\* found no workspace mutation (observed-impact.ts).
CounterEvidenceHolds ==
  [][\A k \in DOMAIN ledger' \ DOMAIN ledger :
       LET c == ledger'[k].call IN
       c \in Calls /\ ledger'[k].unmutated => content = before'[c]]_vars
=============================================================================
