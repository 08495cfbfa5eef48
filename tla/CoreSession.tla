----------------------------- MODULE CoreSession -----------------------------
(***************************************************************************)
(* packages/core/src/session.ts: concurrent tool calls through one         *)
(* CoreSession.  A call is submitted, checked, and then attempted up to    *)
(* MaxRetries + 1 times; each attempt asks the target's circuit and the    *)
(* safety policy, runs the downstream tool against a deadline and an       *)
(* abort signal, and reports its outcome to the circuit.                   *)
(*                                                                         *)
(* JavaScript runs one callback at a time, so the code between two awaits  *)
(* is one step here; calls interleave at the awaits, and a phase (pc) is   *)
(* named for what the call is about to do after its await.  Awaits of      *)
(* which no decision depends (events and artifacts written one after the   *)
(* other) are folded into the step they lead to.  An evidence write may    *)
(* fail: inside the try of executeAttempt this turns the attempt into an   *)
(* "unknown" failure, elsewhere it rejects the promise of the call.        *)
(*                                                                         *)
(* Left out: the text of events, cards and artifacts, the ledger's blast   *)
(* radius, and the observed impact on files (they decide nothing here).    *)
(***************************************************************************)
EXTENDS Naturals, FiniteSets, FailureClassification

CONSTANTS
  Calls,            \* tool calls made through the session
  Targets,          \* circuit keys, downstreamServerId:toolName
  Registered,       \* the targets whose tool is in the registry
  Risk,             \* destructiveRisk of each target's tool
  Requests,         \* what a call may ask for, see RequestRecords
  ThrownTypes,      \* failure types a downstream tool may raise
  MaxRetries,       \* retry.maxRetries
  FailureThreshold, \* circuitBreaker.failureThreshold
  OpenMs,           \* circuitBreaker.openMs, in ticks of the clock
  MaxNow,           \* bound on the clock
  MaxWriteFaults    \* bound on failing evidence writes

\* The entry point used, and the facts about the call that decide its fate.
\* "fixtureOnly" stands for valid arguments with fixtureOnly: true.
RequestRecords ==
  [ entry : {"execute", "fail", "mediate"},
    target : Targets,
    args : {"plain", "fixtureOnly", "invalid"},
    idempotent : BOOLEAN,
    deadline : BOOLEAN ]

ASSUME SessionAssumption ==
  /\ IsFiniteSet(Calls)
  /\ Registered \subseteq Targets
  /\ Risk \in [Targets -> {"none", "low", "medium", "high"}]
  /\ Requests \subseteq RequestRecords
  /\ ThrownTypes \subseteq FailureTypes
  /\ MaxRetries \in Nat
  /\ FailureThreshold \in Nat \ {0}
  /\ OpenMs \in Nat
  /\ MaxNow \in Nat
  /\ MaxWriteFaults \in Nat

VARIABLES
  now,          \* the session's clock
  open,         \* targets with an entry in the circuit map
  openedAt,     \* openedAtMs of that entry, meaningless for other targets
  failures,     \* qualifying failures counted against each target
  fingerprints, \* repeated failures per call fingerprint
  req,          \* the request of each call, fixed by the caller
  pc,           \* the phase each call is in
  attempt,      \* attemptIndex
  failure,      \* failure type of the attempt, "none" before one
  result,       \* "none", "ok" or "failed"
  cancelled,    \* the caller's AbortSignal has fired
  running,      \* attempts whose downstream execution has not settled
  executions,   \* downstream executions started for the call
  events,       \* events published for the call, by kind
  circuitLog,   \* circuit.opened and circuit.closed published per target
  faults        \* calls that met a failing evidence write

breakerVars == <<now, open, openedAt, failures, circuitLog>>
callVars == <<pc, attempt, failure, result, cancelled>>
toolVars == <<running, executions>>
vars == <<breakerVars, callVars, toolVars, fingerprints, req, events, faults>>

Phases ==
  { "idle", "attempt", "admitted", "executing", "succeeded", "crediting",
    "closing", "unsafe", "failed", "debiting", "opening", "denied", "rejected",
    "deciding", "returning", "returned", "threw" }

\* tool.call.started, tool.call.failed, tool.call.completed,
\* tool.retry.scheduled and run.completed.
EventKinds == {"started", "failed", "completed", "retries", "finished"}

\* buildCallFingerprint hashes server, tool, arguments and failure type.
Fingerprints ==
  Targets \X {"plain", "fixtureOnly", "invalid"} \X FailureTypes

Fingerprint(c, ft) == <<req[c].target, req[c].args, ft>>

LoopThreshold == 3

Attempts == 0 .. MaxRetries

TargetOf(c) == req[c].target

TypeOK ==
  /\ now \in Nat
  /\ open \subseteq Targets
  /\ openedAt \in [Targets -> Nat]
  /\ failures \in [Targets -> Nat]
  /\ fingerprints \in [Fingerprints -> Nat]
  /\ req \in [Calls -> Requests]
  /\ pc \in [Calls -> Phases]
  /\ attempt \in [Calls -> Attempts]
  /\ failure \in [Calls -> FailureTypes \cup {"none"}]
  /\ result \in [Calls -> {"none", "ok", "failed"}]
  /\ cancelled \in [Calls -> BOOLEAN]
  /\ running \in [Calls -> SUBSET Attempts]
  /\ executions \in [Calls -> Nat]
  /\ events \in [Calls -> [EventKinds -> Nat]]
  /\ circuitLog \in [Targets -> [{"opened", "closed"} -> Nat]]
  /\ faults \subseteq Calls

Init ==
  /\ now = 0
  /\ open = {}
  /\ openedAt = [t \in Targets |-> 0]
  /\ failures = [t \in Targets |-> 0]
  /\ fingerprints = [f \in Fingerprints |-> 0]
  /\ req \in [Calls -> Requests]
  /\ pc = [c \in Calls |-> "idle"]
  /\ attempt = [c \in Calls |-> 0]
  /\ failure = [c \in Calls |-> "none"]
  /\ result = [c \in Calls |-> "none"]
  /\ cancelled = [c \in Calls |-> FALSE]
  /\ running = [c \in Calls |-> {}]
  /\ executions = [c \in Calls |-> 0]
  /\ events = [c \in Calls |-> [k \in EventKinds |-> 0]]
  /\ circuitLog = [t \in Targets |-> [k \in {"opened", "closed"} |-> 0]]
  /\ faults = {}

Publish(c, kind) == events' = [events EXCEPT ![c][kind] = @ + 1]

PublishCircuit(t, kind) ==
  circuitLog' = [circuitLog EXCEPT ![t][kind] = @ + 1]

Goto(c, from, to) ==
  /\ pc[c] = from
  /\ pc' = [pc EXCEPT ![c] = to]

-----------------------------------------------------------------------------
(* Entry points.                                                           *)

\* executeToolCall up to the start of its attempt loop.
ExecuteToolCall(c) ==
  /\ req[c].entry = "execute"
  /\ Publish(c, "started")
  /\ \/ /\ TargetOf(c) \notin Registered
        /\ Goto(c, "idle", "rejected")
        /\ failure' = [failure EXCEPT ![c] = "unknown_tool"]
     \/ /\ TargetOf(c) \in Registered
        /\ req[c].args = "invalid"
        /\ Goto(c, "idle", "rejected")
        /\ failure' = [failure EXCEPT ![c] = "invalid_arguments"]
     \/ /\ TargetOf(c) \in Registered
        /\ req[c].args # "invalid"
        /\ Goto(c, "idle", "attempt")
        /\ UNCHANGED failure
  /\ UNCHANGED <<breakerVars, toolVars, attempt, result, cancelled,
                 fingerprints, req, faults>>

\* failToolCall: the caller already knows the call failed.
FailToolCall(c) ==
  /\ req[c].entry = "fail"
  /\ Goto(c, "idle", "rejected")
  /\ \E ft \in ThrownTypes : failure' = [failure EXCEPT ![c] = ft]
  /\ Publish(c, "started")
  /\ UNCHANGED <<breakerVars, toolVars, attempt, result, cancelled,
                 fingerprints, req, faults>>

\* mediateSuccessfulCall: the caller ran the tool and hands over its output.
MediateSuccessfulCall(c) ==
  /\ req[c].entry = "mediate"
  /\ Goto(c, "idle", "succeeded")
  /\ Publish(c, "started")
  /\ UNCHANGED <<breakerVars, toolVars, attempt, failure, result, cancelled,
                 fingerprints, req, faults>>

-----------------------------------------------------------------------------
(* One attempt: executeAttempt.                                            *)

\* evaluateCircuit: a closed circuit, or an open one whose window is over.
CircuitAllows(t) == t \notin open \/ now >= openedAt[t] + OpenMs

\* evaluatePolicy
PolicyBlocks(c) == Risk[TargetOf(c)] = "high" /\ req[c].args # "fixtureOnly"

\* Slip: the startedAlready flag is ignored.
AnnounceAlways(c) == Publish(c, "started")

\* A retry announces itself before the circuit is asked.
AnnounceAttempt(c) ==
  IF attempt[c] = 0 THEN UNCHANGED events ELSE Publish(c, "started")

Deny(c, ft) ==
  /\ Goto(c, "attempt", "denied")
  /\ AnnounceAttempt(c)
  /\ failure' = [failure EXCEPT ![c] = ft]
  /\ UNCHANGED <<breakerVars, toolVars, attempt, result, cancelled,
                 fingerprints, req, faults>>

FailFast(c) == ~CircuitAllows(TargetOf(c)) /\ Deny(c, "circuit_open")

BlockByPolicy(c) ==
  /\ CircuitAllows(TargetOf(c))
  /\ PolicyBlocks(c)
  /\ Deny(c, "destructive_action_blocked")

\* The attempt may run, but the policy.decision event is written first.
Admit(c) ==
  /\ CircuitAllows(TargetOf(c))
  /\ ~PolicyBlocks(c)
  /\ Goto(c, "attempt", "admitted")
  /\ AnnounceAttempt(c)
  /\ UNCHANGED <<breakerVars, toolVars, attempt, failure, result, cancelled,
                 fingerprints, req, faults>>

\* executeWithAbort starts the tool unless the caller's signal already fired.
StartExecution(c) ==
  /\ ~cancelled[c]
  /\ Goto(c, "admitted", "executing")
  /\ running' = [running EXCEPT ![c] = @ \cup {attempt[c]}]
  /\ executions' = [executions EXCEPT ![c] = @ + 1]
  /\ UNCHANGED <<breakerVars, attempt, failure, result, cancelled,
                 fingerprints, req, events, faults>>

AbortBeforeStart(c) ==
  /\ cancelled[c]
  /\ Goto(c, "admitted", "failed")
  /\ failure' = [failure EXCEPT ![c] = "cancellation"]
  /\ UNCHANGED <<breakerVars, toolVars, attempt, result, cancelled,
                 fingerprints, req, events, faults>>

\* The downstream tool settles while the attempt waits for it.
SettleExecution(c, to, ft) ==
  /\ Goto(c, "executing", to)
  /\ running' = [running EXCEPT ![c] = @ \ {attempt[c]}]
  /\ failure' = [failure EXCEPT ![c] = ft]
  /\ UNCHANGED <<breakerVars, executions, attempt, result, cancelled,
                 fingerprints, req, events, faults>>

ToolReturns(c) == SettleExecution(c, "succeeded", failure[c])

ToolReturnsUnsafe(c) ==
  \E ft \in UnsafeOutput : SettleExecution(c, "unsafe", ft)

ToolThrows(c) == \E ft \in ThrownTypes : SettleExecution(c, "failed", ft)

\* Slip: the timer is armed for the first attempt only.
DeadlineExpiresOnce(c) ==
  /\ req[c].deadline
  /\ attempt[c] = 0
  /\ Goto(c, "executing", "failed")
  /\ failure' = [failure EXCEPT ![c] = "timeout"]
  /\ UNCHANGED <<breakerVars, toolVars, attempt, result, cancelled,
                 fingerprints, req, events, faults>>

\* The deadline timer aborts the wait; the tool itself goes on running.
DeadlineExpires(c) ==
  /\ req[c].deadline
  /\ Goto(c, "executing", "failed")
  /\ failure' = [failure EXCEPT ![c] = "timeout"]
  /\ UNCHANGED <<breakerVars, toolVars, attempt, result, cancelled,
                 fingerprints, req, events, faults>>

\* The caller's signal fires, at any moment; it stays fired.
Cancel(c) ==
  /\ req[c].entry = "execute"
  /\ ~cancelled[c]
  /\ pc[c] \notin {"returned", "threw"}
  /\ cancelled' = [cancelled EXCEPT ![c] = TRUE]
  /\ IF pc[c] = "executing"
       THEN /\ Goto(c, "executing", "failed")
            /\ failure' = [failure EXCEPT ![c] = "cancellation"]
       ELSE UNCHANGED <<pc, failure>>
  /\ UNCHANGED <<breakerVars, toolVars, attempt, result, fingerprints, req,
                 events, faults>>

\* Slip: a late result still replaces the answer.
LateResultWins(c, a) ==
  /\ a \in running[c]
  /\ ~(pc[c] = "executing" /\ a = attempt[c])
  /\ running' = [running EXCEPT ![c] = @ \ {a}]
  /\ result' = [result EXCEPT ![c] = "ok"]
  /\ UNCHANGED <<breakerVars, pc, attempt, failure, cancelled, executions,
                 fingerprints, req, events, faults>>

\* An execution nobody waits for any more settles, and is ignored.
SettleLate(c, a) ==
  /\ a \in running[c]
  /\ ~(pc[c] = "executing" /\ a = attempt[c])
  /\ running' = [running EXCEPT ![c] = @ \ {a}]
  /\ UNCHANGED <<breakerVars, callVars, executions, fingerprints, req, events,
                 faults>>

-----------------------------------------------------------------------------
(* Recording the outcome.                                                  *)

\* The raw result is stored and tool.call.completed published.
RecordCompletion(c) ==
  /\ IF req[c].entry = "mediate"
       THEN /\ Goto(c, "succeeded", "returning")
            /\ result' = [result EXCEPT ![c] = "ok"]
       ELSE /\ Goto(c, "succeeded", "crediting")
            /\ UNCHANGED result
  /\ Publish(c, "completed")
  /\ UNCHANGED <<breakerVars, toolVars, attempt, failure, cancelled,
                 fingerprints, req, faults>>

\* Slip: the circuit entry is deleted, the failure count is not reset.
CloseCircuitOnly(t) ==
  /\ open' = open \ {t}
  /\ UNCHANGED <<now, openedAt, failures>>

\* The synchronous part of recordTargetSuccess.
CloseCircuit(t) ==
  /\ failures' = [failures EXCEPT ![t] = 0]
  /\ open' = open \ {t}
  /\ UNCHANGED <<now, openedAt>>

CreditTarget(c) ==
  /\ IF TargetOf(c) \in open
       THEN Goto(c, "crediting", "closing") /\ UNCHANGED result
       ELSE /\ Goto(c, "crediting", "returning")
            /\ result' = [result EXCEPT ![c] = "ok"]
  /\ CloseCircuit(TargetOf(c))
  /\ UNCHANGED <<circuitLog, toolVars, attempt, failure, cancelled,
                 fingerprints, req, events, faults>>

\* circuit.closed is written and published; the circuit closed before that.
AnnounceClosed(c) ==
  /\ Goto(c, "closing", "returning")
  /\ PublishCircuit(TargetOf(c), "closed")
  /\ result' = [result EXCEPT ![c] = "ok"]
  /\ UNCHANGED <<now, open, openedAt, failures, toolVars, attempt, failure,
                 cancelled, fingerprints, req, events, faults>>

CountFailure(c) ==
  fingerprints' = [fingerprints EXCEPT ![Fingerprint(c, failure[c])] = @ + 1]

\* recordFailure: artifact, fingerprint, ledger entry and tool.call.failed.
\* What follows depends on which branch of the code had failed.
RecordFailure(c) ==
  /\ \/ Goto(c, "rejected", "returning") /\ result' = [result EXCEPT ![c] = "failed"]
     \/ Goto(c, "denied", "deciding") /\ UNCHANGED result
     \/ Goto(c, "unsafe", "deciding") /\ UNCHANGED result
     \/ Goto(c, "failed", "debiting") /\ UNCHANGED result
  /\ CountFailure(c)
  /\ Publish(c, "failed")
  /\ UNCHANGED <<breakerVars, toolVars, attempt, failure, cancelled, req, faults>>

\* Slip: an open circuit is opened again.
OpensAgain(t) == failures[t] + 1 >= FailureThreshold

\* The synchronous part of recordTargetFailure, for a qualifying failure.
Opens(t) == failures[t] + 1 >= FailureThreshold /\ t \notin open

CountTargetFailure(t) ==
  /\ failures' = [failures EXCEPT ![t] = @ + 1]
  /\ open' = IF Opens(t) THEN open \cup {t} ELSE open
  /\ openedAt' = IF Opens(t) THEN [openedAt EXCEPT ![t] = now] ELSE openedAt
  /\ UNCHANGED now

DebitTarget(c) ==
  /\ IF failure[c] \in Qualifying
       THEN /\ CountTargetFailure(TargetOf(c))
            /\ Goto(c, "debiting",
                    IF Opens(TargetOf(c)) THEN "opening" ELSE "deciding")
       ELSE /\ Goto(c, "debiting", "deciding")
            /\ UNCHANGED <<now, open, openedAt, failures>>
  /\ UNCHANGED <<circuitLog, toolVars, attempt, failure, result, cancelled,
                 fingerprints, req, events, faults>>

\* circuit.opened is written and published; the circuit opened before that.
AnnounceOpened(c) ==
  /\ Goto(c, "opening", "deciding")
  /\ PublishCircuit(TargetOf(c), "opened")
  /\ UNCHANGED <<now, open, openedAt, failures, toolVars, attempt, failure,
                 result, cancelled, fingerprints, req, events, faults>>

-----------------------------------------------------------------------------
(* The retry loop of executeToolCall.                                      *)

\* A call whose repetition is considered safe.
Repeatable(c) ==
  /\ req[c].idempotent
  /\ Risk[TargetOf(c)] \notin {"medium", "high"}

\* Slips: one retry too many; idempotency and risk not asked for.
ShouldRetryOneMore(c) ==
  /\ failure[c] \in Retryable
  /\ failure[c] \notin DoNotRetrySameCall
  /\ attempt[c] <= MaxRetries
  /\ Repeatable(c)

ShouldRetryAnything(c) ==
  /\ failure[c] \in Retryable
  /\ failure[c] \notin DoNotRetrySameCall
  /\ attempt[c] < MaxRetries

\* shouldRetry
ShouldRetry(c) ==
  /\ failure[c] \in Retryable
  /\ failure[c] \notin DoNotRetrySameCall
  /\ attempt[c] < MaxRetries
  /\ Repeatable(c)

ScheduleRetry(c) ==
  /\ ShouldRetry(c)
  /\ Goto(c, "deciding", "attempt")
  /\ attempt' = [attempt EXCEPT ![c] = @ + 1]
  /\ Publish(c, "retries")
  /\ UNCHANGED <<breakerVars, toolVars, failure, result, cancelled,
                 fingerprints, req, faults>>

GiveUp(c) ==
  /\ ~ShouldRetry(c)
  /\ Goto(c, "deciding", "returning")
  /\ result' = [result EXCEPT ![c] = "failed"]
  /\ UNCHANGED <<breakerVars, toolVars, attempt, failure, cancelled,
                 fingerprints, req, events, faults>>

\* run.completed is published and the promise resolves.
Return(c) ==
  /\ Goto(c, "returning", "returned")
  /\ Publish(c, "finished")
  /\ UNCHANGED <<breakerVars, toolVars, attempt, failure, result, cancelled,
                 fingerprints, req, faults>>

-----------------------------------------------------------------------------
(* A failing evidence write.                                               *)

WriteFails(c) ==
  /\ Cardinality(faults) < MaxWriteFaults
  /\ c \notin faults
  /\ faults' = faults \cup {c}

\* Inside the try of executeAttempt the catch block takes over, and the
\* attempt is recorded as an "unknown" failure.
FailAttempt(c, from) ==
  /\ Goto(c, from, "failed")
  /\ failure' = [failure EXCEPT ![c] = "unknown"]

\* Slip: the error of the write is swallowed and the call goes on.
CompletionWriteIgnored(c) ==
  /\ WriteFails(c)
  /\ req[c].entry = "execute"
  /\ Goto(c, "succeeded", "crediting")
  /\ UNCHANGED <<breakerVars, toolVars, attempt, failure, result, cancelled,
                 fingerprints, req, events>>

\* Storing the result fails, or the write after tool.call.completed does.
CompletionWriteFails(c) ==
  /\ WriteFails(c)
  /\ req[c].entry = "execute"
  /\ FailAttempt(c, "succeeded") \/ FailAttempt(c, "crediting")
  /\ UNCHANGED <<breakerVars, toolVars, attempt, result, cancelled,
                 fingerprints, req, events>>

\* The target is credited, but writing circuit.closed fails.
CreditWriteFails(c) ==
  /\ WriteFails(c)
  /\ FailAttempt(c, "closing")
  /\ UNCHANGED <<breakerVars, toolVars, attempt, result, cancelled,
                 fingerprints, req, events>>

\* recordFailure fails for an unsafe output, before or after it counted it.
UnsafeWriteFails(c) ==
  /\ WriteFails(c)
  /\ FailAttempt(c, "unsafe")
  /\ CountFailure(c) \/ UNCHANGED fingerprints
  /\ UNCHANGED <<breakerVars, toolVars, attempt, result, cancelled, req, events>>

\* Outside the try the promise of the call rejects.
Reject(c) ==
  /\ WriteFails(c)
  /\ pc' = [pc EXCEPT ![c] = "threw"]
  /\ result' = [result EXCEPT ![c] = "failed"]
  /\ UNCHANGED <<toolVars, attempt, failure, cancelled, req, events>>

\* The writes that precede admission, recordFailure, a retry or the return.
CallWriteFails(c) ==
  /\ Reject(c)
  /\ \/ pc[c] \in {"attempt", "admitted", "returning"}
     \/ pc[c] = "succeeded" /\ req[c].entry = "mediate"
     \/ pc[c] = "deciding" /\ ShouldRetry(c)
     \/ pc[c] \in {"rejected", "denied", "failed"}
  /\ UNCHANGED <<breakerVars, fingerprints>>

\* recordFailure counted the failure before its ledger write failed.
LedgerWriteFails(c) ==
  /\ Reject(c)
  /\ pc[c] \in {"rejected", "denied", "failed"}
  /\ CountFailure(c)
  /\ UNCHANGED breakerVars

\* The circuit has opened, but writing circuit.opened fails.
DebitWriteFails(c) ==
  /\ Reject(c)
  /\ pc[c] = "opening"
  /\ UNCHANGED <<breakerVars, fingerprints>>

-----------------------------------------------------------------------------
\* Time passes; MaxNow bounds the clock.
Tick ==
  /\ now < MaxNow
  /\ now' = now + 1
  /\ UNCHANGED <<open, openedAt, failures, circuitLog, callVars, toolVars,
                 fingerprints, req, events, faults>>

Enter(c) == ExecuteToolCall(c) \/ FailToolCall(c) \/ MediateSuccessfulCall(c)

\* What the event loop does for a call without waiting for anyone else.
Advance(c) ==
  \/ FailFast(c)
  \/ BlockByPolicy(c)
  \/ Admit(c)
  \/ StartExecution(c)
  \/ AbortBeforeStart(c)
  \/ RecordCompletion(c)
  \/ CreditTarget(c)
  \/ AnnounceClosed(c)
  \/ RecordFailure(c)
  \/ DebitTarget(c)
  \/ AnnounceOpened(c)
  \/ ScheduleRetry(c)
  \/ GiveUp(c)
  \/ Return(c)

Downstream(c) ==
  \/ ToolReturns(c)
  \/ ToolReturnsUnsafe(c)
  \/ ToolThrows(c)
  \/ \E a \in Attempts : SettleLate(c, a)

WriteFault(c) ==
  \/ CompletionWriteFails(c)
  \/ CreditWriteFails(c)
  \/ UnsafeWriteFails(c)
  \/ CallWriteFails(c)
  \/ LedgerWriteFails(c)
  \/ DebitWriteFails(c)

Next ==
  \/ \E c \in Calls :
       \/ Enter(c)
       \/ Advance(c)
       \/ Downstream(c)
       \/ DeadlineExpires(c)
       \/ Cancel(c)
       \/ WriteFault(c)
  \/ Tick

Spec == Init /\ [][Next]_vars

\* The event loop runs every callback it holds and fires every timer; the
\* downstream tool, the caller and the file system owe nothing.
FairSpec ==
  /\ Spec
  /\ \A c \in Calls : WF_vars(Advance(c)) /\ WF_vars(DeadlineExpires(c))
-----------------------------------------------------------------------------
(* Properties.                                                             *)

Ended(c) == pc[c] \in {"returned", "threw"}

\* Downstream runs the request may cost: none when the call is refused before
\* its first attempt, one when repeating it is not safe.
Budget(c) ==
  IF \/ req[c].entry # "execute"
     \/ TargetOf(c) \notin Registered
     \/ req[c].args = "invalid"
     \/ PolicyBlocks(c)
    THEN 0
    ELSE IF req[c].idempotent /\ Risk[TargetOf(c)] \in {"none", "low"}
      THEN MaxRetries + 1
      ELSE 1

\* However deadlines, aborts, tool errors, failing writes and retries race, a
\* refused call never reaches its target, a call that is not idempotent or is
\* risky reaches it once, and any other at most MaxRetries + 1 times.
\* Late executions of timed-out attempts count: the tool did run.
WithinBudget == \A c \in Calls : executions[c] <= Budget(c)

\* The two maps behind the breaker agree across concurrent calls: a circuit is
\* open exactly while the target has reached the threshold without a success,
\* even when publishing circuit.opened or circuit.closed fails.
CircuitTracksFailures ==
  \A t \in Targets : t \in open <=> failures[t] >= FailureThreshold

\* Calls whose circuit event for t is on its way to the log.
Announcing(t, phase) == {c \in Calls : pc[c] = phase /\ TargetOf(c) = t}

\* Circuits change before their events are written, and events of concurrent
\* calls may overtake each other on the way; still none is lost or said twice:
\* per target the openings published or on their way are as many as the
\* closings, plus one while the circuit is open.
CircuitEventsMatch ==
  faults = {} =>
    \A t \in Targets :
      circuitLog[t].opened + Cardinality(Announcing(t, "opening"))
        = circuitLog[t].closed + Cardinality(Announcing(t, "closing"))
            + (IF t \in open THEN 1 ELSE 0)

\* A call that met no failing write leaves a complete account: every attempt
\* started has exactly one terminal event, every attempt but the first one
\* retry event, and tool.call.completed is there if and only if the caller
\* got a result.
CompleteAccount ==
  \A c \in Calls \ faults :
    pc[c] = "returned" =>
      /\ events[c].started = attempt[c] + 1
      /\ events[c].retries = attempt[c]
      /\ events[c].failed + events[c].completed = events[c].started
      /\ events[c].completed = IF result[c] = "ok" THEN 1 ELSE 0
      /\ events[c].finished = 1

\* No caller is told "completed successfully" unless tool.call.completed was
\* written, whatever write fails on the way.
SuccessHasEvidence ==
  \A c \in Calls :
    pc[c] = "returned" /\ result[c] = "ok" => events[c].completed > 0

\* A call with a deadline, and any call its caller cancels, is answered even
\* if the downstream tool never settles and ignores its abort signal.
AnswerBounded ==
  \A c \in Calls :
    (pc[c] # "idle" /\ (req[c].deadline \/ cancelled[c])) ~> Ended(c)

HandedOver(c) == req[c].entry = "mediate" /\ pc[c] # "idle"

\* What a caller sees of the session.
outcome ==
  [c \in Calls |->
     IF pc[c] = "idle" THEN "none"
     ELSE IF pc[c] = "returned" THEN result[c]
     ELSE IF pc[c] = "threw" THEN "failed"
     ELSE "pending"]

budget ==
  [c \in Calls |->
     IF pc[c] = "idle" THEN 0 ELSE IF HandedOver(c) THEN 1 ELSE Budget(c)]

runs == [c \in Calls |-> executions[c] + (IF HandedOver(c) THEN 1 ELSE 0)]

Caller == INSTANCE MediatedCall WITH MaxBudget <- MaxRetries + 1

\* The session implements the abstract call: one answer that never changes,
\* successes only for tools that ran, and no run beyond the call's budget.
RefinesMediatedCall == Caller!Spec
==============================================================================
