-------------------------- MODULE CoreSessionProofs --------------------------
(***************************************************************************)
(* Theorems about CoreSession for every set of calls and targets, every    *)
(* retry limit, threshold and window, and any number of failing writes:    *)
(* what a call may do, the contract it keeps, and the events that account  *)
(* for it.                                                                 *)
(***************************************************************************)
EXTENDS CoreSession, FiniteSetTheorems, TLAPS

-----------------------------------------------------------------------------
(* Type correctness.                                                       *)

LEMMA InitTypeOK == Init => TypeOK
  BY SessionAssumption DEF Init, TypeOK, Phases, Attempts

\* Publishing one more event of a kind keeps the counts natural numbers.
LEMMA PublishType ==
  ASSUME TypeOK, NEW c \in Calls, NEW kind \in EventKinds, Publish(c, kind)
  PROVE  events' \in [Calls -> [EventKinds -> Nat]]
  BY DEF TypeOK, Publish

LEMMA PublishCircuitType ==
  ASSUME TypeOK, NEW t \in Targets, NEW kind \in {"opened", "closed"},
         PublishCircuit(t, kind)
  PROVE  circuitLog' \in [Targets -> [{"opened", "closed"} -> Nat]]
  BY DEF TypeOK, PublishCircuit

\* Counting a failure keeps the fingerprint counts natural numbers.
LEMMA CountFailureType ==
  ASSUME TypeOK, NEW c \in Calls, CountFailure(c)
  PROVE  fingerprints' \in [Fingerprints -> Nat]
<1> DEFINE fp == Fingerprint(c, failure[c])
<1>1. CASE fp \in Fingerprints
  <2>1. fingerprints[fp] + 1 \in Nat BY <1>1 DEF TypeOK
  <2>2. QED BY <2>1 DEF TypeOK, CountFailure
<1>2. CASE fp \notin Fingerprints
  BY <1>2 DEF TypeOK, CountFailure
<1>3. QED BY <1>1, <1>2

\* Every variable keeps its type in every step.
LEMMA NextTypeOK == TypeOK /\ [Next]_vars => TypeOK'
<1> SUFFICES ASSUME TypeOK, [Next]_vars
             PROVE  TypeOK'
  OBVIOUS
<1> USE SessionAssumption DEF TypeOK, Phases, EventKinds, Attempts, Goto,
        breakerVars, callVars, toolVars
<1>1. ASSUME NEW c \in Calls, Enter(c)
      PROVE  TypeOK'
  <2>1. CASE ExecuteToolCall(c)
    BY <2>1, PublishType DEF ExecuteToolCall, FailureTypes
  <2>2. CASE FailToolCall(c)
    BY <2>2, PublishType DEF FailToolCall
  <2>3. CASE MediateSuccessfulCall(c)
    BY <2>3, PublishType DEF MediateSuccessfulCall
  <2>4. QED BY <1>1, <2>1, <2>2, <2>3 DEF Enter
<1>2. ASSUME NEW c \in Calls, Advance(c)
      PROVE  TypeOK'
  <2>1. CASE FailFast(c)
    BY <2>1, PublishType DEF FailFast, Deny, AnnounceAttempt, FailureTypes
  <2>2. CASE BlockByPolicy(c)
    BY <2>2, PublishType DEF BlockByPolicy, Deny, AnnounceAttempt, FailureTypes
  <2>3. CASE Admit(c)
    BY <2>3, PublishType DEF Admit, AnnounceAttempt
  <2>4. CASE StartExecution(c)
    BY <2>4 DEF StartExecution
  <2>5. CASE AbortBeforeStart(c)
    BY <2>5 DEF AbortBeforeStart, FailureTypes
  <2>6. CASE RecordCompletion(c)
    BY <2>6, PublishType DEF RecordCompletion
  <2>7. CASE CreditTarget(c)
    <3>1. TargetOf(c) \in Targets
      BY DEF TargetOf, RequestRecords
    <3>2. QED
      BY <2>7, <3>1 DEF CreditTarget, CloseCircuit
  <2>8. CASE RecordFailure(c)
    BY <2>8, PublishType, CountFailureType DEF RecordFailure
  <2>9. CASE DebitTarget(c)
    <3>1. TargetOf(c) \in Targets
      BY DEF TargetOf, RequestRecords
    <3>2. pc' \in [Calls -> Phases]
      BY <2>9 DEF DebitTarget
    <3>3. /\ open' \subseteq Targets
          /\ openedAt' \in [Targets -> Nat]
          /\ failures' \in [Targets -> Nat]
      <4>1. CountTargetFailure(TargetOf(c)) \/ UNCHANGED <<open, openedAt, failures>>
        BY <2>9 DEF DebitTarget
      <4>2. CASE CountTargetFailure(TargetOf(c))
        <5>1. \/ open' = open \/ open' = open \cup {TargetOf(c)}
          BY <4>2 DEF CountTargetFailure
        <5>2. \/ openedAt' = openedAt
              \/ openedAt' = [openedAt EXCEPT ![TargetOf(c)] = now]
          BY <4>2 DEF CountTargetFailure
        <5>3. failures' \in [Targets -> Nat]
          BY <3>1, <4>2 DEF CountTargetFailure
        <5>4. QED BY <3>1, <5>1, <5>2, <5>3
      <4>3. QED BY <4>1, <4>2
    <3>4. UNCHANGED <<now, circuitLog, toolVars, attempt, failure, result,
                      cancelled, fingerprints, req, events, faults>>
      BY <2>9 DEF DebitTarget, CountTargetFailure
    <3>5. QED
      BY <3>2, <3>3, <3>4
  <2>10. CASE ScheduleRetry(c)
    BY <2>10, PublishType DEF ScheduleRetry, ShouldRetry
  <2>11. CASE GiveUp(c)
    BY <2>11 DEF GiveUp
  <2>12. CASE Return(c)
    BY <2>12, PublishType DEF Return
  <2>13. CASE AnnounceClosed(c) \/ AnnounceOpened(c)
    <3>1. TargetOf(c) \in Targets
      BY DEF TargetOf, RequestRecords
    <3>2. circuitLog' \in [Targets -> [{"opened", "closed"} -> Nat]]
      BY <2>13, <3>1, PublishCircuitType DEF AnnounceClosed, AnnounceOpened
    <3>3. QED BY <2>13, <3>2 DEF AnnounceClosed, AnnounceOpened
  <2>14. QED
    BY <1>2, <2>1, <2>2, <2>3, <2>4, <2>5, <2>6, <2>7, <2>8, <2>9, <2>10,
       <2>11, <2>12, <2>13 DEF Advance
<1>3. ASSUME NEW c \in Calls, Downstream(c)
      PROVE  TypeOK'
  <2>1. CASE ToolReturns(c)
    BY <2>1 DEF ToolReturns, SettleExecution
  <2>2. CASE ToolReturnsUnsafe(c)
    BY <2>2 DEF ToolReturnsUnsafe, SettleExecution, UnsafeOutput, FailureTypes
  <2>3. CASE ToolThrows(c)
    BY <2>3 DEF ToolThrows, SettleExecution
  <2>4. CASE \E a \in Attempts : SettleLate(c, a)
    BY <2>4 DEF SettleLate
  <2>5. QED BY <1>3, <2>1, <2>2, <2>3, <2>4 DEF Downstream
<1>4. ASSUME NEW c \in Calls, DeadlineExpires(c)
      PROVE  TypeOK'
  BY <1>4 DEF DeadlineExpires, FailureTypes
<1>5. ASSUME NEW c \in Calls, Cancel(c)
      PROVE  TypeOK'
  BY <1>5 DEF Cancel, FailureTypes
<1>6. ASSUME NEW c \in Calls, WriteFault(c)
      PROVE  TypeOK'
  <2> USE DEF WriteFails
  <2>1. CASE CompletionWriteFails(c)
    BY <2>1 DEF CompletionWriteFails, FailAttempt, FailureTypes
  <2>2. CASE CreditWriteFails(c)
    BY <2>2 DEF CreditWriteFails, FailAttempt, FailureTypes
  <2>3. CASE UnsafeWriteFails(c)
    BY <2>3, CountFailureType DEF UnsafeWriteFails, FailAttempt, FailureTypes
  <2>4. CASE CallWriteFails(c)
    BY <2>4 DEF CallWriteFails, Reject
  <2>5. CASE LedgerWriteFails(c)
    BY <2>5, CountFailureType DEF LedgerWriteFails, Reject
  <2>6. CASE DebitWriteFails(c)
    BY <2>6 DEF DebitWriteFails, Reject
  <2>7. QED BY <1>6, <2>1, <2>2, <2>3, <2>4, <2>5, <2>6 DEF WriteFault
<1>7. CASE Tick
  BY <1>7 DEF Tick
<1>8. CASE UNCHANGED vars
  BY <1>8 DEF vars
<1>9. QED
  BY <1>1, <1>2, <1>3, <1>4, <1>5, <1>6, <1>7, <1>8 DEF Next

\* Every variable of the session stays in its declared set.
THEOREM TypeCorrect == Spec => []TypeOK
<1>1. Init => TypeOK BY InitTypeOK
<1>2. TypeOK /\ [Next]_vars => TypeOK' BY NextTypeOK
<1>3. QED BY <1>1, <1>2, PTL DEF Spec
-----------------------------------------------------------------------------
(* The circuit map and the failure counts.                                 *)

\* The two maps only change together, in recordTargetSuccess and in
\* recordTargetFailure, before the event that says so is written.
LEMMA BreakerStep ==
  ASSUME TypeOK, [Next]_vars
  PROVE  \/ UNCHANGED <<open, failures>>
         \/ \E t \in Targets : CloseCircuit(t) \/ CountTargetFailure(t)
<1> USE DEF breakerVars
<1>0. \A c \in Calls : TargetOf(c) \in Targets
  BY SessionAssumption DEF TypeOK, TargetOf, RequestRecords
<1>1. ASSUME NEW c \in Calls, Enter(c)
      PROVE  UNCHANGED <<open, failures>>
  BY <1>1 DEF Enter, ExecuteToolCall, FailToolCall, MediateSuccessfulCall
<1>2. ASSUME NEW c \in Calls, Advance(c)
      PROVE  \/ UNCHANGED <<open, failures>>
             \/ CloseCircuit(TargetOf(c)) \/ CountTargetFailure(TargetOf(c))
  BY <1>2 DEF Advance, FailFast, BlockByPolicy, Deny, Admit, StartExecution,
       AbortBeforeStart, RecordCompletion, CreditTarget, AnnounceClosed,
       RecordFailure, DebitTarget, AnnounceOpened, ScheduleRetry, GiveUp, Return
<1>3. ASSUME NEW c \in Calls, Downstream(c)
      PROVE  UNCHANGED <<open, failures>>
  BY <1>3 DEF Downstream, ToolReturns, ToolReturnsUnsafe, ToolThrows,
       SettleExecution, SettleLate
<1>4. ASSUME NEW c \in Calls, DeadlineExpires(c) \/ Cancel(c)
      PROVE  UNCHANGED <<open, failures>>
  BY <1>4 DEF DeadlineExpires, Cancel
<1>5. ASSUME NEW c \in Calls, WriteFault(c)
      PROVE  UNCHANGED <<open, failures>>
  BY <1>5 DEF WriteFault, CompletionWriteFails, CreditWriteFails,
       UnsafeWriteFails, CallWriteFails, LedgerWriteFails, DebitWriteFails
<1>6. CASE Tick
  BY <1>6 DEF Tick
<1>7. CASE UNCHANGED vars
  BY <1>7 DEF vars
<1>8. QED
  BY <1>0, <1>1, <1>2, <1>3, <1>4, <1>5, <1>6, <1>7 DEF Next

\* A circuit is open exactly while the target's failure count is at the
\* threshold, for every interleaving of calls and every failing write.
THEOREM BreakerConsistent == Spec => []CircuitTracksFailures
<1>1. Init => CircuitTracksFailures
  BY SessionAssumption DEF Init, CircuitTracksFailures
<1>2. TypeOK /\ CircuitTracksFailures /\ [Next]_vars => CircuitTracksFailures'
  <2> SUFFICES ASSUME TypeOK, CircuitTracksFailures, [Next]_vars
               PROVE  CircuitTracksFailures'
    OBVIOUS
  <2> USE SessionAssumption DEF CircuitTracksFailures, TypeOK
  <2>1. CASE UNCHANGED <<open, failures>>
    BY <2>1
  <2>2. ASSUME NEW t \in Targets, CloseCircuit(t)
        PROVE  CircuitTracksFailures'
    BY <2>2 DEF CloseCircuit
  <2>3. ASSUME NEW t \in Targets, CountTargetFailure(t)
        PROVE  CircuitTracksFailures'
    <3>1. CASE Opens(t)
      BY <2>3, <3>1 DEF CountTargetFailure, Opens
    <3>2. CASE ~Opens(t)
      BY <2>3, <3>2 DEF CountTargetFailure, Opens
    <3>3. QED BY <3>1, <3>2
  <2>4. QED BY <2>1, <2>2, <2>3, BreakerStep
<1>3. QED BY <1>1, <1>2, TypeCorrect, PTL DEF Spec
-----------------------------------------------------------------------------
(* Executions and budgets.                                                 *)

\* The call passed the checks in front of the attempt loop.
Accepted(c) ==
  /\ req[c].entry = "execute"
  /\ TargetOf(c) \in Registered
  /\ req[c].args # "invalid"

InLoop ==
  { "attempt", "admitted", "executing", "crediting", "closing", "unsafe",
    "failed", "debiting", "opening", "denied", "deciding" }

\* Phases in which the current attempt has not started its tool.
BeforeRun == {"idle", "attempt", "admitted"}

\* Who is in the loop, and why it may run its tool.
LoopInv(c) ==
  /\ pc[c] = "idle" => attempt[c] = 0
  /\ pc[c] \in InLoop => Accepted(c)
  /\ pc[c] = "succeeded" => Accepted(c) \/ req[c].entry = "mediate"
  /\ pc[c] = "admitted" \/ executions[c] > 0 => Accepted(c) /\ ~PolicyBlocks(c)
  /\ attempt[c] > 0 => Repeatable(c)

\* Each attempt starts its tool at most once.
RunInv(c) ==
  executions[c] <= attempt[c] + (IF pc[c] \in BeforeRun THEN 0 ELSE 1)

\* Only a tool that ran, or one the caller ran, leads to a result.
ResultInv(c) ==
  /\ pc[c] \in {"executing", "crediting", "closing"} => executions[c] > 0
  /\ pc[c] = "succeeded" /\ req[c].entry # "mediate" => executions[c] > 0
  /\ pc[c] \in {"returning", "returned"} => result[c] \in {"ok", "failed"}
  /\ pc[c] \in {"returning", "returned"} /\ result[c] = "ok"
       => HandedOver(c) \/ executions[c] > 0

OneCall(c) == LoopInv(c) /\ RunInv(c) /\ ResultInv(c)

CallInv == \A c \in Calls : OneCall(c)

\* What OneCall(c) looks at.
SameCall(c) ==
  /\ pc'[c] = pc[c]
  /\ attempt'[c] = attempt[c]
  /\ executions'[c] = executions[c]
  /\ result'[c] = result[c]

\* A call nobody touched keeps its part of the invariant.
LEMMA CallFrame ==
  ASSUME NEW c \in Calls, OneCall(c), SameCall(c), req' = req
  PROVE  OneCall(c)'
  BY DEF OneCall, SameCall, LoopInv, RunInv, ResultInv, Accepted, PolicyBlocks,
     Repeatable, TargetOf, HandedOver

\* A step of one call establishes its part of the invariant again.
LEMMA ActorStep ==
  ASSUME TypeOK, NEW c \in Calls, OneCall(c),
         \/ Enter(c) \/ Advance(c) \/ Downstream(c)
         \/ DeadlineExpires(c) \/ Cancel(c) \/ WriteFault(c)
  PROVE  /\ OneCall(c)'
         /\ req' = req
         /\ \A d \in Calls \ {c} : SameCall(d)
<1> DEFINE Goal == /\ OneCall(c)'
                   /\ req' = req
                   /\ \A d \in Calls \ {c} : SameCall(d)
<1> USE SessionAssumption
    DEF TypeOK, Phases, Attempts, Goto, SameCall, OneCall, LoopInv, RunInv,
        ResultInv, Accepted, PolicyBlocks, Repeatable, TargetOf, HandedOver,
        InLoop, BeforeRun, breakerVars, callVars, toolVars
<1>1. CASE Enter(c)
  BY <1>1 DEF Enter, ExecuteToolCall, FailToolCall, MediateSuccessfulCall
<1>2. CASE Advance(c)
  <2>1. CASE FailFast(c) \/ BlockByPolicy(c)
    BY <2>1 DEF FailFast, BlockByPolicy, Deny
  <2>2. CASE Admit(c)
    BY <2>2 DEF Admit
  <2>3. CASE StartExecution(c)
    BY <2>3 DEF StartExecution
  <2>4. CASE AbortBeforeStart(c)
    BY <2>4 DEF AbortBeforeStart
  <2>5. CASE RecordCompletion(c)
    BY <2>5 DEF RecordCompletion
  <2>6. CASE CreditTarget(c)
    BY <2>6 DEF CreditTarget
  <2>7. CASE RecordFailure(c)
    BY <2>7 DEF RecordFailure
  <2>8. CASE DebitTarget(c)
    BY <2>8 DEF DebitTarget
  <2>9. CASE ScheduleRetry(c)
    BY <2>9 DEF ScheduleRetry, ShouldRetry
  <2>10. CASE GiveUp(c)
    BY <2>10 DEF GiveUp
  <2>11. CASE Return(c)
    BY <2>11 DEF Return
  <2>12. CASE AnnounceClosed(c) \/ AnnounceOpened(c)
    BY <2>12 DEF AnnounceClosed, AnnounceOpened
  <2>13. QED
    BY <1>2, <2>1, <2>2, <2>3, <2>4, <2>5, <2>6, <2>7, <2>8, <2>9, <2>10,
       <2>11, <2>12 DEF Advance
<1>3. CASE Downstream(c)
  BY <1>3 DEF Downstream, ToolReturns, ToolReturnsUnsafe, ToolThrows,
       SettleExecution, SettleLate
<1>4. CASE DeadlineExpires(c)
  BY <1>4 DEF DeadlineExpires
<1>5. CASE Cancel(c)
  BY <1>5 DEF Cancel
<1>6. CASE WriteFault(c)
  <2>1. CASE CompletionWriteFails(c) \/ CreditWriteFails(c) \/ UnsafeWriteFails(c)
    BY <2>1 DEF CompletionWriteFails, CreditWriteFails, UnsafeWriteFails,
         FailAttempt
  <2>2. CASE CallWriteFails(c) \/ LedgerWriteFails(c) \/ DebitWriteFails(c)
    BY <2>2 DEF CallWriteFails, LedgerWriteFails, DebitWriteFails, Reject
  <2>3. QED BY <1>6, <2>1, <2>2 DEF WriteFault
<1>7. QED BY <1>1, <1>2, <1>3, <1>4, <1>5, <1>6

LEMMA CallStep == TypeOK /\ CallInv /\ [Next]_vars => CallInv'
<1> SUFFICES ASSUME TypeOK, CallInv, [Next]_vars
             PROVE  CallInv'
  OBVIOUS
<1>1. ASSUME NEW c \in Calls,
             \/ Enter(c) \/ Advance(c) \/ Downstream(c)
             \/ DeadlineExpires(c) \/ Cancel(c) \/ WriteFault(c)
      PROVE  CallInv'
  <2>1. OneCall(c) BY DEF CallInv
  <2>2. /\ OneCall(c)'
        /\ req' = req
        /\ \A d \in Calls \ {c} : SameCall(d)
    BY <1>1, <2>1, ActorStep
  <2>3. ASSUME NEW d \in Calls \ {c}
        PROVE  OneCall(d)'
    BY <2>2, <2>3, CallFrame DEF CallInv
  <2>4. QED BY <2>2, <2>3 DEF CallInv
<1>2. CASE Tick \/ UNCHANGED vars
  <2>1. req' = req /\ \A d \in Calls : SameCall(d)
    BY <1>2 DEF Tick, vars, callVars, toolVars, SameCall
  <2>2. QED BY <2>1, CallFrame DEF CallInv
<1>3. QED BY <1>1, <1>2 DEF Next

LEMMA CallInvariant == Spec => []CallInv
<1>1. Init => CallInv
  BY SessionAssumption DEF Init, CallInv, OneCall, LoopInv, RunInv, ResultInv,
     InLoop, BeforeRun
<1>2. QED BY <1>1, CallStep, TypeCorrect, PTL DEF Spec

\* Whatever races, fails or is cancelled, a call never starts its tool more
\* often than its request allows.
THEOREM ExecutionsBounded == Spec => []WithinBudget
<1>1. TypeOK /\ CallInv => WithinBudget
  <2> SUFFICES ASSUME TypeOK, CallInv, NEW c \in Calls
               PROVE  executions[c] <= Budget(c)
    BY DEF WithinBudget
  <2> USE SessionAssumption DEF TypeOK, Attempts
  <2>1. LoopInv(c) /\ RunInv(c) BY DEF CallInv, OneCall
  <2>2. TargetOf(c) \in Targets BY DEF TargetOf, RequestRecords
  <2>3. CASE executions[c] = 0
    BY <2>3 DEF Budget
  <2>4. CASE executions[c] > 0
    <3>1. Accepted(c) /\ ~PolicyBlocks(c)
      BY <2>1, <2>4 DEF LoopInv
    <3>2. executions[c] <= attempt[c] + 1
      BY <2>1 DEF RunInv
    <3>3. attempt[c] = 0 \/ Repeatable(c)
      BY <2>1 DEF LoopInv
    <3>4. QED
      BY <2>2, <3>1, <3>2, <3>3 DEF Budget, Accepted, Repeatable
  <2>5. QED BY <2>3, <2>4
<1>2. QED BY <1>1, TypeCorrect, CallInvariant, PTL DEF Spec
-----------------------------------------------------------------------------
(* The session implements MediatedCall.                                    *)

\* A step that leaves a call alone leaves its abstract state alone.
LEMMA AbstractFrame ==
  ASSUME NEW c \in Calls, SameCall(c), req' = req
  PROVE  /\ outcome'[c] = outcome[c]
         /\ budget'[c] = budget[c]
         /\ runs'[c] = runs[c]
  BY DEF SameCall, outcome, budget, runs, HandedOver, Budget, PolicyBlocks,
     TargetOf

\* Each step of one call is a step of the abstract call, or none.
LEMMA AbstractStep ==
  ASSUME TypeOK, TypeOK', CallInv, CallInv', NEW c \in Calls,
         \/ Enter(c) \/ Advance(c) \/ Downstream(c)
         \/ DeadlineExpires(c) \/ Cancel(c) \/ WriteFault(c)
  PROVE  \/ /\ outcome'[c] = outcome[c]
            /\ budget'[c] = budget[c]
            /\ runs'[c] = runs[c]
         \/ /\ outcome[c] = "none"
            /\ outcome'[c] = "pending"
            /\ budget'[c] \in 0 .. MaxRetries + 1
            /\ runs'[c] \in {0, 1}
            /\ runs'[c] <= budget'[c]
         \/ /\ outcome[c] = "pending"
            /\ runs[c] < budget[c]
            /\ runs'[c] = runs[c] + 1
            /\ outcome'[c] = outcome[c]
            /\ budget'[c] = budget[c]
         \/ /\ outcome[c] = "pending"
            /\ \/ runs[c] > 0 /\ outcome'[c] = "ok"
               \/ outcome'[c] = "failed"
            /\ runs'[c] = runs[c]
            /\ budget'[c] = budget[c]
<1> USE SessionAssumption
<1>0. /\ OneCall(c)
      /\ OneCall(c)'
      /\ req' = req
      /\ TargetOf(c) \in Targets
      /\ Budget(c) \in 0 .. MaxRetries + 1
      /\ Budget(c)' = Budget(c)
  <2>1. OneCall(c) /\ OneCall(c)' /\ req' = req
    BY ActorStep DEF CallInv
  <2>2. TargetOf(c) \in Targets
    BY DEF TypeOK, TargetOf, RequestRecords
  <2>3. Budget(c) \in 0 .. MaxRetries + 1
    BY DEF Budget
  <2>4. QED
    BY <2>1, <2>2, <2>3 DEF Budget, PolicyBlocks, TargetOf
<1> USE <1>0
    DEF TypeOK, Attempts, Goto, CallInv, OneCall, LoopInv, RunInv, ResultInv,
        Accepted, InLoop, BeforeRun, outcome, budget, runs, HandedOver,
        breakerVars, callVars, toolVars
<1>1. CASE Enter(c)
  BY <1>1 DEF Enter, ExecuteToolCall, FailToolCall, MediateSuccessfulCall
<1>2. CASE StartExecution(c)
  <2>1. /\ outcome[c] = "pending" /\ outcome'[c] = "pending"
        /\ runs[c] = executions[c] /\ runs'[c] = executions[c] + 1
        /\ budget[c] = Budget(c) /\ budget'[c] = Budget(c)
    BY <1>2 DEF StartExecution
  <2>2. executions[c] <= attempt[c] /\ Accepted(c) /\ ~PolicyBlocks(c)
    BY <1>2 DEF StartExecution
  <2>3. attempt[c] = 0 \/ Repeatable(c)
    OBVIOUS
  <2>4. executions[c] < Budget(c)
    BY <2>2, <2>3 DEF Budget, Repeatable
  <2>5. QED BY <2>1, <2>4
<1>3. CASE Return(c)
  BY <1>3 DEF Return
<1>4. CASE \/ FailFast(c) \/ BlockByPolicy(c) \/ Admit(c) \/ AbortBeforeStart(c)
           \/ RecordCompletion(c) \/ CreditTarget(c) \/ AnnounceClosed(c)
           \/ RecordFailure(c) \/ DebitTarget(c) \/ AnnounceOpened(c)
           \/ ScheduleRetry(c) \/ GiveUp(c)
  BY <1>4 DEF FailFast, BlockByPolicy, Deny, Admit, AbortBeforeStart,
       RecordCompletion, CreditTarget, AnnounceClosed, RecordFailure,
       DebitTarget, AnnounceOpened, ScheduleRetry, GiveUp
<1>5. CASE Downstream(c)
  BY <1>5 DEF Downstream, ToolReturns, ToolReturnsUnsafe, ToolThrows,
       SettleExecution, SettleLate
<1>6. CASE DeadlineExpires(c) \/ Cancel(c)
  BY <1>6 DEF DeadlineExpires, Cancel
<1>7. CASE CompletionWriteFails(c) \/ CreditWriteFails(c) \/ UnsafeWriteFails(c)
  BY <1>7 DEF CompletionWriteFails, CreditWriteFails, UnsafeWriteFails,
       FailAttempt
<1>8. CASE CallWriteFails(c) \/ LedgerWriteFails(c) \/ DebitWriteFails(c)
  BY <1>8 DEF CallWriteFails, LedgerWriteFails, DebitWriteFails, Reject
<1>9. QED
  BY <1>1, <1>2, <1>3, <1>4, <1>5, <1>6, <1>7, <1>8 DEF Advance, WriteFault

\* Every session is an abstract session: each call ends at most once, with an
\* answer that never changes, a success only after its tool ran, and no run
\* beyond the budget it was accepted with.
THEOREM SessionImplementsCall == Spec => RefinesMediatedCall
<1>1. Init => Caller!Init
  BY SessionAssumption DEF Init, Caller!Init, outcome, budget, runs, HandedOver
<1>2. TypeOK /\ TypeOK' /\ CallInv /\ CallInv' /\ [Next]_vars
        => [Caller!Next]_(Caller!vars)
  <2> SUFFICES ASSUME TypeOK, TypeOK', CallInv, CallInv', [Next]_vars
               PROVE  [Caller!Next]_(Caller!vars)
    OBVIOUS
  <2> USE DEF Caller!vars
  <2>1. ASSUME NEW c \in Calls,
               \/ Enter(c) \/ Advance(c) \/ Downstream(c)
               \/ DeadlineExpires(c) \/ Cancel(c) \/ WriteFault(c)
        PROVE  [Caller!Next]_(Caller!vars)
    <3>1. \A d \in Calls \ {c} : /\ outcome'[d] = outcome[d]
                                 /\ budget'[d] = budget[d]
                                 /\ runs'[d] = runs[d]
      BY <2>1, ActorStep, AbstractFrame DEF CallInv
    <3>2. /\ outcome = [d \in Calls |-> outcome[d]]
          /\ budget = [d \in Calls |-> budget[d]]
          /\ runs = [d \in Calls |-> runs[d]]
          /\ outcome' = [d \in Calls |-> outcome'[d]]
          /\ budget' = [d \in Calls |-> budget'[d]]
          /\ runs' = [d \in Calls |-> runs'[d]]
      BY DEF outcome, budget, runs
    <3> HIDE DEF outcome, budget, runs
    <3>3. CASE UNCHANGED <<outcome[c], budget[c], runs[c]>>
      <4>1. UNCHANGED <<outcome, budget, runs>>
        BY <3>1, <3>2, <3>3
      <4>2. QED BY <4>1
    <3>4. CASE \/ Caller!Accept(c) \/ Caller!Run(c)
               \/ Caller!Succeed(c) \/ Caller!Fail(c)
      BY <3>4 DEF Caller!Next
    <3>5. \/ UNCHANGED <<outcome[c], budget[c], runs[c]>>
          \/ Caller!Accept(c) \/ Caller!Run(c)
          \/ Caller!Succeed(c) \/ Caller!Fail(c)
      BY <2>1, <3>1, <3>2, AbstractStep
         DEF Caller!Accept, Caller!Run, Caller!Succeed, Caller!Fail
    <3>6. QED BY <3>3, <3>4, <3>5
  <2>2. CASE Tick \/ UNCHANGED vars
    <3>1. req' = req /\ \A d \in Calls : SameCall(d)
      BY <2>2 DEF Tick, vars, callVars, toolVars, SameCall
    <3>2. QED BY <3>1, AbstractFrame DEF outcome, budget, runs
  <2>3. QED BY <2>1, <2>2 DEF Next
<1>3. QED
  BY <1>1, <1>2, TypeCorrect, CallInvariant, PTL
     DEF Spec, RefinesMediatedCall, Caller!Spec

-----------------------------------------------------------------------------
(* The account of a call.                                                  *)

\* The events a call has published, as its phase requires.
Count(c, started, failed, completed, finished) ==
  /\ events[c].started = started
  /\ events[c].failed = failed
  /\ events[c].completed = completed
  /\ events[c].finished = finished
  /\ events[c].retries = attempt[c]

\* Phases in which the attempt is announced and has no terminal event.
Underway ==
  { "admitted", "executing", "succeeded", "unsafe", "failed", "denied",
    "rejected" }

\* The books of a call that met no failing write, phase by phase.
Books(c) ==
  /\ pc[c] # "threw"
  /\ pc[c] = "idle" => attempt[c] = 0 /\ Count(c, 0, 0, 0, 0)
  /\ pc[c] = "attempt"
       => Count(c, IF attempt[c] = 0 THEN 1 ELSE attempt[c], attempt[c], 0, 0)
  /\ pc[c] \in Underway => Count(c, attempt[c] + 1, attempt[c], 0, 0)
  /\ pc[c] \in {"crediting", "closing"}
       => Count(c, attempt[c] + 1, attempt[c], 1, 0)
  /\ pc[c] \in {"debiting", "opening", "deciding"}
       => Count(c, attempt[c] + 1, attempt[c] + 1, 0, 0)
  /\ pc[c] \in {"returning", "returned"} =>
       LET completed == IF result[c] = "ok" THEN 1 ELSE 0
           finished == IF pc[c] = "returned" THEN 1 ELSE 0
       IN Count(c, attempt[c] + 1, attempt[c] + 1 - completed, completed, finished)

\* A result only reaches the caller after tool.call.completed, failing writes
\* or not.
Backed(c) ==
  /\ pc[c] \in {"crediting", "closing"} => events[c].completed > 0
  /\ pc[c] \in {"returning", "returned"} /\ result[c] = "ok"
       => events[c].completed > 0

Account(c) == (c \in faults \/ Books(c)) /\ Backed(c)

AccountInv == \A c \in Calls : Account(c)

\* Publishing adds one event of the kind, and nothing else.
LEMMA PublishCounts ==
  ASSUME TypeOK, NEW c \in Calls, NEW kind \in EventKinds, Publish(c, kind)
  PROVE  /\ events'[c][kind] = events[c][kind] + 1
         /\ \A k \in EventKinds \ {kind} : events'[c][k] = events[c][k]
         /\ \A d \in Calls \ {c} : events'[d] = events[d]
  BY DEF TypeOK, Publish

\* What Account(c) looks at.
SameAccount(c) ==
  /\ pc'[c] = pc[c]
  /\ attempt'[c] = attempt[c]
  /\ result'[c] = result[c]
  /\ events'[c] = events[c]
  /\ c \in faults => c \in faults'

LEMMA AccountFrame ==
  ASSUME NEW c \in Calls, Account(c), SameAccount(c)
  PROVE  Account(c)'
  BY DEF Account, SameAccount, Books, Backed, Count, Underway

\* The counts of the call, as numbers.
LEMMA CountTypes ==
  ASSUME TypeOK, NEW c \in Calls
  PROVE  /\ events[c].started \in Nat /\ events[c].failed \in Nat
         /\ events[c].completed \in Nat /\ events[c].finished \in Nat
         /\ events[c].retries \in Nat /\ attempt[c] \in Nat
         /\ pc[c] \in Phases
  BY SessionAssumption DEF TypeOK, EventKinds, Attempts

LEMMA AccountStep ==
  ASSUME TypeOK, TypeOK', NEW c \in Calls, Account(c),
         \/ Enter(c) \/ Advance(c) \/ Downstream(c)
         \/ DeadlineExpires(c) \/ Cancel(c) \/ WriteFault(c)
  PROVE  Account(c)' /\ \A d \in Calls \ {c} : SameAccount(d)
<1> DEFINE Goal == Account(c)' /\ \A d \in Calls \ {c} : SameAccount(d)
<1>0. /\ \A d \in Calls : pc[d] \in Phases /\ attempt[d] \in Nat
      /\ pc \in [Calls -> Phases] /\ attempt \in [Calls -> Attempts]
      /\ result \in [Calls -> {"none", "ok", "failed"}]
      /\ events \in [Calls -> [EventKinds -> Nat]]
  BY SessionAssumption DEF TypeOK, Attempts
<1> USE <1>0, CountTypes
    DEF Goto, SameAccount, Account, Books, Backed, Count, Underway, EventKinds,
        breakerVars, callVars, toolVars
<1>1. CASE Enter(c)
  <2>1. Publish(c, "started")
    BY <1>1 DEF Enter, ExecuteToolCall, FailToolCall, MediateSuccessfulCall
  <2>2. /\ events'[c].started = events[c].started + 1
        /\ events'[c].failed = events[c].failed
        /\ events'[c].completed = events[c].completed
        /\ events'[c].finished = events[c].finished
        /\ events'[c].retries = events[c].retries
        /\ \A d \in Calls \ {c} : events'[d] = events[d]
    BY <2>1, PublishCounts
  <2>3. QED
    BY <1>1, <2>2 DEF Enter, ExecuteToolCall, FailToolCall, MediateSuccessfulCall
<1>2. CASE FailFast(c) \/ BlockByPolicy(c) \/ Admit(c)
  <2>1. AnnounceAttempt(c) /\ pc[c] = "attempt" /\ attempt' = attempt
        /\ result' = result /\ faults' = faults
        /\ pc'[c] \in {"denied", "admitted"}
        /\ \A d \in Calls \ {c} : pc'[d] = pc[d]
    BY <1>2 DEF FailFast, BlockByPolicy, Deny, Admit
  <2>2. CASE attempt[c] = 0
    <3>1. events' = events BY <2>1, <2>2 DEF AnnounceAttempt
    <3>2. QED BY <2>1, <2>2, <3>1
  <2>3. CASE attempt[c] # 0
    <3>1. Publish(c, "started") BY <2>1, <2>3 DEF AnnounceAttempt
    <3>2. /\ events'[c].started = events[c].started + 1
          /\ events'[c].failed = events[c].failed
          /\ events'[c].completed = events[c].completed
          /\ events'[c].finished = events[c].finished
          /\ events'[c].retries = events[c].retries
          /\ \A d \in Calls \ {c} : events'[d] = events[d]
      BY <3>1, PublishCounts
    <3>3. QED BY <2>1, <2>3, <3>2
  <2>4. QED BY <2>2, <2>3
<1>3. CASE \/ StartExecution(c) \/ AbortBeforeStart(c) \/ GiveUp(c)
           \/ DebitTarget(c) \/ AnnounceOpened(c)
           \/ CreditTarget(c) \/ AnnounceClosed(c)
  BY <1>3 DEF StartExecution, AbortBeforeStart, GiveUp, DebitTarget,
       AnnounceOpened, CreditTarget, AnnounceClosed
<1>4. CASE RecordCompletion(c)
  <2>1. Publish(c, "completed") BY <1>4 DEF RecordCompletion
  <2>2. /\ events'[c].completed = events[c].completed + 1
        /\ events'[c].started = events[c].started
        /\ events'[c].failed = events[c].failed
        /\ events'[c].finished = events[c].finished
        /\ events'[c].retries = events[c].retries
        /\ \A d \in Calls \ {c} : events'[d] = events[d]
    BY <2>1, PublishCounts
  <2>3. QED BY <1>4, <2>2 DEF RecordCompletion
<1>5. CASE RecordFailure(c)
  <2>1. Publish(c, "failed") BY <1>5 DEF RecordFailure
  <2>2. /\ events'[c].failed = events[c].failed + 1
        /\ events'[c].started = events[c].started
        /\ events'[c].completed = events[c].completed
        /\ events'[c].finished = events[c].finished
        /\ events'[c].retries = events[c].retries
        /\ \A d \in Calls \ {c} : events'[d] = events[d]
    BY <2>1, PublishCounts
  <2>3. QED BY <1>5, <2>2 DEF RecordFailure
<1>6. CASE ScheduleRetry(c)
  <2>1. Publish(c, "retries") BY <1>6 DEF ScheduleRetry
  <2>2. /\ events'[c].retries = events[c].retries + 1
        /\ events'[c].started = events[c].started
        /\ events'[c].completed = events[c].completed
        /\ events'[c].finished = events[c].finished
        /\ events'[c].failed = events[c].failed
        /\ \A d \in Calls \ {c} : events'[d] = events[d]
    BY <2>1, PublishCounts
  <2>3. QED BY <1>6, <2>2 DEF ScheduleRetry
<1>7. CASE Return(c)
  <2>1. Publish(c, "finished") BY <1>7 DEF Return
  <2>2. /\ events'[c].finished = events[c].finished + 1
        /\ events'[c].started = events[c].started
        /\ events'[c].completed = events[c].completed
        /\ events'[c].failed = events[c].failed
        /\ events'[c].retries = events[c].retries
        /\ \A d \in Calls \ {c} : events'[d] = events[d]
    BY <2>1, PublishCounts
  <2>3. QED BY <1>7, <2>2 DEF Return
<1>8. CASE Downstream(c)
  BY <1>8 DEF Downstream, ToolReturns, ToolReturnsUnsafe, ToolThrows,
       SettleExecution, SettleLate
<1>9. CASE DeadlineExpires(c) \/ Cancel(c)
  BY <1>9 DEF DeadlineExpires, Cancel
<1>10. CASE CompletionWriteFails(c) \/ CreditWriteFails(c) \/ UnsafeWriteFails(c)
  BY <1>10 DEF CompletionWriteFails, CreditWriteFails, UnsafeWriteFails,
       FailAttempt, WriteFails
<1>11. CASE CallWriteFails(c) \/ LedgerWriteFails(c) \/ DebitWriteFails(c)
  BY <1>11 DEF CallWriteFails, LedgerWriteFails, DebitWriteFails, Reject,
       WriteFails
<1>12. QED
  BY <1>1, <1>2, <1>3, <1>4, <1>5, <1>6, <1>7, <1>8, <1>9, <1>10, <1>11
     DEF Advance, WriteFault

LEMMA NextAccount ==
  TypeOK /\ TypeOK' /\ AccountInv /\ [Next]_vars => AccountInv'
<1> SUFFICES ASSUME TypeOK, TypeOK', AccountInv, [Next]_vars
             PROVE  AccountInv'
  OBVIOUS
<1>1. ASSUME NEW c \in Calls,
             \/ Enter(c) \/ Advance(c) \/ Downstream(c)
             \/ DeadlineExpires(c) \/ Cancel(c) \/ WriteFault(c)
      PROVE  AccountInv'
  <2>1. Account(c)' /\ \A d \in Calls \ {c} : SameAccount(d)
    BY <1>1, AccountStep DEF AccountInv
  <2>2. ASSUME NEW d \in Calls \ {c}
        PROVE  Account(d)'
    BY <2>1, <2>2, AccountFrame DEF AccountInv
  <2>3. QED BY <2>1, <2>2 DEF AccountInv
<1>2. CASE Tick \/ UNCHANGED vars
  <2>1. \A d \in Calls : SameAccount(d)
    BY <1>2 DEF Tick, vars, callVars, SameAccount
  <2>2. QED BY <2>1, AccountFrame DEF AccountInv
<1>3. QED BY <1>1, <1>2 DEF Next

LEMMA AccountInvariant == Spec => []AccountInv
<1>1. Init => AccountInv
  BY DEF Init, AccountInv, Account, Books, Backed, Count, Underway, EventKinds
<1>2. QED BY <1>1, NextAccount, TypeCorrect, PTL DEF Spec

\* Every attempt of a call that met no failing write is announced once and
\* closed once, whatever races, retries or is cancelled.
THEOREM AccountComplete == Spec => []CompleteAccount
<1>1. TypeOK /\ AccountInv => CompleteAccount
  <2> SUFFICES ASSUME TypeOK, AccountInv, NEW c \in Calls \ faults,
                      pc[c] = "returned"
               PROVE  /\ events[c].started = attempt[c] + 1
                      /\ events[c].retries = attempt[c]
                      /\ events[c].failed + events[c].completed
                           = events[c].started
                      /\ events[c].completed = IF result[c] = "ok" THEN 1 ELSE 0
                      /\ events[c].finished = 1
    BY DEF CompleteAccount
  <2>1. Books(c) BY DEF AccountInv, Account
  <2>2. attempt[c] \in Nat BY CountTypes
  <2>3. QED BY <2>1, <2>2 DEF Books, Count
<1>2. QED BY <1>1, TypeCorrect, AccountInvariant, PTL

\* No caller is told of a success without tool.call.completed.
THEOREM SuccessBacked == Spec => []SuccessHasEvidence
<1>1. AccountInv => SuccessHasEvidence
  BY DEF AccountInv, Account, Backed, SuccessHasEvidence
<1>2. QED BY <1>1, AccountInvariant, PTL
-----------------------------------------------------------------------------
(* The events of the circuits.                                             *)

\* What CircuitEventsMatch counts for one target.
Balance(t) ==
  circuitLog[t].opened + Cardinality(Announcing(t, "opening"))
    = circuitLog[t].closed + Cardinality(Announcing(t, "closing"))
        + (IF t \in open THEN 1 ELSE 0)

\* A call that starts or ends a phase joins or leaves those counted in it.
LEMMA AnnouncingCounts ==
  ASSUME NEW t, NEW phase
  PROVE  /\ Cardinality(Announcing(t, phase)) \in Nat
         /\ \A c \in Calls :
              Announcing(t, phase)' = Announcing(t, phase) \cup {c}
                /\ c \notin Announcing(t, phase)
                => Cardinality(Announcing(t, phase)')
                     = Cardinality(Announcing(t, phase)) + 1
         /\ \A c \in Calls :
              Announcing(t, phase)' = Announcing(t, phase) \ {c}
                /\ c \in Announcing(t, phase)
                => Cardinality(Announcing(t, phase)')
                     = Cardinality(Announcing(t, phase)) - 1
<1> DEFINE A == Announcing(t, phase)
<1>1. IsFiniteSet(A)
  <2>1. A \subseteq Calls
    BY DEF Announcing
  <2>2. QED BY <2>1, SessionAssumption, FS_Subset
<1> HIDE DEF A
<1>2. Cardinality(A) \in Nat
  BY <1>1, FS_CardinalityType
<1>3. \A c \in Calls : c \notin A => Cardinality(A \cup {c}) = Cardinality(A) + 1
  BY <1>1, FS_AddElement
<1>4. \A c \in Calls : c \in A => Cardinality(A \ {c}) = Cardinality(A) - 1
  BY <1>1, FS_RemoveElement
<1>5. QED BY <1>2, <1>3, <1>4 DEF A

\* Whoever changes neither circuits nor their events, and neither comes to nor
\* goes from announcing one.
Quiet(c) ==
  /\ UNCHANGED <<faults, open, circuitLog, req>>
  /\ \A d \in Calls \ {c} : pc'[d] = pc[d]
  /\ \A phase \in {"opening", "closing"} : pc'[c] = phase <=> pc[c] = phase

\* While no write fails, a call either is quiet, or has the circuit opened or
\* closed and comes to the announcement, or makes the announcement it owes.
LEMMA CircuitStep ==
  ASSUME TypeOK, NEW c \in Calls, faults' = {},
         \/ Enter(c) \/ Advance(c) \/ Downstream(c)
         \/ DeadlineExpires(c) \/ Cancel(c) \/ WriteFault(c)
  PROVE  \/ Quiet(c)
         \/ DebitTarget(c) /\ failure[c] \in Qualifying /\ Opens(TargetOf(c))
         \/ CreditTarget(c) /\ TargetOf(c) \in open
         \/ AnnounceOpened(c) \/ AnnounceClosed(c)
<1> USE DEF Quiet, TypeOK, Goto, breakerVars, callVars, toolVars
<1>1. CASE Enter(c)
  BY <1>1 DEF Enter, ExecuteToolCall, FailToolCall, MediateSuccessfulCall
<1>2. CASE DebitTarget(c)
  BY <1>2 DEF DebitTarget, CountTargetFailure
<1>3. CASE CreditTarget(c)
  <2>1. CASE TargetOf(c) \notin open
    <3>1. open' = open
      BY <1>3, <2>1 DEF CreditTarget, CloseCircuit
    <3>2. QED BY <1>3, <2>1, <3>1 DEF CreditTarget
  <2>2. QED BY <1>3, <2>1
<1>4. CASE \/ FailFast(c) \/ BlockByPolicy(c) \/ Admit(c) \/ StartExecution(c)
           \/ AbortBeforeStart(c) \/ RecordCompletion(c) \/ RecordFailure(c)
           \/ ScheduleRetry(c) \/ GiveUp(c) \/ Return(c)
  BY <1>4 DEF FailFast, BlockByPolicy, Deny, Admit, StartExecution,
       AbortBeforeStart, RecordCompletion, RecordFailure, ScheduleRetry,
       GiveUp, Return
<1>5. CASE Downstream(c)
  BY <1>5 DEF Downstream, ToolReturns, ToolReturnsUnsafe, ToolThrows,
       SettleExecution, SettleLate
<1>6. CASE DeadlineExpires(c) \/ Cancel(c)
  BY <1>6 DEF DeadlineExpires, Cancel
<1>7. CASE WriteFault(c)
  BY <1>7 DEF WriteFault, CompletionWriteFails, CreditWriteFails,
       UnsafeWriteFails, CallWriteFails, LedgerWriteFails, DebitWriteFails,
       Reject, WriteFails
<1>8. QED BY <1>1, <1>2, <1>3, <1>4, <1>5, <1>6, <1>7 DEF Advance

\* The balance of every target survives a step of one call.
LEMMA BalanceStep ==
  ASSUME TypeOK, NEW c \in Calls, faults' = {}, NEW t \in Targets, Balance(t),
         \/ Enter(c) \/ Advance(c) \/ Downstream(c)
         \/ DeadlineExpires(c) \/ Cancel(c) \/ WriteFault(c)
  PROVE  Balance(t)'
<1>1. /\ circuitLog[t].opened \in Nat /\ circuitLog[t].closed \in Nat
      /\ circuitLog \in [Targets -> [{"opened", "closed"} -> Nat]]
      /\ pc \in [Calls -> Phases]
      /\ TargetOf(c) \in Targets
  BY SessionAssumption DEF TypeOK, TargetOf, RequestRecords
<1>2. /\ Cardinality(Announcing(t, "opening")) \in Nat
      /\ Cardinality(Announcing(t, "closing")) \in Nat
  BY AnnouncingCounts
<1>3. CASE Quiet(c)
  <2>1. /\ Announcing(t, "opening")' = Announcing(t, "opening")
        /\ Announcing(t, "closing")' = Announcing(t, "closing")
    BY <1>3 DEF Quiet, Announcing, TargetOf
  <2>2. QED BY <1>3, <2>1 DEF Quiet, Balance
<1>4. CASE DebitTarget(c) /\ failure[c] \in Qualifying /\ Opens(TargetOf(c))
  <2>1. /\ pc[c] = "debiting" /\ pc' = [pc EXCEPT ![c] = "opening"]
        /\ TargetOf(c) \notin open /\ open' = open \cup {TargetOf(c)}
        /\ circuitLog' = circuitLog /\ req' = req
    BY <1>4 DEF DebitTarget, CountTargetFailure, Opens, Goto
  <2>2. Announcing(t, "closing")' = Announcing(t, "closing")
    BY <1>1, <2>1 DEF Announcing, TargetOf
  <2>3. CASE t = TargetOf(c)
    <3>1. /\ Announcing(t, "opening")' = Announcing(t, "opening") \cup {c}
          /\ c \notin Announcing(t, "opening")
      BY <1>1, <2>1, <2>3 DEF Announcing, TargetOf
    <3>2. Cardinality(Announcing(t, "opening")')
            = Cardinality(Announcing(t, "opening")) + 1
      BY <3>1, AnnouncingCounts
    <3>3. QED BY <1>1, <1>2, <2>1, <2>2, <2>3, <3>2 DEF Balance
  <2>4. CASE t # TargetOf(c)
    <3>1. Announcing(t, "opening")' = Announcing(t, "opening")
      BY <1>1, <2>1, <2>4 DEF Announcing, TargetOf
    <3>2. QED BY <2>1, <2>2, <2>4, <3>1 DEF Balance
  <2>5. QED BY <2>3, <2>4
<1>5. CASE CreditTarget(c) /\ TargetOf(c) \in open
  <2>1. /\ pc[c] = "crediting" /\ pc' = [pc EXCEPT ![c] = "closing"]
        /\ TargetOf(c) \in open /\ open' = open \ {TargetOf(c)}
        /\ circuitLog' = circuitLog /\ req' = req
    BY <1>5 DEF CreditTarget, CloseCircuit, Goto
  <2>2. Announcing(t, "opening")' = Announcing(t, "opening")
    BY <1>1, <2>1 DEF Announcing, TargetOf
  <2>3. CASE t = TargetOf(c)
    <3>1. /\ Announcing(t, "closing")' = Announcing(t, "closing") \cup {c}
          /\ c \notin Announcing(t, "closing")
      BY <1>1, <2>1, <2>3 DEF Announcing, TargetOf
    <3>2. Cardinality(Announcing(t, "closing")')
            = Cardinality(Announcing(t, "closing")) + 1
      BY <3>1, AnnouncingCounts
    <3>3. QED BY <1>1, <1>2, <2>1, <2>2, <2>3, <3>2 DEF Balance
  <2>4. CASE t # TargetOf(c)
    <3>1. Announcing(t, "closing")' = Announcing(t, "closing")
      BY <1>1, <2>1, <2>4 DEF Announcing, TargetOf
    <3>2. QED BY <2>1, <2>2, <2>4, <3>1 DEF Balance
  <2>5. QED BY <2>3, <2>4
<1>6. CASE AnnounceOpened(c)
  <2>1. /\ pc[c] = "opening" /\ pc' = [pc EXCEPT ![c] = "deciding"]
        /\ open' = open /\ req' = req
        /\ circuitLog' = [circuitLog EXCEPT ![TargetOf(c)].opened = @ + 1]
    BY <1>6 DEF AnnounceOpened, PublishCircuit, Goto
  <2>2. Announcing(t, "closing")' = Announcing(t, "closing")
    BY <1>1, <2>1 DEF Announcing, TargetOf
  <2>3. CASE t = TargetOf(c)
    <3>1. /\ Announcing(t, "opening")' = Announcing(t, "opening") \ {c}
          /\ c \in Announcing(t, "opening")
      BY <1>1, <2>1, <2>3 DEF Announcing, TargetOf
    <3>2. Cardinality(Announcing(t, "opening")')
            = Cardinality(Announcing(t, "opening")) - 1
      BY <3>1, AnnouncingCounts
    <3>3. /\ circuitLog'[t].opened = circuitLog[t].opened + 1
          /\ circuitLog'[t].closed = circuitLog[t].closed
      BY <1>1, <2>1, <2>3
    <3>4. QED BY <1>1, <1>2, <2>1, <2>2, <3>2, <3>3 DEF Balance
  <2>4. CASE t # TargetOf(c)
    <3>1. Announcing(t, "opening")' = Announcing(t, "opening")
      BY <1>1, <2>1, <2>4 DEF Announcing, TargetOf
    <3>2. circuitLog'[t] = circuitLog[t]
      BY <1>1, <2>1, <2>4
    <3>3. QED BY <2>1, <2>2, <3>1, <3>2 DEF Balance
  <2>5. QED BY <2>3, <2>4
<1>7. CASE AnnounceClosed(c)
  <2>1. /\ pc[c] = "closing" /\ pc' = [pc EXCEPT ![c] = "returning"]
        /\ open' = open /\ req' = req
        /\ circuitLog' = [circuitLog EXCEPT ![TargetOf(c)].closed = @ + 1]
    BY <1>7 DEF AnnounceClosed, PublishCircuit, Goto
  <2>2. Announcing(t, "opening")' = Announcing(t, "opening")
    BY <1>1, <2>1 DEF Announcing, TargetOf
  <2>3. CASE t = TargetOf(c)
    <3>1. /\ Announcing(t, "closing")' = Announcing(t, "closing") \ {c}
          /\ c \in Announcing(t, "closing")
      BY <1>1, <2>1, <2>3 DEF Announcing, TargetOf
    <3>2. Cardinality(Announcing(t, "closing")')
            = Cardinality(Announcing(t, "closing")) - 1
      BY <3>1, AnnouncingCounts
    <3>3. /\ circuitLog'[t].closed = circuitLog[t].closed + 1
          /\ circuitLog'[t].opened = circuitLog[t].opened
      BY <1>1, <2>1, <2>3
    <3>4. QED BY <1>1, <1>2, <2>1, <2>2, <3>2, <3>3 DEF Balance
  <2>4. CASE t # TargetOf(c)
    <3>1. Announcing(t, "closing")' = Announcing(t, "closing")
      BY <1>1, <2>1, <2>4 DEF Announcing, TargetOf
    <3>2. circuitLog'[t] = circuitLog[t]
      BY <1>1, <2>1, <2>4
    <3>3. QED BY <2>1, <2>2, <3>1, <3>2 DEF Balance
  <2>5. QED BY <2>3, <2>4
<1>8. QED BY <1>3, <1>4, <1>5, <1>6, <1>7, CircuitStep

\* As long as no write fails, every change of a circuit is announced once,
\* however many calls debit and credit a target while announcements are on
\* their way, and in whatever order these arrive.
THEOREM CircuitEventsTrue == Spec => []CircuitEventsMatch
<1>1. Init => CircuitEventsMatch
  <2> SUFFICES ASSUME Init, NEW t \in Targets PROVE Balance(t)
    BY DEF CircuitEventsMatch, Balance
  <2>1. Announcing(t, "opening") = {} /\ Announcing(t, "closing") = {}
    BY DEF Init, Announcing
  <2>2. Cardinality({}) = 0
    BY FS_EmptySet
  <2>3. circuitLog[t].opened = 0 /\ circuitLog[t].closed = 0 /\ t \notin open
    BY DEF Init
  <2>4. QED BY <2>1, <2>2, <2>3 DEF Balance
<1>2. TypeOK /\ CircuitEventsMatch /\ [Next]_vars => CircuitEventsMatch'
  <2> SUFFICES ASSUME TypeOK, CircuitEventsMatch, [Next]_vars, faults' = {},
                      NEW t \in Targets
               PROVE  Balance(t)'
    BY DEF CircuitEventsMatch, Balance
  <2>1. faults = {}
    <3>1. faults \subseteq faults'
      BY DEF Next, Enter, ExecuteToolCall, FailToolCall, MediateSuccessfulCall,
         Advance, FailFast, BlockByPolicy, Deny, Admit, StartExecution,
         AbortBeforeStart, RecordCompletion, CreditTarget, AnnounceClosed,
         RecordFailure, DebitTarget, AnnounceOpened, ScheduleRetry, GiveUp,
         Return, Downstream, ToolReturns, ToolReturnsUnsafe, ToolThrows,
         SettleExecution, SettleLate, DeadlineExpires, Cancel, WriteFault,
         CompletionWriteFails, CreditWriteFails, UnsafeWriteFails,
         CallWriteFails, LedgerWriteFails, DebitWriteFails, Reject, WriteFails,
         Tick, vars
    <3>2. QED BY <3>1
  <2>2. Balance(t)
    BY <2>1 DEF CircuitEventsMatch, Balance
  <2>3. CASE Tick \/ UNCHANGED vars
    <3>1. UNCHANGED <<open, circuitLog, pc, req>>
      BY <2>3 DEF Tick, vars, breakerVars, callVars
    <3>2. QED BY <2>2, <3>1 DEF Balance, Announcing, TargetOf
  <2>4. QED BY <2>2, <2>3, BalanceStep DEF Next
<1>3. QED BY <1>1, <1>2, TypeCorrect, PTL DEF Spec
==============================================================================
