------------------------------- MODULE CliProofs -------------------------------
(***************************************************************************)
(* What is proved of the command line wrapper: theorems about              *)
(* ProcessSupervisor for every set of programs, every timeout and every    *)
(* grace of the session's deadline, and about the operators of CliCommand. *)
(***************************************************************************)
EXTENDS ProcessSupervisor, CliCommand, SequenceTheorems, WellFoundedInduction, TLAPS

\* The wrapper's timer, its flag and the promise of the execution.
TimerInv ==
  /\ timer => execution = "running" /\ now <= Timeout
  /\ execution = "running" => (timer <=> ~timedOut)
  /\ execution = "running" <=> outcome = "none"

\* terminateChildTree ran once per reason.
RoundsInv ==
  rounds = (IF timedOut THEN 1 ELSE 0) + (IF cancelled THEN 1 ELSE 0)

\* Every round spends one SIGTERM, and one SIGKILL that is still to be sent
\* while its timer is armed.
SignalInv ==
  /\ rounds < 1 => kills[1] = 0
  /\ rounds < 2 => kills[2] = 0
  /\ Len(signals) <= 2 * rounds
  /\ kills[1] > 0 \/ kills[2] > 0 => Len(signals) + 1 <= 2 * rounds
  /\ kills[1] > 0 /\ kills[2] > 0 => Len(signals) + 2 <= 2 * rounds
  /\ rounds > 0 => Len(signals) > 0

\* What outcome and answer say of the flags.
AnswerInv ==
  /\ cancelled => answer # "none"
  /\ outcome \in Exits => ~timedOut /\ ~cancelled
  /\ outcome = "timeout" => timedOut
  /\ outcome = "cancellation" => cancelled
  /\ answer \in Exits => outcome = answer
  /\ answer = "timeout" => timedOut \/ execution = "settled"
  /\ answer = "cancellation" => cancelled \/ execution = "settled"

IInv == TypeOK /\ TimerInv /\ RoundsInv /\ SignalInv /\ AnswerInv

\* Nothing was sent while no round was run, something after one.
LEMMA SignalsLength ==
  ASSUME TypeOK
  PROVE  Len(signals) \in Nat /\ (signals = <<>> <=> Len(signals) = 0)
BY EmptySeq, LenProperties DEF TypeOK

LEMMA InitIInv == Init => IInv
<1> SUFFICES ASSUME Init PROVE IInv
  OBVIOUS
<1> USE DEF Init
<1>1. Len(signals) = 0 /\ signals \in Seq({"SIGTERM", "SIGKILL"})
  OBVIOUS
<1>2. kills \in [Rounds -> Nat] /\ kills[1] = 0 /\ kills[2] = 0
  BY DEF Rounds
<1>3. TypeOK
  <2>1. now \in 0 .. Horizon /\ rounds \in 0 .. 2
    BY SupervisorAssumption
  <2>2. program \in Programs /\ alive \subseteq program.tree
    OBVIOUS
  <2>3. /\ outcome \in Answers /\ answer \in Answers
        /\ timer \in BOOLEAN /\ timedOut \in BOOLEAN /\ cancelled \in BOOLEAN
        /\ execution \in {"running", "settled"}
        /\ cleanup \in {"not-needed", "terminated", "force-killed"}
    BY DEF Answers
  <2>4. QED BY <1>1, <1>2, <2>1, <2>2, <2>3 DEF TypeOK
<1>4. TimerInv /\ RoundsInv /\ AnswerInv
  BY SupervisorAssumption DEF TimerInv, RoundsInv, AnswerInv, Exits
<1>5. SignalInv
  BY <1>1, <1>2 DEF SignalInv
<1>6. QED BY <1>3, <1>4, <1>5 DEF IInv

\* Terminating once more keeps the types and the books of the signals.
LEMMA TerminateStep ==
  ASSUME TypeOK, SignalInv, rounds < 2, Terminate
  PROVE  /\ alive' \subseteq program.tree
         /\ rounds' = rounds + 1 /\ rounds' \in 0 .. 2
         /\ kills' \in [Rounds -> Nat]
         /\ cleanup' = "terminated"
         /\ signals' \in Seq({"SIGTERM", "SIGKILL"})
         /\ SignalInv'
<1>1. rounds \in {0, 1}
  BY DEF TypeOK
<1>2. alive' \subseteq program.tree /\ rounds' = rounds + 1 /\ rounds' \in 0 .. 2
  BY <1>1 DEF TypeOK, Terminate
<1>3. /\ signals' \in Seq({"SIGTERM", "SIGKILL"})
      /\ Len(signals') = Len(signals) + 1
      /\ Len(signals) \in Nat
  BY SignalsLength DEF TypeOK, Terminate
<1>4. /\ kills' \in [Rounds -> Nat]
      /\ kills'[3 - rounds'] = kills[3 - rounds']
  BY <1>1, <1>2 DEF TypeOK, Terminate, Rounds, KillDelay
<1>5. kills[1] \in Nat /\ kills[2] \in Nat
  BY DEF TypeOK, Rounds
<1>6. SignalInv'
  <2>1. CASE rounds = 0
    <3>1. kills'[2] = 0 /\ rounds' = 1
      BY <1>2, <1>4, <2>1 DEF SignalInv
    <3>2. Len(signals) = 0
      BY <1>3, <2>1 DEF SignalInv
    <3>3. QED BY <1>3, <3>1, <3>2 DEF SignalInv
  <2>2. CASE rounds = 1
    <3>1. kills'[1] = kills[1] /\ rounds' = 2 /\ kills[2] = 0
      BY <1>2, <1>4, <2>2 DEF SignalInv
    <3>2. QED BY <1>3, <1>5, <2>2, <3>1 DEF SignalInv
  <2>3. QED BY <1>1, <2>1, <2>2
<1>7. QED BY <1>2, <1>3, <1>4, <1>6 DEF Terminate

\* A SIGKILL timer that fires pays for the signal it sends.
LEMMA KillStep ==
  ASSUME TypeOK, SignalInv, NEW r \in Rounds, KillFires(r)
  PROVE  /\ alive' \subseteq program.tree
         /\ kills' \in [Rounds -> Nat]
         /\ signals' \in Seq({"SIGTERM", "SIGKILL"})
         /\ SignalInv'
<1>1. /\ signals' \in Seq({"SIGTERM", "SIGKILL"})
      /\ Len(signals') = Len(signals) + 1
      /\ Len(signals) \in Nat
  BY SignalsLength DEF TypeOK, KillFires
<1>2. /\ r \in {1, 2} /\ kills[r] > 0 /\ rounds' = rounds /\ rounds \in 0 .. 2
      /\ kills' \in [Rounds -> Nat]
      /\ kills'[r] = 0 /\ kills'[3 - r] = kills[3 - r]
      /\ kills[1] \in Nat /\ kills[2] \in Nat
  BY DEF TypeOK, KillFires, Rounds
<1>3. SignalInv'
  <2>1. CASE r = 1
    <3>1. kills'[1] = 0 /\ kills'[2] = kills[2] BY <1>2, <2>1
    <3>2. QED BY <1>1, <1>2, <2>1, <3>1 DEF SignalInv
  <2>2. CASE r = 2
    <3>1. kills'[2] = 0 /\ kills'[1] = kills[1] BY <1>2, <2>2
    <3>2. QED BY <1>1, <1>2, <2>2, <3>1 DEF SignalInv
  <2>3. QED BY <1>2, <2>1, <2>2
<1>4. QED BY <1>1, <1>2, <1>3 DEF TypeOK, KillFires

\* Settling clears at most a timer.
LEMMA SettleStep ==
  ASSUME IInv, NEW result \in Answers \ {"none"}, Settle(result),
         result \in Exits => ~timedOut /\ ~cancelled,
         result = "timeout" => timedOut,
         result = "cancellation" => cancelled
  PROVE  IInv'
<1>1. /\ kills' \in [Rounds -> Nat]
      /\ kills'[1] \in {0, kills[1]} /\ kills'[2] \in {0, kills[2]}
  BY DEF IInv, TypeOK, Settle, Rounds
<1>2. TypeOK'
  BY <1>1 DEF IInv, TypeOK, Settle
<1>3. TimerInv' /\ RoundsInv' /\ AnswerInv'
  BY DEF IInv, TypeOK, TimerInv, RoundsInv, AnswerInv, Settle, Answers, Exits
<1>4. SignalInv'
  <2>1. Len(signals) \in Nat /\ kills[1] \in Nat /\ kills[2] \in Nat
    BY SignalsLength DEF IInv, TypeOK, Rounds
  <2>2. QED BY <1>1, <2>1 DEF IInv, TypeOK, SignalInv, Settle
<1>5. QED BY <1>2, <1>3, <1>4 DEF IInv

LEMMA NextIInv == IInv /\ [Next]_vars => IInv'
<1> SUFFICES ASSUME IInv, [Next]_vars
             PROVE  IInv'
  OBVIOUS
<1>1. ASSUME NEW p \in Processes, Exit(p)
      PROVE  IInv'
  BY <1>1 DEF Exit, IInv, TypeOK, TimerInv, RoundsInv, SignalInv, AnswerInv
<1>2. CASE SpawnFails
  BY <1>2, SettleStep DEF SpawnFails, Answers, Exits
<1>3. CASE TimeoutFires
  <2>1. rounds < 2 /\ Terminate
    BY <1>3 DEF TimeoutFires, IInv, TimerInv, RoundsInv
  <2>2. TypeOK' /\ SignalInv'
    BY <1>3, <2>1, TerminateStep DEF TimeoutFires, IInv, TypeOK
  <2>3. TimerInv' /\ RoundsInv' /\ AnswerInv'
    BY <1>3, <2>1 DEF TimeoutFires, Terminate, IInv, TypeOK, TimerInv,
                      RoundsInv, AnswerInv, Exits
  <2>4. QED BY <2>2, <2>3 DEF IInv
<1>4. CASE UserCancels \/ CoreDeadline
  <2>1. PICK reason \in {"timeout", "cancellation"} :
          /\ Abort(reason)
          /\ reason = "timeout" => now >= Timeout + CoreGrace
    BY <1>4 DEF UserCancels, CoreDeadline
  <2>2. TypeOK' /\ SignalInv'
    <3>1. CASE execution = "running"
      <4>1. rounds < 2 /\ Terminate
        BY <2>1, <3>1 DEF Abort, IInv, RoundsInv, AnswerInv
      <4>2. QED
        BY <2>1, <4>1, TerminateStep DEF Abort, IInv, TypeOK, Answers
    <3>2. CASE execution # "running"
      BY <2>1, <3>2 DEF Abort, IInv, TypeOK, SignalInv, Answers
    <3>3. QED BY <3>1, <3>2
  <2>3. TimerInv'
    BY <2>1 DEF Abort, IInv, TimerInv
  <2>4. RoundsInv'
    BY <2>1 DEF Abort, Terminate, IInv, TypeOK, RoundsInv, AnswerInv
  <2>5. reason = "timeout" => timedOut \/ execution = "settled"
    BY <2>1, SupervisorAssumption DEF IInv, TypeOK, TimerInv
  <2>6. AnswerInv'
    BY <2>1, <2>5 DEF Abort, IInv, TypeOK, TimerInv, AnswerInv, Exits
  <2>7. QED BY <2>2, <2>3, <2>4, <2>6 DEF IInv
<1>5. ASSUME NEW r \in Rounds, KillFires(r)
      PROVE  IInv'
  <2>1. TypeOK' /\ SignalInv'
    BY <1>5, KillStep DEF IInv, TypeOK, KillFires
  <2>2. TimerInv' /\ RoundsInv' /\ AnswerInv'
    BY <1>5 DEF KillFires, IInv, TimerInv, RoundsInv, AnswerInv
  <2>3. QED BY <2>1, <2>2 DEF IInv
<1>6. ASSUME NEW exit \in Exits, Close(exit)
      PROVE  IInv'
  <2>1. /\ Settle(Classify(exit))
        /\ Classify(exit) \in Answers \ {"none"}
        /\ Classify(exit) \in Exits => ~timedOut /\ ~cancelled
        /\ Classify(exit) = "timeout" => timedOut
        /\ Classify(exit) = "cancellation" => cancelled
    BY <1>6 DEF Close, Classify, Exits, Answers
  <2>2. QED BY <2>1, SettleStep
<1>7. CASE Report
  BY <1>7 DEF Report, IInv, TypeOK, TimerInv, RoundsInv, SignalInv, AnswerInv
<1>8. CASE Tick
  <2>1. TypeOK' /\ TimerInv'
    BY <1>8, SupervisorAssumption DEF Tick, TimerDue, IInv, TypeOK, TimerInv
  <2>2. RoundsInv' /\ SignalInv' /\ AnswerInv'
    BY <1>8 DEF Tick, IInv, RoundsInv, SignalInv, AnswerInv
  <2>3. QED BY <2>1, <2>2 DEF IInv
<1>9. CASE UNCHANGED vars
  BY <1>9 DEF vars, IInv, TypeOK, TimerInv, RoundsInv, SignalInv, AnswerInv
<1>10. QED
  BY <1>1, <1>2, <1>3, <1>4, <1>5, <1>6, <1>7, <1>8, <1>9
     DEF Next, Timers, CloseAny

LEMMA Invariant == Spec => []IInv
  BY InitIInv, NextIInv, PTL DEF Spec

\* Every variable stays in its set; terminateChildTree runs at most twice.
THEOREM SupervisorTypeCorrect == Spec => []TypeOK
  BY Invariant, PTL DEF IInv

\* The answer tells the truth about what the wrapper did to the command.
THEOREM AnswerTruthful == Spec => []AnswerMatchesSignals
<1>1. IInv => AnswerMatchesSignals
  <2> SUFFICES ASSUME IInv PROVE AnswerMatchesSignals
    OBVIOUS
  <2>1. answer \in Exits => rounds = 0
    BY DEF IInv, RoundsInv, AnswerInv
  <2>2. answer \in {"timeout", "cancellation"}
          => rounds > 0 \/ execution = "settled"
    BY DEF IInv, RoundsInv, AnswerInv
  <2>3. QED
    BY <2>1, <2>2, SignalsLength DEF IInv, SignalInv, AnswerMatchesSignals
<1>2. QED BY <1>1, Invariant, PTL

\* One termination per reason, at most two signals each.
THEOREM BoundedTermination == Spec => []TerminatedOncePerReason
<1>1. IInv => TerminatedOncePerReason
  BY DEF IInv, RoundsInv, SignalInv, TerminatedOncePerReason
<1>2. QED BY <1>1, Invariant, PTL

\* The session's deadline never comes before the wrapper's own timeout.
THEOREM DeadlineIsSafetyNet == Spec => []DeadlineIsLast
<1>1. IInv => DeadlineIsLast
  BY DEF IInv, AnswerInv, DeadlineIsLast
<1>2. QED BY <1>1, Invariant, PTL

-----------------------------------------------------------------------------
(* The command line.                                                       *)

\* Commands as the wrapper sees them, over any set of texts.
Commands(Txt) ==
  { command \in [words : Seq([text : Txt, has : SUBSET Patterns]),
                 line : SUBSET Patterns] : command.words # <<>> }

\* The wrapper's classification and the session's policy leave no gap: a
\* command that is spawned is not a destructive one, fixture-only or not.
THEOREM NothingDestructiveSpawns ==
  ASSUME NEW Txt, NEW command \in Commands(Txt), NEW fixtureOnly \in BOOLEAN,
         Handling(command, fixtureOnly) = "spawned"
  PROVE  ~IsDestructive(command)
<1> SUFFICES ASSUME IsDestructive(command) PROVE FALSE
  OBVIOUS
<1>1. CASE fixtureOnly
  BY <1>1 DEF Handling
<1>2. CASE ~fixtureOnly
  <2>1. PolicyBlocks(DestructiveRisk(command), fixtureOnly)
    BY <1>2 DEF PolicyBlocks, DestructiveRisk
  <2> QED BY <2>1 DEF Handling
<1> QED BY <1>1, <1>2

\* A command whose call may be repeated by the session because git only reads
\* is not destructive, whatever its arguments are, unless "rm -rf" stands in it:
\* the lists of idempotencyFor and of assessDestructiveCommand are disjoint.
THEOREM GitReadsAreSafe ==
  ASSUME NEW Txt, NEW command \in Commands(Txt), Executable(command) = "git",
         Idempotency(command) = "idempotent", "rm -rf" \notin command.line
  PROVE  ~IsDestructive(command)
<1>1. First(command) \in {"status", "diff", "log", "show", "rev-parse"}
  BY DEF Idempotency
<1>2. ~GitIsDestructive(command)
  BY <1>1 DEF GitIsDestructive
<1>3. ~ShellIsDestructive(command)
  BY DEF ShellIsDestructive
<1> QED BY <1>2, <1>3 DEF IsDestructive

\* The wrapper exits with 0 exactly if the call has a result: no failure, of
\* whatever class and with whatever exit code of the process, is taken for a
\* success.
THEOREM ZeroIsSuccess ==
  ASSUME NEW failure \in FailureTypes \cup {"none"}, NEW exit \in Int,
         NEW destructive \in BOOLEAN, NEW fixtureOnly \in BOOLEAN
  PROVE  ExitCode(failure, exit, destructive, fixtureOnly) = 0 <=> failure = "none"
BY DEF ExitCode, FailureTypes

\* What is kept of a stream: up to the limit as it is, and of a longer one as
\* much and the mark, with up to two bytes more where a character was cut.
Kept(stream, limit) ==
  /\ stream.truncated \in BOOLEAN /\ stream.bytes \in Nat
  /\ IF stream.truncated
       THEN stream.bytes \in limit + Marker .. limit + Marker + Replacement - 1
       ELSE stream.bytes <= limit

\* Whatever chunks a stream is written in and wherever the limit falls, what is
\* kept of it stays within the limit as long as nothing was dropped, and else
\* exceeds it by the mark and at most two bytes; a cut stream stays as it is,
\* and no stream within the limit is cut (appendOutput, truncateUtf8).
THEOREM OutputStaysCut ==
  ASSUME NEW limit \in Nat, NEW bytes \in Nat, NEW cut \in 0 .. 3,
         NEW stream \in [bytes : Nat, truncated : BOOLEAN], Kept(stream, limit),
         NEW kept, kept = AppendOutput(stream, bytes, limit, cut)
  PROVE  /\ Kept(kept, limit)
         /\ stream.truncated => kept = stream
         /\ ~stream.truncated => (kept.truncated <=> stream.bytes + bytes > limit)
<1>1. CASE stream.truncated
  <2>1. kept = stream
    BY <1>1 DEF AppendOutput
  <2> QED BY <1>1, <2>1
<1>2. CASE ~stream.truncated /\ stream.bytes + bytes <= limit
  <2>1. kept = [stream EXCEPT !.bytes = @ + bytes]
    BY <1>2 DEF AppendOutput
  <2>2. kept.bytes = stream.bytes + bytes /\ kept.truncated = FALSE
    BY <1>2, <2>1
  <2>3. kept.bytes \in Nat /\ kept.bytes <= limit
    BY <1>2, <2>2
  <2>4. Kept(kept, limit)
    BY <2>2, <2>3, Zenon DEF Kept
  <2> QED BY <1>2, <2>2, <2>4
<1>3. CASE ~stream.truncated /\ ~(stream.bytes + bytes <= limit)
  <2>1. kept = [bytes |-> limit + (IF cut = 0 THEN 0 ELSE Replacement - cut) + Marker,
                truncated |-> TRUE]
    BY <1>3 DEF AppendOutput
  <2>2. kept.truncated = TRUE
        /\ kept.bytes \in limit + Marker .. limit + Marker + Replacement - 1
    BY <2>1 DEF Marker, Replacement
  <2>3. stream.bytes + bytes > limit /\ kept.bytes \in Nat
    BY <1>3, <2>2 DEF Marker, Replacement
  <2>4. Kept(kept, limit)
    BY <2>2, <2>3, Zenon DEF Kept
  <2> QED BY <1>3, <2>2, <2>3, <2>4
<1> QED BY <1>1, <1>2, <1>3

\* A word that occurs has a first place.
LEMMA FirstPlace ==
  ASSUME NEW W, NEW argv \in Seq(W), NEW word, \E k \in 1 .. Len(argv) : argv[k] = word
  PROVE  \E k \in 1 .. Len(argv) : argv[k] = word /\ \A j \in 1 .. k - 1 : argv[j] # word
<1> DEFINE Places == { k \in 1 .. Len(argv) : argv[k] = word }
<1>1. Places \in SUBSET Nat /\ Places # {}
  OBVIOUS
<1>2. PICK k \in Places : \A j \in Places : ~(<<j, k>> \in OpToRel(<, Nat))
  BY <1>1, NatLessThanWellFounded, WFMin
<1>3. \A j \in Places : ~(j < k)
  BY <1>1, <1>2 DEF OpToRel
<1> QED BY <1>3

\* The words after the first "--" are the command, all of them and as they
\* are, whatever they look like: nothing of them is read as an option.
THEOREM CommandIsVerbatim ==
  ASSUME NEW W, NEW argv \in Seq(W), ParseRun(argv).command # <<>>
  PROVE  LET n == Separator(argv) IN
         /\ n \in 2 .. Len(argv) - 1 /\ argv[n] = "--"
         /\ \A k \in 1 .. n - 1 : argv[k] # "--"
         /\ Len(ParseRun(argv).command) = Len(argv) - n
         /\ \A k \in 1 .. Len(argv) - n : ParseRun(argv).command[k] = argv[n + k]
<1> DEFINE n == Separator(argv)
           IsFirst(k) == argv[k] = "--" /\ \A j \in 1 .. k - 1 : argv[j] # "--"
<1>1. /\ argv # <<>> /\ argv[1] = "run" /\ n \notin {0, Len(argv)}
      /\ ParseRun(argv).command = SubSeq(argv, n + 1, Len(argv))
  BY DEF ParseRun
<1>2. \E k \in 1 .. Len(argv) : IsFirst(k)
  BY <1>1, FirstPlace DEF Separator
<1>3. n \in 1 .. Len(argv) /\ IsFirst(n)
  BY <1>1, <1>2 DEF Separator
<1>4. n # 1
  BY <1>1, <1>3
<1> QED BY <1>1, <1>3, <1>4
=============================================================================
