-------------------------- MODULE ProcessSupervisor --------------------------
(***************************************************************************)
(* packages/cli/src/run.ts: one command run by the CLI wrapper under a     *)
(* CoreSession attempt.                                                    *)
(*                                                                         *)
(* executeProcess spawns the command as leader of a process group of its   *)
(* own and settles when Node reports "close": the leader is dead and       *)
(* nobody holds its output pipes.  A timeout or an abort signals the group *)
(* with SIGTERM and arms a timer that sends SIGKILL.  The session waits    *)
(* with a deadline CoreGrace later than the wrapper's own timeout and has  *)
(* an answer as soon as its signal is aborted, whether or not the process  *)
(* is gone.  A process that settled is reported after its output was       *)
(* stored, so an abort may still come in between.                          *)
(*                                                                         *)
(* The clock counts quarters of a second, the delay of the SIGKILL timer.  *)
(* Timers fire when they are due; exits and "close" take any time.  Output *)
(* bytes, redaction, artifacts and the retry of the attempt are left out.  *)
(***************************************************************************)
EXTENDS Naturals, Sequences, FiniteSets, SequencesExt

CONSTANTS
  Timeout,   \* --timeout-ms
  CoreGrace, \* what makeProcessToolCall adds to it for the session
  Horizon,   \* bound on the clock
  Programs   \* the process trees the command may turn into

\* "leader" is the command, "piped" a descendant with its output pipes,
\* "quiet" a descendant without them, and "stray" one that holds the pipes but
\* left the process group.
Processes == {"leader", "piped", "quiet", "stray"}
Group == {"leader", "piped", "quiet"}
PipeHolders == {"leader", "piped", "stray"}

\* Which processes there are, none when the command cannot be started, and
\* which of them ignore SIGTERM.
ProgramRecords == [ tree : SUBSET Processes, ignores : SUBSET Processes ]

KillDelay == 1

\* terminateChildTree runs at most twice, see TerminatedTwice.
Rounds == 1 .. 2

ASSUME SupervisorAssumption ==
  /\ Timeout \in Nat \ {0}
  /\ CoreGrace \in Nat \ {0}
  /\ Horizon \in Nat
  /\ Programs \subseteq ProgramRecords

VARIABLES
  now,       \* the clock
  program,   \* what the command turned into
  alive,     \* its processes that still run
  execution, \* "running" or "settled": the promise of executeProcess
  timer,     \* the wrapper's timeout is armed
  kills,     \* due time of each round's SIGKILL timer, 0 when not armed
  rounds,    \* how often terminateChildTree ran
  timedOut,  \* flag of executeProcess
  cancelled, \* flag of executeProcess
  cleanup,   \* cleanupResult
  signals,   \* terminationSignals
  outcome,   \* what the execution came to
  answer     \* what the session's attempt came to, "none" while it waits

vars == <<now, program, alive, execution, timer, kills, rounds, timedOut,
          cancelled, cleanup, signals, outcome, answer>>

Answers == {"none", "ok", "non_zero_exit", "output_limit_exceeded",
            "spawn_failure", "timeout", "cancellation"}

TypeOK ==
  /\ now \in 0 .. Horizon
  /\ program \in Programs
  /\ alive \subseteq program.tree
  /\ execution \in {"running", "settled"}
  /\ timer \in BOOLEAN
  /\ kills \in [Rounds -> Nat]
  /\ rounds \in 0 .. 2
  /\ timedOut \in BOOLEAN
  /\ cancelled \in BOOLEAN
  /\ cleanup \in {"not-needed", "terminated", "force-killed"}
  /\ signals \in Seq({"SIGTERM", "SIGKILL"})
  /\ outcome \in Answers
  /\ answer \in Answers

Init ==
  /\ now = 0
  /\ program \in Programs
  /\ alive = program.tree
  /\ execution = "running"
  /\ timer = TRUE
  /\ kills = [r \in Rounds |-> 0]
  /\ rounds = 0
  /\ timedOut = FALSE
  /\ cancelled = FALSE
  /\ cleanup = "not-needed"
  /\ signals = <<>>
  /\ outcome = "none"
  /\ answer = "none"

-----------------------------------------------------------------------------
(* The command.                                                            *)

\* A process ends by itself.
Exit(p) ==
  /\ p \in alive
  /\ alive' = alive \ {p}
  /\ UNCHANGED <<now, program, execution, timer, kills, rounds, timedOut,
                 cancelled, cleanup, signals, outcome, answer>>

\* Settling clears the timeout and the latest SIGKILL timer: cleanup().
Settle(result) ==
  /\ execution = "running"
  /\ execution' = "settled"
  /\ outcome' = result
  /\ timer' = FALSE
  /\ kills' = IF rounds > 0 THEN [kills EXCEPT ![rounds] = 0] ELSE kills
  /\ UNCHANGED <<now, program, alive, rounds, timedOut, cancelled, cleanup,
                 signals, answer>>

\* Node reports "error" instead of a process.
SpawnFails == program.tree = {} /\ Settle("spawn_failure")

-----------------------------------------------------------------------------
(* terminateChildTree, its timers, and the abort signal of the attempt.    *)

\* SIGTERM to the group, and a SIGKILL timer that takes the place of the
\* previous one in forceKillTimer without clearing it.
Terminate ==
  /\ cleanup' = "terminated"
  /\ signals' = Append(signals, "SIGTERM")
  /\ alive' = alive \ (Group \ program.ignores)
  /\ rounds' = rounds + 1
  /\ kills' = [kills EXCEPT ![rounds + 1] = now + KillDelay]

\* Slip: the timeout is an interval.
TimeoutRepeats ==
  /\ timer
  /\ now >= Timeout
  /\ timedOut' = TRUE
  /\ Terminate
  /\ UNCHANGED <<now, program, execution, timer, cancelled, outcome, answer>>

TimeoutFires ==
  /\ timer
  /\ now >= Timeout
  /\ timer' = FALSE
  /\ timedOut' = TRUE
  /\ Terminate
  /\ UNCHANGED <<now, program, execution, cancelled, outcome, answer>>

\* The signal of the attempt is aborted: executeWithAbort rejects at once, and
\* abortChild runs if executeProcess still listens.
Abort(reason) ==
  /\ answer = "none"
  /\ answer' = reason
  /\ IF execution = "running"
       THEN cancelled' = TRUE /\ Terminate
       ELSE UNCHANGED <<cancelled, cleanup, signals, alive, rounds, kills>>
  /\ UNCHANGED <<now, program, execution, timer, timedOut, outcome>>

UserCancels == Abort("cancellation")

\* Slips: the session's deadline is the wrapper's own timeout; it waits for the
\* process to be gone.
CoreDeadlineEarly == now >= Timeout /\ Abort("timeout")

CoreDeadlineWaits ==
  now >= Timeout + CoreGrace /\ alive = {} /\ Abort("timeout")

\* The deadline of the session's attempt.
CoreDeadline == now >= Timeout + CoreGrace /\ Abort("timeout")

\* Slip: SIGKILL to the leader only.
KillLeader(r) ==
  /\ kills[r] > 0
  /\ now >= kills[r]
  /\ kills' = [kills EXCEPT ![r] = 0]
  /\ cleanup' = "force-killed"
  /\ signals' = Append(signals, "SIGKILL")
  /\ alive' = alive \ {"leader"}
  /\ UNCHANGED <<now, program, execution, timer, rounds, timedOut, cancelled,
                 outcome, answer>>

KillFires(r) ==
  /\ kills[r] > 0
  /\ now >= kills[r]
  /\ kills' = [kills EXCEPT ![r] = 0]
  /\ cleanup' = "force-killed"
  /\ signals' = Append(signals, "SIGKILL")
  /\ alive' = alive \ Group
  /\ UNCHANGED <<now, program, execution, timer, rounds, timedOut, cancelled,
                 outcome, answer>>

-----------------------------------------------------------------------------
(* The end of the process.                                                 *)

\* Slip: the exit code is looked at before the flags.
ClassifyExitFirst(exit) ==
  IF exit # "ok" THEN exit
  ELSE IF timedOut THEN "timeout"
  ELSE IF cancelled THEN "cancellation" ELSE "ok"

\* classifyProcessSummary, for a process that ended with this exit.
Classify(exit) ==
  IF timedOut THEN "timeout" ELSE IF cancelled THEN "cancellation" ELSE exit

Exits == {"ok", "non_zero_exit", "output_limit_exceeded"}

\* Node reports "close".
Close(exit) ==
  /\ program.tree # {}
  /\ alive \cap PipeHolders = {}
  /\ Settle(Classify(exit))

\* The attempt learns what the execution came to.
Report ==
  /\ outcome # "none"
  /\ answer = "none"
  /\ answer' = outcome
  /\ UNCHANGED <<now, program, alive, execution, timer, kills, rounds, timedOut,
                 cancelled, cleanup, signals, outcome>>

-----------------------------------------------------------------------------
\* The timers that are armed, by the time they are due.
TimerDue ==
  \/ timer /\ now >= Timeout
  \/ answer = "none" /\ now >= Timeout + CoreGrace
  \/ \E r \in Rounds : kills[r] > 0 /\ now >= kills[r]

Tick ==
  /\ ~TimerDue
  /\ now < Horizon
  /\ now' = now + 1
  /\ UNCHANGED <<program, alive, execution, timer, kills, rounds, timedOut,
                 cancelled, cleanup, signals, outcome, answer>>

Timers == TimeoutFires \/ CoreDeadline \/ \E r \in Rounds : KillFires(r)

CloseAny == \E exit \in Exits : Close(exit)

Next ==
  \/ \E p \in Processes : Exit(p)
  \/ SpawnFails
  \/ UserCancels
  \/ Timers
  \/ CloseAny
  \/ Report
  \/ Tick

Spec == Init /\ [][Next]_vars

\* Time passes, due timers fire, and Node reports an error or a "close" in the
\* end; the command itself may run for ever.
FairSpec ==
  /\ Spec
  /\ WF_vars(Tick)
  /\ WF_vars(Timers)
  /\ WF_vars(SpawnFails \/ CloseAny)
  /\ WF_vars(Report)
-----------------------------------------------------------------------------
(* Properties.                                                             *)

\* A command the wrapper signalled is never reported by its exit code, as a
\* success least of all, and "timeout" and "cancellation" are only said of one
\* it signalled or that had ended; whichever of exit, close, timeout, abort and
\* deadline comes first.
AnswerMatchesSignals ==
  /\ answer \in Exits => signals = <<>>
  /\ answer \in {"timeout", "cancellation"}
       => signals # <<>> \/ execution = "settled"

\* terminateChildTree runs once per reason, whatever timers and aborts meet,
\* and each time sends at most the two signals.
TerminatedOncePerReason ==
  /\ rounds = (IF timedOut THEN 1 ELSE 0) + (IF cancelled THEN 1 ELSE 0)
  /\ Len(signals) <= 2 * rounds

\* The deadline of the session is only a safety net: it never cuts a process
\* the wrapper's own timeout has not already tried to end.
DeadlineIsLast ==
  answer = "timeout" => timedOut \/ execution = "settled"

\* Whatever the command does, its caller has an answer in the end: also when
\* it ignores signals, or a process that left the group keeps the pipes open.
Answered == <>(answer # "none")

\* Once the wrapper terminates a command, its process group is gone in the end.
\* A descendant without the pipes that ignores SIGTERM outlives the SIGKILL
\* timer, which "close" clears: for such programs this fails.
GroupDies == rounds > 0 ~> alive \cap Group = {}
==============================================================================
