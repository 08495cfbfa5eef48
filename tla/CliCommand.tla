------------------------------ MODULE CliCommand ------------------------------
(***************************************************************************)
(* packages/cli/src/run.ts around the process: what a command line says,    *)
(* which commands count as destructive or repeatable, what becomes of them  *)
(* in the session, and what the wrapper exits with and prints.              *)
(*                                                                         *)
(* A word of a command is its text, of which only what the code names       *)
(* matters, and the patterns the text matches; a command has besides the    *)
(* patterns that only the words put together match.                        *)
(***************************************************************************)
EXTENDS Integers, Sequences, FiniteSets, FailureClassification

-----------------------------------------------------------------------------
(* The command line.                                                       *)

\* Options of parseToolplaneRunArgs.  A number is written "n", an assignment
\* "k=v"; any other value is a text.
Numbers == {"--timeout-ms", "--output-limit-bytes"}
Assignments == {"--env"}
Texts == {"--cwd", "--evidence-root", "--core-url", "--stdin", "--run-name", "--tag",
          "--session-label", "--task-label", "--repo-label", "--agent-label"}
Flags == {"--fixture-only", "--json"}
TakesValue == Numbers \cup Assignments \cup Texts
Collected == {"--env", "--tag"}  \* given several times, all count

\* requireValue looks at the options only, and takes whatever comes next, also
\* what looks like an option.
GoodValue(option, value) ==
  /\ option \in Numbers => value = "n"
  /\ option \in Assignments => value = "k=v"

\* The settings are, option by option, the values given; an unreadable option
\* is an error, and the options after it are not looked at.
Failed == << <<"error", "error">> >>
ReadOptions(args) ==
  LET Step[k \in 1 .. Len(args) + 1] ==  \* what is left from word k on
        IF k > Len(args) THEN <<>>
        ELSE IF args[k] \in Flags THEN
          LET rest == Step[k + 1] IN
          IF rest = Failed THEN Failed ELSE << <<args[k], "set">> >> \o rest
        ELSE IF \/ args[k] \notin TakesValue
                \/ k = Len(args)
                \/ ~GoodValue(args[k], args[k + 1])
          THEN Failed
        ELSE LET rest == Step[k + 2] IN
             IF rest = Failed THEN Failed ELSE << <<args[k], args[k + 1]>> >> \o rest
  IN Step[1]

\* Later values of an option replace earlier ones, but for those collected.
Setting(options, option, default) ==
  LET given == { k \in 1 .. Len(options) : options[k][1] = option } IN
  IF given = {} THEN default
  ELSE options[CHOOSE k \in given : \A other \in given : other <= k][2]
SettingsOf(options, option) ==
  { options[k][2] : k \in { j \in 1 .. Len(options) : options[j][1] = option } }

\* The command is all that follows the first "--".
Separator(argv) ==
  IF \E k \in 1 .. Len(argv) : argv[k] = "--"
    THEN CHOOSE k \in 1 .. Len(argv) : argv[k] = "--" /\ \A j \in 1 .. k - 1 : argv[j] # "--"
    ELSE 0

ParseRun(argv) ==
  IF argv = <<>> \/ argv[1] # "run" \/ Separator(argv) \in {0, Len(argv)}
    THEN [options |-> Failed, command |-> <<>>]
  ELSE [options |-> ReadOptions(SubSeq(argv, 2, Separator(argv) - 1)),
        command |-> SubSeq(argv, Separator(argv) + 1, Len(argv))]

\* runToolplaneCli: what is asked for.
Subcommand(argv) ==
  IF argv # <<>> /\ argv[1] = "setup-snippets" THEN "setup-snippets"
  ELSE IF Len(argv) >= 2 /\ argv[1] = "doctor" /\ argv[2] = "integrations" THEN "doctor"
  ELSE IF ParseRun(argv).options = Failed THEN "usage"
  ELSE "run"

-----------------------------------------------------------------------------
(* assessDestructiveCommand.                                               *)

\* "f" is in the word, it ends with "c", it is a recursive option; of shell
\* text: one of destructivePatterns is in it; of a whole line: "rm -rf" is.
Patterns == {"f", "c$", "-R", "destructive", "rm -rf"}

Word(text, has) == [text |-> text, has |-> has]
Text(word) == word.text
Args(command) == 2 .. Len(command.words)
SomeArg(command, texts) == \E k \in Args(command) : command.words[k].text \in texts
SomeArgHas(command, pattern) == \E k \in Args(command) : pattern \in command.words[k].has
Executable(command) == command.words[1].text
First(command) == IF Len(command.words) < 2 THEN "" ELSE command.words[2].text

\* shellCommandText: the word after the first option that ends with a c, or all
\* of them.  What an option says may be the text of another command.
ShellIsDestructive(command) ==
  LET options == { k \in Args(command) : "c$" \in command.words[k].has }
      text == (CHOOSE k \in options : \A other \in options : k <= other) + 1
  IN /\ Executable(command) \in {"sh", "bash", "zsh"}
     /\ IF options # {} /\ text \in Args(command) /\ command.words[text].text # ""
          THEN "destructive" \in command.words[text].has
          ELSE "destructive" \in command.line

\* isDestructiveGit.
GitIsDestructive(command) ==
  /\ Executable(command) = "git"
  /\ \/ First(command) = "clean" /\ (SomeArgHas(command, "f") \/ SomeArg(command, {"-d"}))
     \/ First(command) = "reset" /\ SomeArg(command, {"--hard", "--merge", "--keep"})
     \/ First(command) = "push" /\ SomeArg(command, {"--force", "--force-with-lease", "-f"})
     \/ First(command) \in {"checkout", "switch", "restore"}

IsDestructive(command) ==
  \/ Executable(command) \in {"rm", "rmdir", "unlink", "shred", "truncate"}
  \/ Executable(command) \in {"dd", "mkfs", "mount", "umount"}
  \/ Executable(command) = "mv" /\ Len(command.words) >= 3
  \/ /\ Executable(command) = "cp" /\ Len(command.words) >= 3
     /\ SomeArgHas(command, "f") \/ Len(command.words) > 3
  \/ Executable(command) \in {"chmod", "chown", "chgrp"} /\ SomeArgHas(command, "-R")
  \/ GitIsDestructive(command)
  \/ "rm -rf" \in command.line
  \/ ShellIsDestructive(command)

\* idempotencyFor; the interpreter that runs the wrapper is "node".
Idempotency(command) ==
  IF \/ /\ Executable(command) = "git"
        /\ First(command) \in {"status", "diff", "log", "show", "rev-parse"}
     \/ Executable(command) \in {"node", "pnpm", "npm", "vitest"}
    THEN "idempotent" ELSE "unknown"

-----------------------------------------------------------------------------
(* The run.                                                                *)

\* The tool the wrapper registers, and #evaluatePolicy of the session on it.
DestructiveRisk(command) == IF IsDestructive(command) THEN "high" ELSE "none"
PolicyBlocks(risk, fixtureOnly) == risk = "high" /\ ~fixtureOnly

\* What becomes of the command once the policy was asked: execute() of the
\* registered tool.
Handling(command, fixtureOnly) ==
  IF PolicyBlocks(DestructiveRisk(command), fixtureOnly) THEN "blocked"
  ELSE IF IsDestructive(command) /\ fixtureOnly THEN "simulated"
  ELSE "spawned"

\* Events go to a core if the command line or else the environment names one.
ForwardsTo(options, environment) ==
  IF Setting(options, "--core-url", "") # "" THEN Setting(options, "--core-url", "")
  ELSE environment

\* Output: text that goes over the limit is cut there and marked, the rest is
\* dropped.  Of a character the limit falls into, cut bytes are left (none
\* where it falls between two), in whose place the replacement character stands.
\* Both streams are redacted before anything is recorded of them.
Marker == 12       \* bytes of the mark
Replacement == 3   \* bytes of the replacement character

AppendOutput(stream, bytes, limit, cut) ==
  IF stream.truncated THEN stream
  ELSE IF stream.bytes + bytes <= limit THEN [stream EXCEPT !.bytes = @ + bytes]
  ELSE [bytes |-> limit + (IF cut = 0 THEN 0 ELSE Replacement - cut) + Marker,
        truncated |-> TRUE]

\* The events of a redaction: one, and another of stderr.
Sanitized(stdoutRedactions, stderrRedactions) ==
  IF stdoutRedactions + stderrRedactions = 0 THEN 0
  ELSE IF stderrRedactions > 0 THEN 2 ELSE 1

\* exitCodeFor: failure is "none" for a result; exit is the process's own code,
\* -1 if it has none, if it was not spawned or is not known yet.
ExitCode(failure, exit, destructive, fixtureOnly) ==
  IF failure = "none" THEN 0
  ELSE IF failure = "timeout" THEN 124
  ELSE IF failure = "cancellation" THEN 130
  ELSE IF failure = "spawn_failure" THEN 127
  ELSE IF failure = "destructive_action_blocked" \/ (destructive /\ ~fixtureOnly) THEN 2
  ELSE IF exit > 0 THEN exit
  ELSE 1

\* renderRunResult: which parts are printed where.
Rendered(json, process, stdout, stderr, failed, trust) ==
  IF json THEN {"stdout:json"}
  ELSE {"stdout:run", "stdout:evidence"}
       \cup (IF process THEN {"stdout:command"} ELSE {})
       \cup (IF process /\ stdout THEN {"stdout:output"} ELSE {})
       \cup (IF process /\ stderr THEN {"stderr:output"} ELSE {})
       \cup (IF failed THEN {"stderr:card"} ELSE {"stdout:summary"})
       \cup {"stdout:trust"} \cup (IF trust THEN {} ELSE {"stdout:warnings"})

\* displayReplaySafety, by the first of the words the reason contains.
ReplayLabel(reason) ==
  IF "fixture" \in reason THEN "fixture replay"
  ELSE IF "loopback" \in reason THEN "loopback replay"
  ELSE IF "withheld" \in reason THEN "not replayable"
  ELSE "as it is"
=============================================================================
