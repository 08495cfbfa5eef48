-------------------------- MODULE MCProcessSupervisor --------------------------
(* Instances of ProcessSupervisor for TLC.                                    *)
EXTENDS ProcessSupervisor

\* Any tree under a leader, or none; only descendants without the pipes, of
\* which the wrapper hears nothing, heed SIGTERM.
TamePrograms ==
  { pr \in ProgramRecords :
      /\ pr.tree = {} \/ "leader" \in pr.tree
      /\ pr.ignores \subseteq pr.tree \ {"quiet", "stray"} }

-----------------------------------------------------------------------------
(* The command line around the process, over all short ones.               *)
Cli == INSTANCE CliCommand

Lines(words, n) == UNION { [1 .. k -> words] : k \in 0 .. n }

\* A reading of the options: where each of them starts.
IsReading(args, starts) ==
  \A k \in DOMAIN args :
    IF k \in starts
      THEN args[k] \in Cli!Flags \/ (args[k] \in Cli!TakesValue /\ k + 1 \in DOMAIN args \ starts)
      ELSE k - 1 \in starts /\ args[k - 1] \in Cli!TakesValue /\ Cli!GoodValue(args[k - 1], args[k])

\* The options are read if there is such a reading, and then one setting each.
ASSUME OptionsAreRead ==
  \A args \in Lines({"--json", "--tag", "--timeout-ms", "n", "x"}, 5) :
    LET readings == { starts \in SUBSET DOMAIN args : IsReading(args, starts) } IN
    IF readings = {} THEN Cli!ReadOptions(args) = Cli!Failed
    ELSE \A starts \in readings : Len(Cli!ReadOptions(args)) = Cardinality(starts)

\* A command with "--" of its own, and options that look like values.
ASSUME LinesAreUnderstood ==
  /\ \A argv \in Lines({"run", "--", "--json", "x"}, 5) :
       Cli!Subcommand(argv) = "run"
         => Cli!ParseRun(argv).command # <<>> /\ argv[1] = "run" /\ Cli!Separator(argv) < Len(argv)
  /\ Cli!Setting(Cli!ReadOptions(<<"--tag", "a", "--tag", "--json">>), "--tag", "") = "--json"
  /\ Cli!SettingsOf(Cli!ReadOptions(<<"--tag", "a", "--tag", "--json">>), "--tag") = {"a", "--json"}

\* The commands of packages/cli/tests/run.test.ts, destructive or not.
Command(words, line) == [words |-> words, line |-> line]
Plain(text) == Cli!Word(text, {})
ASSUME TestedCommands ==
  /\ \A command \in
       { Command(<<Plain("rm"), Cli!Word("-rf", {"f"}), Plain("x")>>, {"rm -rf", "destructive"}),
         Command(<<Plain("bash"), Cli!Word("-lc", {"c$"}), Cli!Word("mv a b", {"destructive"})>>, {}),
         Command(<<Plain("git"), Plain("push"), Cli!Word("--force", {"f"})>>, {}),
         Command(<<Plain("git"), Plain("reset"), Plain("--hard")>>, {}),
         Command(<<Plain("chmod"), Cli!Word("-R", {"-R"}), Plain("777"), Plain("x")>>, {}),
         Command(<<Plain("mv"), Plain("a"), Plain("b")>>, {}) } :
       /\ Cli!Handling(command, FALSE) = "blocked"
       /\ Cli!Handling(command, TRUE) = "simulated"
  /\ \A command \in
       { Command(<<Plain("git"), Plain("status"), Plain("--short")>>, {}),
         Command(<<Plain("node"), Plain("script")>>, {}) } :
       /\ Cli!Handling(command, FALSE) = "spawned"
       /\ Cli!Idempotency(command) = "idempotent"
================================================================================
