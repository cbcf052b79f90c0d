----------------------------- MODULE Benchmark -----------------------------
(***************************************************************************)
(* The comparison of the tools (Benchmark.rb) on one test case: each tool  *)
(* is run on the correct and the incorrect version of a program, what it   *)
(* says of them is judged, and at the end the results of smacpp and of     *)
(* clang's own analyzer are combined.                                      *)
(*                                                                         *)
(* A case of the suite "jm" is three files, with options of their own for  *)
(* each tool. A case of "juliet" is one file, with a macro that leaves the *)
(* bad or the good code out, and two lists of options that all tools use.  *)
(***************************************************************************)
EXTENDS Launcher, FiniteSets

CONSTANTS
    SMACPP_PATH,    \* the wrapper, by its real path
    Systems,        \* as in Launcher; HasFiles says whether the case is complete
    Reports         \* what a compiler can say: numbers of errors and warnings

ASSUME BenchmarkAssumption ==
    /\ SMACPP_PATH \in DOMAIN ParentPath
    /\ Reports \subseteq [Errors : Nat, Warnings : Nat]
    /\ \A system \in Systems :
        DOMAIN system = {"Executables", "Plugins", "CanExecute", "HasFiles"}

VARIABLES
    system,
    suite,
    phase,      \* "checking", "options", "running", "combining", "finished", "raised"
    tool,       \* the number of the tool that is run
    good,       \* the options for the correct programs, an array
    incorrect,  \* those for the incorrect program
    runs,       \* the runs of the tool so far
    results     \* by tool

benchmarkVars == <<system, suite, phase, tool, good, incorrect, runs, results>>

Tools == <<"clang", "smacpp", "frama">>
Tool == Tools[tool]

\* The files of a case, in the order in which a tool is run on them.
Files == IF suite = "jm" THEN <<"correct", "catch_bad", "incorrect">>
                         ELSE <<"OMITBAD", "OMITGOOD">>
Incorrect == {"incorrect", "OMITGOOD"}
SuiteOptions(name, define) == IF name = "jm" THEN <<"-I">> ELSE <<"-I", define>>

\* The options for the two kinds of file are one array in a case of "jm".
Init ==
    /\ system \in Systems
    /\ suite \in {"jm", "juliet"}
    /\ phase = "checking"
    /\ tool = 1
    /\ good = SuiteOptions(suite, "-DOMITBAD")
    /\ incorrect = SuiteOptions(suite, "-DOMITGOOD")
    /\ runs = <<>>
    /\ results = <<>>

\* Only a case of files of their own is checked for them.
CheckFiles ==
    /\ phase = "checking"
    /\ phase' = IF suite = "jm" /\ ~system.HasFiles THEN "raised" ELSE "options"
    /\ UNCHANGED <<system, suite, tool, good, incorrect, runs, results>>

----------------------------------------------------------------------------
(* Options.                                                                *)

Include(options, option) ==
    IF Contains(options, option) THEN options ELSE Append(options, option)

ExtraOptsForTool(options, name) ==
    LET quiet == IF name \in {"clang", "smacpp"} THEN Include(options, "-Wno-return-type")
                                                 ELSE options
    IN IF name = "smacpp" THEN Include(quiet, "-fsyntax-only") ELSE quiet

\* Mutant: a tool that is run on files gets the array of the tool before it.
PassedOptionsShared(options) == options

\* A tool that is run on files gets an array of its own.
PassedOptions(options) == IF suite = "jm" THEN SuiteOptions(suite, "") ELSE options

AddOptions ==
    /\ phase = "options"
    /\ good' = ExtraOptsForTool(PassedOptions(good), Tool)
    /\ incorrect' = ExtraOptsForTool(PassedOptions(incorrect), Tool)
    /\ phase' = "running"
    /\ UNCHANGED <<system, suite, tool, runs, results>>

----------------------------------------------------------------------------
(* A run of a tool.                                                        *)

File == Files[Len(runs) + 1]
Options == IF File \in Incorrect THEN incorrect ELSE good

\* clang's "2 warnings and 1 error generated" has no number before "generated"
\* but that of the errors.
Counted(report) ==
    [error_count |-> report.Errors,
     warning_count |-> IF report.Errors > 0 THEN 0 ELSE report.Warnings]
NothingCounted == [error_count |-> 0, warning_count |-> 0]

Launched == main(system, <<SMACPP_PATH>> \o Options \o <<File>>)

IsRunning(name) ==
    /\ phase = "running"
    /\ Tool = name
    /\ Len(runs) < Len(Files)
Record(arguments, counts) ==
    runs' = Append(runs, [File |-> File, Arguments |-> arguments, Counts |-> counts])

SingleClangRun ==
    /\ IsRunning("clang")
    /\ "clang" \in system.Executables
    /\ \E report \in Reports : Record(<<"clang", "--analyze">> \o Options \o <<File>>,
                                      Counted(report))
    /\ UNCHANGED <<system, suite, phase, tool, good, incorrect, results>>

SingleSmacppRun ==
    /\ IsRunning("smacpp")
    /\ SMACPP_PATH \in system.Executables
    /\ Launched.Executes
    /\ \E report \in Reports : Record(Launched.Arguments, Counted(report))
    /\ UNCHANGED <<system, suite, phase, tool, good, incorrect, results>>

\* The wrapper says on its standard output that it found no compiler or no
\* plugin, which nobody reads, and its exit code is kept and not looked at.
FailedSmacppRun ==
    /\ IsRunning("smacpp")
    /\ SMACPP_PATH \in system.Executables
    /\ ~Launched.Executes
    /\ Record(<<>>, NothingCounted)
    /\ UNCHANGED <<system, suite, phase, tool, good, incorrect, results>>

\* Frama-C counts its errors and its warnings apart.
SingleFramaRun ==
    /\ IsRunning("frama")
    /\ "frama-c" \in system.Executables
    /\ \E report \in Reports :
            Record(<<"frama-c">> \o Options \o <<File>>,
                   [error_count |-> report.Errors, warning_count |-> report.Warnings])
    /\ UNCHANGED <<system, suite, phase, tool, good, incorrect, results>>

\* A program that is not there is an exception, which nobody catches. Of smacpp
\* the wrapper is asked for, and not the plugin.
RaiseMissingProgram ==
    /\ \/ IsRunning("clang") /\ "clang" \notin system.Executables
       \/ IsRunning("smacpp") /\ SMACPP_PATH \notin system.Executables
       \/ IsRunning("frama") /\ "frama-c" \notin system.Executables
    /\ phase' = "raised"
    /\ UNCHANGED <<system, suite, tool, good, incorrect, runs, results>>

----------------------------------------------------------------------------
(* Results.                                                                *)

WarningsOrErrors(run) == run.Counts.warning_count > 0 \/ run.Counts.error_count > 0

Result(success, failureType) == [success |-> success, failure_type |-> failureType]

\* Mutant: that nothing is said counts as a success.
CheckResultSilent(correctRuns, incorrectRuns) ==
    IF \E run \in correctRuns : WarningsOrErrors(run) THEN Result(FALSE, "false positive")
    ELSE IF \A run \in incorrectRuns : WarningsOrErrors(run)
         THEN Result(FALSE, "false negative")
    ELSE Result(TRUE, "")

CheckResult(correctRuns, incorrectRuns) ==
    IF \E run \in correctRuns : WarningsOrErrors(run) THEN Result(FALSE, "false positive")
    ELSE IF \E run \in incorrectRuns : ~WarningsOrErrors(run)
         THEN Result(FALSE, "false negative")
    ELSE Result(TRUE, "")

IncorrectRuns == {run \in ToSet(runs) : run.File \in Incorrect}

StoreResult ==
    /\ phase = "running"
    /\ Len(runs) = Len(Files)
    /\ LET result == CheckResult(ToSet(runs) \ IncorrectRuns, IncorrectRuns)
       IN results' = [name \in DOMAIN results \cup {Tool} |->
                        IF name = Tool THEN [result |-> result, raw |-> runs]
                                       ELSE results[name]]
    /\ runs' = <<>>
    /\ phase' = IF tool < Len(Tools) THEN "options" ELSE "combining"
    /\ tool' = IF tool < Len(Tools) THEN tool + 1 ELSE tool
    /\ UNCHANGED <<system, suite, good, incorrect>>

\* Mutant: one tool's success is enough.
CombinedEither(smacpp, clang) ==
    Result(smacpp.success \/ clang.success, smacpp.failure_type)

\* In Ruby the empty string counts as true, so that "smacpp_failure ||
\* clang_failure" is always smacpp's.
Combined(smacpp, clang) ==
    Result(\/ smacpp.success /\ clang.success
           \/ smacpp.success /\ ~clang.success /\ clang.failure_type # "false positive"
           \/ ~smacpp.success /\ clang.success /\ smacpp.failure_type # "false positive",
           smacpp.failure_type)

CreateCombinedResults ==
    /\ phase = "combining"
    /\ LET combined == Combined(results["smacpp"].result, results["clang"].result)
       IN results' = [name \in DOMAIN results \cup {"combined"} |->
                        IF name = "combined" THEN [result |-> combined, raw |-> <<>>]
                                             ELSE results[name]]
    /\ phase' = "finished"
    /\ UNCHANGED <<system, suite, tool, good, incorrect, runs>>

Next ==
    \/ CheckFiles
    \/ AddOptions
    \/ SingleClangRun
    \/ SingleSmacppRun
    \/ FailedSmacppRun
    \/ SingleFramaRun
    \/ RaiseMissingProgram
    \/ StoreResult
    \/ CreateCombinedResults

Spec == Init /\ [][Next]_benchmarkVars

----------------------------------------------------------------------------
(* Properties.                                                             *)

RunsOf(name) == IF name \in DOMAIN results THEN ToSet(results[name].raw) ELSE {}
SaidOf(files, names) ==
    UNION {{run \in RunsOf(name) : run.File \in files} : name \in names}

\* The combined result is that of a tool which says whatever one of the two says
\* ("if they were both used how good the results were"): nothing is said of the
\* correct programs by either, and something of the incorrect one by one.
CombinedIsJoint ==
    phase = "finished" =>
        (results["combined"].result.success <=>
            /\ \A run \in SaidOf(ToSet(Files) \ Incorrect, {"clang", "smacpp"}) :
                    ~WarningsOrErrors(run)
            /\ \E run \in SaidOf(Incorrect, {"clang", "smacpp"}) : WarningsOrErrors(run))

\* A run's arguments without its command, its file, and the Null of the wrapper.
CommandLength(name) == IF name = "frama" THEN 1 ELSE 2
CommandOf(name, run) == SubSeq(run.Arguments, 1, CommandLength(name))
OptionsIn(name, run) ==
    SubSeq(run.Arguments, CommandLength(name) + 1,
           Len(run.Arguments) - (IF name = "smacpp" THEN 2 ELSE 1))

\* What the appending of options comes to for each tool. frama is asked for none; it
\* has none on files of its own, and in "juliet" those that were meant for smacpp.
OptionsThatReach(name) ==
    CASE name = "clang" -> <<"-Wno-return-type">>
      [] name = "smacpp" -> <<"-Wno-return-type", "-fsyntax-only">>
      [] name = "frama" -> IF suite = "jm" THEN <<>>
                                           ELSE <<"-Wno-return-type", "-fsyntax-only">>

\* A tool is judged by runs of one command, either all or none of which happen, and
\* every tool is given the options of the case for the file that it is run on, with
\* the macro that belongs to the file, and behind them, each once, those that reach
\* it: of the options that the tools append to lists they share, clang never has the
\* one that would keep it from analysing, and frama has them in "juliet" alone.
ComparesLikeRuns ==
    \A name \in ToSet(Tools) : \A run, other \in RunsOf(name) :
        /\ run.Arguments = <<>> <=> other.Arguments = <<>>
        /\ run.Arguments # <<>> =>
            /\ CommandOf(name, run) = CommandOf(name, other)
            /\ OptionsIn(name, run) =
                    SuiteOptions(suite, IF run.File \in Incorrect THEN "-DOMITGOOD"
                                                                  ELSE "-DOMITBAD")
                        \o OptionsThatReach(name)

\* A wrapper that does not start a compiler is never taken for an analyzer that
\* is right about a case, alone or combined.
UnlaunchedFindsNothing ==
    "smacpp" \in DOMAIN results /\ (\E run \in RunsOf("smacpp") : run.Arguments = <<>>) =>
        /\ results["smacpp"].result = Result(FALSE, "false negative")
        /\ phase = "finished" =>
                (results["combined"].result.success <=> results["clang"].result.success)

\* The compiler that analyses with smacpp is handed the plugin before anything
\* else: its own one when there is one, whatever is installed. What clang's own
\* analyzer was given for the same file follows, in the same order, with nothing
\* but the option that keeps it from compiling in between.
LoadsPluginFirst ==
    \A run \in RunsOf("smacpp"), plain \in RunsOf("clang") :
        run.Arguments # <<>> /\ run.File = plain.File =>
            /\ run.Arguments[2] \in system.Plugins
            /\ ParentPath[SMACPP_PATH] \in system.Plugins =>
                    run.Arguments[2] = ParentPath[SMACPP_PATH]
            /\ \E i \in DOMAIN run.Arguments :
                    /\ run.Arguments[i] = "-fsyntax-only"
                    /\ RemoveAt(run.Arguments, i) =
                            <<run.Arguments[1], run.Arguments[2]>>
                                \o SubSeq(plain.Arguments, 3, Len(plain.Arguments)) \o <<Null>>

\* A combined failure is of one of the two kinds by which the summary counts
\* failures ("if they were both used how good the results were").
CombinedFailureIsNamed ==
    phase = "finished" /\ ~results["combined"].result.success =>
        results["combined"].result.failure_type \in {"false positive", "false negative"}
=============================================================================
