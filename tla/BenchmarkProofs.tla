-------------------------- MODULE BenchmarkProofs --------------------------
(***************************************************************************)
(* The combined result is the result of a tool that says whatever one of   *)
(* the two combined says; the tools are judged by runs that are alike; a   *)
(* wrapper that starts no compiler is not taken for an analyzer that is    *)
(* right, and the plugin is loaded before anything else: for every system  *)
(* and whatever the tools report.                                          *)
(***************************************************************************)
EXTENDS Benchmark, DataLemmas

\* A file for each run, in the order of the case.
InOrder(raw, files) == \A i \in DOMAIN raw : raw[i].File = files[i]

\* The runs of a tool that has been judged, and the judgement.
Judged(name) ==
    /\ DOMAIN results[name].raw = DOMAIN Files
    /\ InOrder(results[name].raw, Files)
    /\ results[name].result =
            CheckResult({run \in ToSet(results[name].raw) : run.File \notin Incorrect},
                        {run \in ToSet(results[name].raw) : run.File \in Incorrect})

\* The tools that have been judged in a phase.
JudgedTools ==
    IF phase \in {"combining", "finished"} THEN ToSet(Tools)
    ELSE {Tools[i] : i \in 1 .. tool - 1}

BenchmarkInv ==
    /\ tool \in 1 .. 3
    /\ \E S : runs \in Seq(S)
    /\ InOrder(runs, Files)
    /\ Len(runs) <= Len(Files)
    /\ JudgedTools \subseteq DOMAIN results
    /\ \A name \in JudgedTools : Judged(name)
    /\ phase = "finished" =>
            results["combined"].result =
                Combined(results["smacpp"].result, results["clang"].result)

----------------------------------------------------------------------------

LEMMA AppendRun ==
    ASSUME NEW S, NEW raw \in Seq(S), NEW run
    PROVE  /\ Append(raw, run) \in Seq(S \cup {run})
           /\ Len(Append(raw, run)) = Len(raw) + 1
           /\ \A i \in 1 .. Len(raw) : Append(raw, run)[i] = raw[i]
           /\ Append(raw, run)[Len(raw) + 1] = run
           /\ DOMAIN raw = 1 .. Len(raw)
           /\ DOMAIN Append(raw, run) = 1 .. Len(raw) + 1
<1>1. raw \in Seq(S \cup {run}) /\ run \in S \cup {run}
  OBVIOUS
<1> QED BY <1>1

\* The files of a case of either suite.
LEMMA FilesOfACase ==
    /\ \/ Files = <<"correct", "catch_bad", "incorrect">>
       \/ Files = <<"OMITBAD", "OMITGOOD">>
    /\ DOMAIN Files = 1 .. Len(Files)
<1>1. CASE suite = "jm"
  BY <1>1 DEF Files
<1>2. CASE suite # "jm"
  BY <1>2 DEF Files
<1> QED BY <1>1, <1>2

\* A case has one incorrect program.
LEMMA OneIncorrect ==
    ASSUME NEW raw, DOMAIN raw = DOMAIN Files, InOrder(raw, Files)
    PROVE  \E i \in DOMAIN raw :
                /\ raw[i].File \in Incorrect
                /\ \A j \in DOMAIN raw : raw[j].File \in Incorrect => j = i
<1>1. Incorrect = {"incorrect", "OMITGOOD"}
  BY DEF Incorrect
<1>2. CASE Files = <<"correct", "catch_bad", "incorrect">>
  <2>1. DOMAIN Files = {1, 2, 3}
    BY <1>2
  <2>2. /\ Files[1] \notin Incorrect /\ Files[2] \notin Incorrect
        /\ Files[3] \in Incorrect
    BY <1>1, <1>2
  <2> QED BY <2>1, <2>2 DEF InOrder
<1>3. CASE Files = <<"OMITBAD", "OMITGOOD">>
  <2>1. DOMAIN Files = {1, 2}
    BY <1>3
  <2>2. Files[1] \notin Incorrect /\ Files[2] \in Incorrect
    BY <1>1, <1>3
  <2> QED BY <2>1, <2>2 DEF InOrder
<1> QED BY <1>2, <1>3, FilesOfACase

\* Nothing that the judgements rest on changes.
LEMMA JudgementsStay ==
    ASSUME BenchmarkInv, UNCHANGED <<suite, tool, results>>, JudgedTools' = JudgedTools
    PROVE  /\ tool' \in 1 .. 3
           /\ JudgedTools' \subseteq DOMAIN results'
           /\ \A name \in JudgedTools' : Judged(name)'
           /\ Files' = Files
<1>1. Files' = Files
  BY DEF Files
<1>2. ASSUME NEW name \in JudgedTools' PROVE Judged(name)'
  <2>1. Judged(name)
    BY <1>2 DEF BenchmarkInv
  <2> QED BY <1>1, <2>1 DEF Judged
<1> QED BY <1>1, <1>2 DEF BenchmarkInv

LEMMA InitBenchmarkInv == Init => BenchmarkInv
<1> SUFFICES ASSUME Init PROVE BenchmarkInv
  OBVIOUS
<1>1. runs \in Seq({}) /\ Len(runs) = 0 /\ DOMAIN runs = {}
  BY DEF Init
<1>2. Len(Files) \in Nat
  BY DEF Files
<1>3. JudgedTools = {}
  BY DEF Init, JudgedTools
<1>4. tool = 1 /\ phase # "finished"
  BY DEF Init
<1> QED BY <1>1, <1>2, <1>3, <1>4 DEF BenchmarkInv, InOrder

\* The options, a failure, and what is known before the runs.
LEMMA PreparingStep ==
    ASSUME BenchmarkInv, CheckFiles \/ AddOptions \/ RaiseMissingProgram
    PROVE  BenchmarkInv'
<1>1. UNCHANGED <<suite, tool, runs, results>>
  BY DEF CheckFiles, AddOptions, RaiseMissingProgram
<1>2. phase \notin {"combining", "finished"} /\ phase' \notin {"combining", "finished"}
  BY DEF CheckFiles, AddOptions, RaiseMissingProgram, IsRunning
<1>3. JudgedTools' = JudgedTools
  BY <1>1, <1>2 DEF JudgedTools
<1> QED BY <1>1, <1>2, <1>3, JudgementsStay DEF BenchmarkInv, InOrder

LEMMA RunStep ==
    ASSUME BenchmarkInv, NEW arguments, NEW counts, Record(arguments, counts),
           Len(runs) < Len(Files), phase = "running",
           UNCHANGED <<suite, phase, tool, results>>
    PROVE  BenchmarkInv'
<1>1. PICK S : runs \in Seq(S)
  BY DEF BenchmarkInv
<1> DEFINE run == [File |-> File, Arguments |-> arguments, Counts |-> counts]
<1>2. runs' = Append(runs, run) /\ run.File = Files[Len(runs) + 1]
  BY DEF Record, File
<1>3. JudgedTools' = JudgedTools
  BY DEF JudgedTools
<1>4. Files' = Files /\ Len(Files) \in Nat /\ Len(runs) \in Nat
  BY <1>1, <1>3, JudgementsStay DEF Files
<1> HIDE DEF run
<1>5. runs' \in Seq(S \cup {run}) /\ Len(runs') = Len(runs) + 1
  BY <1>1, <1>2, AppendRun
<1>6. InOrder(runs', Files)
  <2> SUFFICES ASSUME NEW i \in DOMAIN runs' PROVE runs'[i].File = Files[i]
    BY DEF InOrder
  <2>1. i \in 1 .. Len(runs) + 1
    BY <1>1, <1>2, AppendRun
  <2>2. CASE i \in 1 .. Len(runs)
    <3>1. runs'[i] = runs[i] /\ i \in DOMAIN runs
      BY <1>1, <1>2, <2>2, AppendRun
    <3> QED BY <3>1 DEF BenchmarkInv, InOrder
  <2>3. CASE i = Len(runs) + 1
    BY <1>1, <1>2, <2>3, AppendRun
  <2> QED BY <1>4, <2>1, <2>2, <2>3
<1> QED BY <1>3, <1>4, <1>5, <1>6, JudgementsStay DEF BenchmarkInv

LEMMA StoreStep == BenchmarkInv /\ StoreResult => BenchmarkInv'
<1> SUFFICES ASSUME BenchmarkInv, StoreResult PROVE BenchmarkInv'
  OBVIOUS
<1>1. Files' = Files /\ Len(Files) \in Nat /\ suite' = suite
  BY DEF StoreResult, Files
<1>2. PICK S : runs \in Seq(S)
  BY DEF BenchmarkInv
<1>3. DOMAIN runs = DOMAIN Files /\ InOrder(runs, Files)
  <2>1. Len(runs) = Len(Files) /\ DOMAIN runs = 1 .. Len(runs)
    BY <1>2 DEF StoreResult
  <2> QED BY <2>1, FilesOfACase DEF BenchmarkInv
<1> DEFINE judgement == CheckResult(ToSet(runs) \ IncorrectRuns, IncorrectRuns)
<1>4. /\ DOMAIN results' = DOMAIN results \cup {Tool}
      /\ results'[Tool] = [result |-> judgement, raw |-> runs]
      /\ \A name \in DOMAIN results \ {Tool} : results'[name] = results[name]
  BY DEF StoreResult
<1>5. judgement = CheckResult({run \in ToSet(runs) : run.File \notin Incorrect},
                              {run \in ToSet(runs) : run.File \in Incorrect})
  <2>1. ToSet(runs) \ IncorrectRuns = {run \in ToSet(runs) : run.File \notin Incorrect}
    BY DEF IncorrectRuns
  <2> QED BY <2>1 DEF IncorrectRuns
<1> HIDE DEF judgement
<1>6. ASSUME NEW name, name = Tool PROVE Judged(name)'
  <2>1. results'[name].raw = runs /\ results'[name].result = judgement
    BY <1>4, <1>6
  <2> QED BY <1>1, <1>3, <1>5, <2>1 DEF Judged, Incorrect
<1>7. JudgedTools' \subseteq JudgedTools \cup {Tool} /\ tool' \in 1 .. 3 /\ phase' # "finished"
  <2>1. tool \in 1 .. 3 /\ Len(Tools) = 3 /\ phase = "running"
    BY DEF BenchmarkInv, StoreResult, Tools
  <2>2. CASE tool < 3
    BY <2>1, <2>2 DEF StoreResult, JudgedTools, Tool
  <2>3. CASE tool = 3
    <3>1. ToSet(Tools) = {Tools[i] : i \in 1 .. 3}
      BY DEF ToSet, Tools
    <3>2. phase' = "combining" /\ tool' = 3
      BY <2>1, <2>3 DEF StoreResult
    <3>3. JudgedTools' = {Tools[i] : i \in 1 .. 3} /\ JudgedTools = {Tools[i] : i \in 1 .. 2}
      BY <2>1, <2>3, <3>1, <3>2 DEF JudgedTools
    <3> QED BY <2>3, <3>2, <3>3 DEF Tool
  <2> QED BY <2>1, <2>2, <2>3
<1>8. ASSUME NEW name \in JudgedTools' PROVE Judged(name)' /\ name \in DOMAIN results'
  <2>1. CASE name = Tool
    BY <1>4, <1>6, <2>1
  <2>2. CASE name # Tool
    <3>1. name \in DOMAIN results /\ Judged(name)
      BY <1>7, <1>8, <2>2 DEF BenchmarkInv
    <3> QED BY <1>1, <1>4, <2>2, <3>1 DEF Judged, Incorrect
  <2> QED BY <2>1, <2>2
<1>9. runs' \in Seq({}) /\ Len(runs') = 0 /\ DOMAIN runs' = {}
  BY DEF StoreResult
<1> QED BY <1>1, <1>7, <1>8, <1>9 DEF BenchmarkInv, InOrder

LEMMA CombineStep == BenchmarkInv /\ CreateCombinedResults => BenchmarkInv'
<1> SUFFICES ASSUME BenchmarkInv, CreateCombinedResults PROVE BenchmarkInv'
  OBVIOUS
<1>1. /\ UNCHANGED <<suite, tool, runs>> /\ Files' = Files
      /\ phase = "combining" /\ phase' = "finished"
  BY DEF CreateCombinedResults, Files
<1>2. JudgedTools' = JudgedTools /\ JudgedTools = {"clang", "smacpp", "frama"}
  <2>1. ToSet(Tools) = {"clang", "smacpp", "frama"}
    BY DEF ToSet, Tools
  <2> QED BY <1>1, <2>1 DEF JudgedTools
<1>3. /\ DOMAIN results' = DOMAIN results \cup {"combined"}
      /\ results'["combined"].result =
                Combined(results["smacpp"].result, results["clang"].result)
      /\ \A name \in DOMAIN results \ {"combined"} : results'[name] = results[name]
  BY DEF CreateCombinedResults
<1>4. ASSUME NEW name \in JudgedTools' PROVE Judged(name)' /\ results'[name] = results[name]
  <2>1. name \in DOMAIN results \ {"combined"} /\ Judged(name)
    BY <1>2, <1>4 DEF BenchmarkInv
  <2> QED BY <1>1, <1>3, <2>1 DEF Judged, Incorrect
<1>5. results'["combined"].result = Combined(results'["smacpp"].result, results'["clang"].result)
  BY <1>2, <1>3, <1>4
<1> QED BY <1>1, <1>2, <1>3, <1>4, <1>5 DEF BenchmarkInv

\* At every step of the comparison, the tools before the one that is run have been
\* judged, each by a run of every file of the case in the order of the files, and
\* at the end the combined result is made of smacpp's and clang's
\* (run_test_cases_single_flags, create_combined_results).
THEOREM BenchmarkInvariance == Spec => []BenchmarkInv
<1>1. BenchmarkInv /\ [Next]_benchmarkVars => BenchmarkInv'
  <2> SUFFICES ASSUME BenchmarkInv, [Next]_benchmarkVars PROVE BenchmarkInv'
    OBVIOUS
  <2>1. CASE CheckFiles \/ AddOptions \/ RaiseMissingProgram
    BY <2>1, PreparingStep
  <2>2. CASE SingleClangRun
    BY <2>2, RunStep DEF SingleClangRun, IsRunning
  <2>3. CASE SingleSmacppRun
    BY <2>3, RunStep DEF SingleSmacppRun, IsRunning
  <2>4. CASE FailedSmacppRun
    BY <2>4, RunStep DEF FailedSmacppRun, IsRunning
  <2>5. CASE SingleFramaRun
    BY <2>5, RunStep DEF SingleFramaRun, IsRunning
  <2>6. CASE StoreResult
    BY <2>6, StoreStep
  <2>7. CASE CreateCombinedResults
    BY <2>7, CombineStep
  <2>8. CASE UNCHANGED benchmarkVars
    <3>1. UNCHANGED <<suite, phase, tool, runs, results>> /\ JudgedTools' = JudgedTools
      BY <2>8 DEF benchmarkVars, JudgedTools
    <3> QED BY <3>1, JudgementsStay DEF BenchmarkInv, InOrder
  <2> QED BY <2>1, <2>2, <2>3, <2>4, <2>5, <2>6, <2>7, <2>8 DEF Next
<1> QED BY <1>1, InitBenchmarkInv, PTL DEF Spec

----------------------------------------------------------------------------

\* A tool is right when it finds nothing in a correct program and something in
\* each incorrect one.
LEMMA CheckResultMeaning ==
    ASSUME NEW correct, NEW bad
    PROVE  /\ CheckResult(correct, bad).success <=>
                    /\ \A run \in correct : ~WarningsOrErrors(run)
                    /\ \A run \in bad : WarningsOrErrors(run)
           /\ CheckResult(correct, bad).failure_type = "false positive" <=>
                    \E run \in correct : WarningsOrErrors(run)
<1>1. CASE \E run \in correct : WarningsOrErrors(run)
  BY <1>1 DEF CheckResult, Result, WarningsOrErrors
<1>2. CASE /\ \A run \in correct : ~WarningsOrErrors(run)
           /\ \E run \in bad : ~WarningsOrErrors(run)
  BY <1>2 DEF CheckResult, Result, WarningsOrErrors
<1>3. CASE /\ \A run \in correct : ~WarningsOrErrors(run)
           /\ \A run \in bad : WarningsOrErrors(run)
  BY <1>3 DEF CheckResult, Result, WarningsOrErrors
<1> QED BY <1>1, <1>2, <1>3 DEF WarningsOrErrors

\* When the combined result is a success.
LEMMA CombinedMeaning ==
    ASSUME NEW smacpp, NEW clang
    PROVE  Combined(smacpp, clang).success <=>
                \/ smacpp.success /\ clang.success
                \/ smacpp.success /\ ~clang.success /\ clang.failure_type # "false positive"
                \/ ~smacpp.success /\ clang.success /\ smacpp.failure_type # "false positive"
  BY DEF Combined, Result

\* What a judged tool said, and when it succeeds.
LEMMA JudgedMeaning ==
    ASSUME NEW name, name \in DOMAIN results, Judged(name)
    PROVE  LET correct == {run \in RunsOf(name) : run.File \notin Incorrect}
               bad == {run \in RunsOf(name) : run.File \in Incorrect}
           IN
           /\ results[name].result.success <=>
                    /\ \A run \in correct : ~WarningsOrErrors(run)
                    /\ \E run \in bad : WarningsOrErrors(run)
           /\ results[name].result.failure_type = "false positive" <=>
                    \E run \in correct : WarningsOrErrors(run)
           /\ \A run \in RunsOf(name) : run.File \in ToSet(Files)
<1> DEFINE raw == results[name].raw
           correct == {run \in RunsOf(name) : run.File \notin Incorrect}
           bad == {run \in RunsOf(name) : run.File \in Incorrect}
<1>1. RunsOf(name) = {raw[i] : i \in DOMAIN raw}
  BY DEF RunsOf, ToSet
<1>2. DOMAIN raw = DOMAIN Files /\ InOrder(raw, Files)
  BY DEF Judged
<1> HIDE DEF raw
<1>4. PICK i \in DOMAIN raw :
            /\ raw[i].File \in Incorrect
            /\ \A j \in DOMAIN raw : raw[j].File \in Incorrect => j = i
  BY <1>2, OneIncorrect
<1>5. bad = {raw[i]}
  BY <1>1, <1>4
<1>6. results[name].result = CheckResult(correct, bad)
  BY DEF Judged, RunsOf, raw
<1>7. \A run \in RunsOf(name) : run.File \in ToSet(Files)
  BY <1>1, <1>2 DEF InOrder, ToSet
<1> HIDE DEF correct, bad
<1>3. /\ CheckResult(correct, bad).success <=>
            /\ \A run \in correct : ~WarningsOrErrors(run)
            /\ \A run \in bad : WarningsOrErrors(run)
      /\ CheckResult(correct, bad).failure_type = "false positive" <=>
            \E run \in correct : WarningsOrErrors(run)
  BY CheckResultMeaning
<1>9. /\ (\A run \in bad : WarningsOrErrors(run)) <=> WarningsOrErrors(raw[i])
      /\ (\E run \in bad : WarningsOrErrors(run)) <=> WarningsOrErrors(raw[i])
  BY <1>5 DEF WarningsOrErrors
<1>8. /\ results[name].result.success <=>
            (\A run \in correct : ~WarningsOrErrors(run)) /\ WarningsOrErrors(raw[i])
      /\ results[name].result.failure_type = "false positive" <=>
            \E run \in correct : WarningsOrErrors(run)
  BY <1>3, <1>6, <1>9
<1> QED BY <1>7, <1>8, <1>9 DEF correct, bad

\* For every system, and whatever the tools report, the combined result is that
\* of a tool that says whatever clang or smacpp says (create_combined_results).
THEOREM CombinedIsAJointTool == Spec => []CombinedIsJoint
<1>1. BenchmarkInv => CombinedIsJoint
  <2> SUFFICES ASSUME BenchmarkInv, phase = "finished"
               PROVE  results["combined"].result.success <=>
                        /\ \A run \in SaidOf(ToSet(Files) \ Incorrect, {"clang", "smacpp"}) :
                                ~WarningsOrErrors(run)
                        /\ \E run \in SaidOf(Incorrect, {"clang", "smacpp"}) :
                                WarningsOrErrors(run)
    BY DEF CombinedIsJoint
  <2> DEFINE Correct(name) == {run \in RunsOf(name) : run.File \notin Incorrect}
             Bad(name) == {run \in RunsOf(name) : run.File \in Incorrect}
             Finds(runsOf) == \E run \in runsOf : WarningsOrErrors(run)
  <2>1. "clang" \in JudgedTools /\ "smacpp" \in JudgedTools
    BY DEF JudgedTools, ToSet, Tools
  <2>2. ASSUME NEW name \in {"clang", "smacpp"}
        PROVE  /\ results[name].result.success <=> ~Finds(Correct(name)) /\ Finds(Bad(name))
               /\ results[name].result.failure_type = "false positive" <=> Finds(Correct(name))
               /\ \A run \in RunsOf(name) : run.File \in ToSet(Files)
    <3>1. name \in DOMAIN results /\ Judged(name)
      BY <2>1, <2>2 DEF BenchmarkInv
    <3> QED BY <3>1, JudgedMeaning
  <2>3. SaidOf(ToSet(Files) \ Incorrect, {"clang", "smacpp"}) = Correct("clang") \cup Correct("smacpp")
    BY <2>2 DEF SaidOf
  <2>4. SaidOf(Incorrect, {"clang", "smacpp"}) = Bad("clang") \cup Bad("smacpp")
    BY DEF SaidOf
  <2>5. Finds(Correct("clang") \cup Correct("smacpp")) <=>
            Finds(Correct("clang")) \/ Finds(Correct("smacpp"))
    OBVIOUS
  <2>6. Finds(Bad("clang") \cup Bad("smacpp")) <=> Finds(Bad("clang")) \/ Finds(Bad("smacpp"))
    OBVIOUS
  <2>7. results["combined"].result = Combined(results["smacpp"].result, results["clang"].result)
    BY DEF BenchmarkInv
  <2>8. results["combined"].result.success <=>
            /\ ~Finds(Correct("clang") \cup Correct("smacpp"))
            /\ Finds(Bad("clang") \cup Bad("smacpp"))
    <3> DEFINE smacpp == results["smacpp"].result
               clang == results["clang"].result
    <3>1. /\ smacpp.success <=> ~Finds(Correct("smacpp")) /\ Finds(Bad("smacpp"))
          /\ clang.success <=> ~Finds(Correct("clang")) /\ Finds(Bad("clang"))
          /\ smacpp.failure_type = "false positive" <=> Finds(Correct("smacpp"))
          /\ clang.failure_type = "false positive" <=> Finds(Correct("clang"))
      BY <2>2
    <3>2. results["combined"].result.success <=>
                \/ smacpp.success /\ clang.success
                \/ smacpp.success /\ ~clang.success /\ clang.failure_type # "false positive"
                \/ ~smacpp.success /\ clang.success /\ smacpp.failure_type # "false positive"
      <4> HIDE DEF smacpp, clang
      <4>1. Combined(smacpp, clang).success <=>
                \/ smacpp.success /\ clang.success
                \/ smacpp.success /\ ~clang.success /\ clang.failure_type # "false positive"
                \/ ~smacpp.success /\ clang.success /\ smacpp.failure_type # "false positive"
        BY CombinedMeaning
      <4>2. results["combined"].result = Combined(smacpp, clang)
        BY <2>7 DEF smacpp, clang
      <4> QED BY <4>1, <4>2
    <3> HIDE DEF Finds, Correct, Bad, smacpp, clang
    <3> QED BY <2>5, <2>6, <3>1, <3>2
  <2> QED BY <2>3, <2>4, <2>8
<1> QED BY <1>1, BenchmarkInvariance, PTL

----------------------------------------------------------------------------
(* The arguments with which each tool is run, on every system.             *)

\* The macro with which a file of a case of "juliet" is compiled.
Macro(file) == IF file \in Incorrect THEN "-DOMITGOOD" ELSE "-DOMITBAD"

\* The options of each tool, as a case of its suite comes to have them. In a case of
\* "juliet" a tool also has what the tools before it have added.
SharedOptions(define) == Append(SuiteOptions(suite, define), "-Wno-return-type")
OptionsOf(name, define) ==
    IF name = "clang" THEN SharedOptions(define)
    ELSE IF name = "smacpp" \/ suite # "jm"
         THEN Append(SharedOptions(define), "-fsyntax-only")
         ELSE SuiteOptions(suite, define)

\* The options before the tool that is run adds its own.
AskedFor(define) ==
    IF tool = 1 THEN SuiteOptions(suite, define) ELSE OptionsOf(Tools[tool - 1], define)

\* What the wrapper does with the arguments of a file.
LaunchedFor(file) ==
    main(system, <<SMACPP_PATH>> \o OptionsOf("smacpp", Macro(file)) \o <<file>>)

\* The run of a tool is what its options and the system determine.
RanAs(name, run) ==
    LET options == OptionsOf(name, Macro(run.File)) IN
    /\ name = "clang" => run.Arguments = <<"clang", "--analyze">> \o options \o <<run.File>>
    /\ name = "smacpp" =>
            IF LaunchedFor(run.File).Executes
            THEN run.Arguments = LaunchedFor(run.File).Arguments
            ELSE run.Arguments = <<>> /\ run.Counts = NothingCounted
    /\ name = "frama" => run.Arguments = <<"frama-c">> \o options \o <<run.File>>

\* The options of the tool that is run, and how what has been run was run. Without the
\* options in each phase the runs would not be known to be alike.
ArgumentsInv ==
    /\ phase \in {"checking", "options"} =>
            good = AskedFor("-DOMITBAD") /\ incorrect = AskedFor("-DOMITGOOD")
    /\ phase = "running" =>
            good = OptionsOf(Tool, "-DOMITBAD") /\ incorrect = OptionsOf(Tool, "-DOMITGOOD")
    /\ \A i \in DOMAIN runs : RanAs(Tool, runs[i])
    /\ \A name \in JudgedTools : \A i \in DOMAIN results[name].raw :
            RanAs(name, results[name].raw[i])
    /\ DOMAIN results \subseteq JudgedTools \cup {"combined"}

----------------------------------------------------------------------------

\* An option more.
LEMMA ContainsOfAppend ==
    ASSUME NEW S, NEW options \in Seq(S), NEW option, NEW other
    PROVE  /\ Append(options, option) \in Seq(S \cup {option})
           /\ Contains(Append(options, option), other) <=>
                    Contains(options, other) \/ option = other
<1>1. /\ Append(options, option) \in Seq(S \cup {option})
      /\ Len(Append(options, option)) = Len(options) + 1
      /\ Append(options, option)[Len(options) + 1] = option
      /\ \A i \in 1 .. Len(options) : Append(options, option)[i] = options[i]
      /\ Len(options) \in Nat
  BY AppendRun
<1> QED BY <1>1 DEF Contains

\* The options of a case.
LEMMA OptionsOfASuite ==
    ASSUME NEW name, NEW define
    PROVE  /\ SuiteOptions(name, define) \in Seq({"-I", define})
           /\ \A option : Contains(SuiteOptions(name, define), option) <=>
                    option = "-I" \/ (name # "jm" /\ option = define)
<1>1. CASE name = "jm"
  <2>1. SuiteOptions(name, define) = <<"-I">>
    BY <1>1 DEF SuiteOptions
  <2>2. Len(<<"-I">>) = 1 /\ <<"-I">> \in Seq({"-I", define})
    OBVIOUS
  <2>3. \A option : Contains(<<"-I">>, option) <=> option = "-I"
    BY <2>2 DEF Contains
  <2> QED BY <1>1, <2>1, <2>2, <2>3
<1>2. CASE name # "jm"
  <2>1. SuiteOptions(name, define) = <<"-I", define>>
    BY <1>2 DEF SuiteOptions
  <2>2. Len(<<"-I", define>>) = 2 /\ <<"-I", define>> \in Seq({"-I", define})
    OBVIOUS
  <2>3. \A option : Contains(<<"-I", define>>, option) <=> option = "-I" \/ option = define
    BY <2>2 DEF Contains
  <2> QED BY <1>2, <2>1, <2>2, <2>3
<1> QED BY <1>1, <1>2

\* No tool but smacpp is asked only to parse, and each case leaves the warning to be added.
LEMMA SharedOptionsContain ==
    ASSUME NEW define \in {"-DOMITBAD", "-DOMITGOOD"}
    PROVE  /\ SharedOptions(define) \in Seq({"-I", define, "-Wno-return-type"})
           /\ Contains(SharedOptions(define), "-Wno-return-type")
           /\ ~Contains(SharedOptions(define), "-fsyntax-only")
           /\ ~Contains(SuiteOptions(suite, define), "-Wno-return-type")
           /\ ~Contains(SuiteOptions(suite, define), "-fsyntax-only")
<1>1. SuiteOptions(suite, define) \in Seq({"-I", define})
  BY OptionsOfASuite
<1>2. /\ ~Contains(SuiteOptions(suite, define), "-Wno-return-type")
      /\ ~Contains(SuiteOptions(suite, define), "-fsyntax-only")
  BY OptionsOfASuite
<1>3. {"-I", define} \cup {"-Wno-return-type"} = {"-I", define, "-Wno-return-type"}
  OBVIOUS
<1> QED BY <1>1, <1>2, <1>3, ContainsOfAppend DEF SharedOptions

\* The options that a tool adds to what the one before it has left.
LEMMA AddedOptions ==
    ASSUME NEW define \in {"-DOMITBAD", "-DOMITGOOD"}, tool \in 1 .. 3
    PROVE  ExtraOptsForTool(PassedOptions(AskedFor(define)), Tool) = OptionsOf(Tool, define)
<1> DEFINE passed == PassedOptions(AskedFor(define))
           shared == SharedOptions(define)
           own == SuiteOptions(suite, define)
<1>1. /\ Contains(shared, "-Wno-return-type") /\ ~Contains(shared, "-fsyntax-only")
      /\ ~Contains(own, "-Wno-return-type")
      /\ shared = Append(own, "-Wno-return-type")
  BY SharedOptionsContain DEF SharedOptions
<1>2. suite = "jm" => SuiteOptions(suite, "") = own
  BY DEF SuiteOptions
<1>3. Tools[1] = "clang" /\ Tools[2] = "smacpp" /\ Tools[3] = "frama"
  BY DEF Tools
<1>4. CASE tool = 1
  <2>1. passed = own /\ Tool = "clang"
    BY <1>2, <1>3, <1>4 DEF PassedOptions, AskedFor, Tool
  <2> QED BY <1>1, <2>1 DEF ExtraOptsForTool, Include, OptionsOf
<1>5. CASE tool = 2
  <2>3. AskedFor(define) = shared
    <3>1. tool - 1 = 1 /\ tool # 1
      BY <1>5
    <3> QED BY <1>3, <3>1 DEF AskedFor, OptionsOf
  <2>1. passed = (IF suite = "jm" THEN own ELSE shared) /\ Tool = "smacpp"
    BY <1>2, <1>3, <1>5, <2>3 DEF PassedOptions, Tool
  <2>2. Include(passed, "-Wno-return-type") = shared
    BY <1>1, <2>1 DEF Include
  <2> QED BY <1>1, <2>1, <2>2 DEF ExtraOptsForTool, Include, OptionsOf
<1>6. CASE tool = 3
  <2>3. AskedFor(define) = Append(shared, "-fsyntax-only")
    <3>1. tool - 1 = 2 /\ tool # 1
      BY <1>6
    <3> QED BY <1>3, <3>1 DEF AskedFor, OptionsOf
  <2>1. passed = OptionsOf("frama", define) /\ Tool = "frama"
    BY <1>2, <1>3, <1>6, <2>3 DEF PassedOptions, Tool, OptionsOf
  <2> QED BY <2>1 DEF ExtraOptsForTool
<1> QED BY <1>4, <1>5, <1>6
\* A run of a tool leaves its arguments as the options of the tool determine.
LEMMA RanAsAsked ==
    ASSUME BenchmarkInv, ArgumentsInv, phase = "running", Len(runs) < Len(Files),
           NEW run, run.File = File,
           \/ /\ Tool = "clang"
              /\ run.Arguments = <<"clang", "--analyze">> \o Options \o <<File>>
           \/ Tool = "smacpp" /\ Launched.Executes /\ run.Arguments = Launched.Arguments
           \/ /\ Tool = "smacpp" /\ ~Launched.Executes
              /\ run.Arguments = <<>> /\ run.Counts = NothingCounted
           \/ Tool = "frama" /\ run.Arguments = <<"frama-c">> \o Options \o <<File>>
    PROVE  RanAs(Tool, run)
<1>1. Options = OptionsOf(Tool, Macro(File))
  BY DEF ArgumentsInv, Options, Macro
<1>2. Tool = "smacpp" => Launched = LaunchedFor(File)
  BY <1>1 DEF Launched, LaunchedFor
<1> HIDE DEF NothingCounted
<1> QED BY <1>1, <1>2 DEF RanAs

\* A run is recorded with what it was made with.
LEMMA RunArguments ==
    ASSUME BenchmarkInv, ArgumentsInv, NEW arguments, NEW counts, Record(arguments, counts),
           Len(runs) < Len(Files), phase = "running",
           UNCHANGED <<system, suite, phase, tool, good, incorrect, results>>,
           RanAs(Tool, [File |-> File, Arguments |-> arguments, Counts |-> counts])
    PROVE  ArgumentsInv'
<1>1. PICK S : runs \in Seq(S)
  BY DEF BenchmarkInv
<1> DEFINE run == [File |-> File, Arguments |-> arguments, Counts |-> counts]
<1>2. runs' = Append(runs, run)
  BY DEF Record
<1>3. JudgedTools' = JudgedTools /\ Tool' = Tool
  BY DEF JudgedTools, Tool
<1>4. ASSUME NEW name, NEW other, RanAs(name, other) PROVE RanAs(name, other)'
  BY <1>4 DEF RanAs, OptionsOf, SharedOptions, LaunchedFor
<1> HIDE DEF run
<1>5. ASSUME NEW i \in DOMAIN runs' PROVE RanAs(Tool, runs'[i])
  <2>1. i \in 1 .. Len(runs) + 1
    BY <1>1, <1>2, AppendRun
  <2>2. CASE i \in 1 .. Len(runs)
    <3>1. runs'[i] = runs[i] /\ i \in DOMAIN runs
      BY <1>1, <1>2, <2>2, AppendRun
    <3> QED BY <3>1 DEF ArgumentsInv
  <2>3. CASE i = Len(runs) + 1
    <3>1. runs'[i] = run
      BY <1>1, <1>2, <2>3, AppendRun
    <3> QED BY <3>1 DEF run
  <2>4. Len(runs) \in Nat
    BY <1>1
  <2> QED BY <2>1, <2>2, <2>3, <2>4
<1>6. \A define : /\ AskedFor(define)' = AskedFor(define)
                  /\ OptionsOf(Tool, define)' = OptionsOf(Tool, define)
  BY <1>3 DEF AskedFor, OptionsOf, SharedOptions
<1> QED BY <1>3, <1>4, <1>5, <1>6 DEF ArgumentsInv

\* At first nothing has been run.
LEMMA InitArgumentsInv == Init => ArgumentsInv
<1> SUFFICES ASSUME Init PROVE ArgumentsInv
  OBVIOUS
<1>1. phase = "checking" /\ tool = 1 /\ DOMAIN runs = {} /\ DOMAIN results = {}
  BY DEF Init
<1>2. JudgedTools = {}
  BY <1>1 DEF JudgedTools
<1>3. good = AskedFor("-DOMITBAD") /\ incorrect = AskedFor("-DOMITGOOD")
  BY DEF Init, AskedFor
<1> QED BY <1>1, <1>2, <1>3 DEF ArgumentsInv

\* What has been run stays as it was.
LEMMA RunsStay ==
    ASSUME ArgumentsInv, UNCHANGED <<system, suite, tool, runs, results>>,
           JudgedTools' = JudgedTools
    PROVE  /\ (\A i \in DOMAIN runs : RanAs(Tool, runs[i]))'
           /\ (\A name \in JudgedTools : \A i \in DOMAIN results[name].raw :
                    RanAs(name, results[name].raw[i]))'
           /\ (DOMAIN results \subseteq JudgedTools \cup {"combined"})'
           /\ \A define : /\ AskedFor(define)' = AskedFor(define)
                          /\ OptionsOf(Tool, define)' = OptionsOf(Tool, define)
<1>1. ASSUME NEW name, NEW run, RanAs(name, run) PROVE RanAs(name, run)'
  BY <1>1 DEF RanAs, OptionsOf, SharedOptions, LaunchedFor
<1>2. Tool' = Tool
  BY DEF Tool
<1>3. \A define : /\ AskedFor(define)' = AskedFor(define)
                  /\ OptionsOf(Tool, define)' = OptionsOf(Tool, define)
  BY DEF AskedFor, OptionsOf, SharedOptions, Tool
<1> QED BY <1>1, <1>2, <1>3 DEF ArgumentsInv

\* The steps that add to the options or give up.
LEMMA PreparingArguments ==
    ASSUME BenchmarkInv, ArgumentsInv, CheckFiles \/ AddOptions \/ RaiseMissingProgram
    PROVE  ArgumentsInv'
<1>1. /\ UNCHANGED <<system, suite, tool, runs, results>>
      /\ phase \notin {"combining", "finished"} /\ phase' \notin {"combining", "finished"}
  BY DEF CheckFiles, AddOptions, RaiseMissingProgram, IsRunning
<1>2. JudgedTools' = JudgedTools
  BY <1>1 DEF JudgedTools
<1>3. Tool' = Tool
  BY <1>1 DEF Tool
<1>4. CASE CheckFiles
  <2>1. phase' # "running" /\ phase = "checking" /\ UNCHANGED <<good, incorrect>>
    BY <1>4 DEF CheckFiles
  <2> QED BY <1>1, <1>2, <2>1, RunsStay DEF ArgumentsInv
<1>5. CASE AddOptions
  <2>1. /\ phase = "options" /\ phase' = "running"
        /\ good' = ExtraOptsForTool(PassedOptions(good), Tool)
        /\ incorrect' = ExtraOptsForTool(PassedOptions(incorrect), Tool)
    BY <1>5 DEF AddOptions
  <2>2. good' = OptionsOf(Tool, "-DOMITBAD") /\ incorrect' = OptionsOf(Tool, "-DOMITGOOD")
    BY <2>1, AddedOptions DEF ArgumentsInv, BenchmarkInv
  <2> QED BY <1>1, <1>2, <2>1, <2>2, RunsStay DEF ArgumentsInv
<1>6. CASE RaiseMissingProgram
  <2>1. phase' = "raised"
    BY <1>6 DEF RaiseMissingProgram
  <2> QED BY <1>1, <1>2, <2>1, RunsStay DEF ArgumentsInv
<1> QED BY <1>4, <1>5, <1>6

\* The judgement of a tool hands its options on to the next one.
LEMMA StoredArguments ==
    ASSUME BenchmarkInv, ArgumentsInv, StoreResult
    PROVE  ArgumentsInv'
<1>1. ASSUME NEW name, NEW run, RanAs(name, run) PROVE RanAs(name, run)'
  <2>1. UNCHANGED <<system, suite>>
    BY DEF StoreResult
  <2> QED BY <1>1, <2>1 DEF RanAs, OptionsOf, SharedOptions, LaunchedFor
<1>2. /\ DOMAIN results' = DOMAIN results \cup {Tool}
      /\ results'[Tool].raw = runs
      /\ \A name \in DOMAIN results \ {Tool} : results'[name] = results[name]
  BY DEF StoreResult
<1>3. JudgedTools' = JudgedTools \cup {Tool}
  <2>1. tool \in 1 .. 3 /\ Len(Tools) = 3 /\ phase = "running"
    BY DEF BenchmarkInv, StoreResult, Tools
  <2>2. CASE tool < 3
    BY <2>1, <2>2 DEF StoreResult, JudgedTools, Tool
  <2>3. CASE tool = 3
    <3>1. ToSet(Tools) = {Tools[i] : i \in 1 .. 3}
      BY DEF ToSet, Tools
    <3>2. phase' = "combining" /\ tool' = 3
      BY <2>1, <2>3 DEF StoreResult
    <3> QED BY <2>1, <2>3, <3>1, <3>2 DEF JudgedTools, Tool
  <2> QED BY <2>1, <2>2, <2>3
<1>4. ASSUME NEW name \in JudgedTools', NEW i \in DOMAIN results'[name].raw
      PROVE  RanAs(name, results'[name].raw[i])
  <2>1. CASE name = Tool
    BY <1>2, <1>4, <2>1 DEF ArgumentsInv
  <2>2. CASE name # Tool
    <3>1. name \in JudgedTools /\ results'[name] = results[name]
      BY <1>2, <1>3, <1>4, <2>2 DEF BenchmarkInv
    <3> QED BY <1>4, <3>1 DEF ArgumentsInv
  <2> QED BY <2>1, <2>2
<1>5. (\A name \in JudgedTools : \A i \in DOMAIN results[name].raw :
            RanAs(name, results[name].raw[i]))'
  BY <1>1, <1>4
<1>6. DOMAIN runs' = {}
  BY DEF StoreResult
<1>7. phase' = "options" =>
            good' = AskedFor("-DOMITBAD")' /\ incorrect' = AskedFor("-DOMITGOOD")'
  <2> SUFFICES ASSUME phase' = "options"
               PROVE  good' = AskedFor("-DOMITBAD")' /\ incorrect' = AskedFor("-DOMITGOOD")'
    OBVIOUS
  <2>1. tool' = tool + 1 /\ tool' # 1 /\ tool' - 1 = tool /\ UNCHANGED <<suite, good, incorrect>>
    BY DEF StoreResult, BenchmarkInv
  <2>2. \A define : AskedFor(define)' = OptionsOf(Tool, define)
    BY <2>1 DEF AskedFor, OptionsOf, SharedOptions, Tool
  <2> QED BY <2>1, <2>2 DEF ArgumentsInv, StoreResult
<1>8. phase' \in {"options", "combining"} /\ phase' # "running" /\ phase' # "checking"
  BY DEF StoreResult
<1>9. (DOMAIN results \subseteq JudgedTools \cup {"combined"})'
  BY <1>2, <1>3 DEF ArgumentsInv
<1>10. (\A i \in DOMAIN runs : RanAs(Tool, runs[i]))'
  BY <1>6
<1> QED BY <1>5, <1>7, <1>8, <1>9, <1>10 DEF ArgumentsInv

\* The combined result leaves the runs of the tools as they are.
LEMMA CombinedArguments ==
    ASSUME BenchmarkInv, ArgumentsInv, CreateCombinedResults
    PROVE  ArgumentsInv'
<1>1. /\ UNCHANGED <<system, suite, tool, good, incorrect, runs>>
      /\ phase = "combining" /\ phase' = "finished"
      /\ DOMAIN results' = DOMAIN results \cup {"combined"}
      /\ \A name \in DOMAIN results \ {"combined"} : results'[name] = results[name]
  BY DEF CreateCombinedResults
<1>2. JudgedTools' = JudgedTools /\ "combined" \notin JudgedTools
  <2>1. ToSet(Tools) = {"clang", "smacpp", "frama"}
    BY DEF ToSet, Tools
  <2> QED BY <1>1, <2>1 DEF JudgedTools
<1>3. ASSUME NEW name, NEW run, RanAs(name, run) PROVE RanAs(name, run)'
  BY <1>1, <1>3 DEF RanAs, OptionsOf, SharedOptions, LaunchedFor
<1>4. Tool' = Tool
  BY <1>1 DEF Tool
<1>5. \A name \in JudgedTools : results'[name] = results[name]
  BY <1>1, <1>2 DEF BenchmarkInv
<1>6. (\A name \in JudgedTools : \A i \in DOMAIN results[name].raw :
            RanAs(name, results[name].raw[i]))'
  BY <1>2, <1>3, <1>5 DEF ArgumentsInv
<1>7. (\A i \in DOMAIN runs : RanAs(Tool, runs[i]))'
  BY <1>1, <1>3, <1>4 DEF ArgumentsInv
<1> QED BY <1>1, <1>2, <1>6, <1>7 DEF ArgumentsInv

\* At every step each run that has been made or judged has the arguments that the tool,
\* the suite, the system and the file determine, whatever was run before it, although
\* the lists of options are shared and grow (extra_opts_for_tool, run_test_cases_for_single_tool).
THEOREM ArgumentsInvariance == Spec => []ArgumentsInv
<1>1. BenchmarkInv /\ ArgumentsInv /\ [Next]_benchmarkVars => ArgumentsInv'
  <2> SUFFICES ASSUME BenchmarkInv, ArgumentsInv, [Next]_benchmarkVars PROVE ArgumentsInv'
    OBVIOUS
  <2>1. CASE CheckFiles \/ AddOptions \/ RaiseMissingProgram
    BY <2>1, PreparingArguments
  <2>2. CASE SingleClangRun
    <3> DEFINE arguments == <<"clang", "--analyze">> \o Options \o <<File>>
    <3>1. PICK report \in Reports : Record(arguments, Counted(report))
      BY <2>2 DEF SingleClangRun
    <3>2. RanAs(Tool, [File |-> File, Arguments |-> arguments, Counts |-> Counted(report)])
      BY <2>2, RanAsAsked DEF SingleClangRun, IsRunning
    <3> HIDE DEF arguments
    <3> QED BY <2>2, <3>1, <3>2, RunArguments DEF SingleClangRun, IsRunning
  <2>3. CASE SingleSmacppRun
    <3> DEFINE arguments == Launched.Arguments
    <3>1. PICK report \in Reports : Record(arguments, Counted(report))
      BY <2>3 DEF SingleSmacppRun
    <3>2. RanAs(Tool, [File |-> File, Arguments |-> arguments, Counts |-> Counted(report)])
      BY <2>3, RanAsAsked DEF SingleSmacppRun, IsRunning
    <3> HIDE DEF arguments
    <3> QED BY <2>3, <3>1, <3>2, RunArguments DEF SingleSmacppRun, IsRunning
  <2>4. CASE FailedSmacppRun
    <3> DEFINE arguments == <<>>
    <3>1. Record(arguments, NothingCounted)
      BY <2>4 DEF FailedSmacppRun
    <3>2. RanAs(Tool, [File |-> File, Arguments |-> arguments, Counts |-> NothingCounted])
      BY <2>4, RanAsAsked DEF FailedSmacppRun, IsRunning
    <3> HIDE DEF arguments
    <3> QED BY <2>4, <3>1, <3>2, RunArguments DEF FailedSmacppRun, IsRunning
  <2>5. CASE SingleFramaRun
    <3> DEFINE arguments == <<"frama-c">> \o Options \o <<File>>
    <3>1. PICK report \in Reports : Record(arguments, [error_count |-> report.Errors, warning_count |-> report.Warnings])
      BY <2>5 DEF SingleFramaRun
    <3>2. RanAs(Tool, [File |-> File, Arguments |-> arguments, Counts |-> [error_count |-> report.Errors, warning_count |-> report.Warnings]])
      BY <2>5, RanAsAsked DEF SingleFramaRun, IsRunning
    <3> HIDE DEF arguments
    <3> QED BY <2>5, <3>1, <3>2, RunArguments DEF SingleFramaRun, IsRunning
  <2>6. CASE StoreResult
    BY <2>6, StoredArguments
  <2>7. CASE CreateCombinedResults
    BY <2>7, CombinedArguments
  <2>8. CASE UNCHANGED benchmarkVars
    <3>1. /\ UNCHANGED <<system, suite, phase, tool, good, incorrect, runs, results>>
          /\ JudgedTools' = JudgedTools
      BY <2>8 DEF benchmarkVars, JudgedTools
    <3> QED BY <3>1, RunsStay DEF ArgumentsInv
  <2> QED BY <2>1, <2>2, <2>3, <2>4, <2>5, <2>6, <2>7, <2>8 DEF Next
<1> QED BY <1>1, InitArgumentsInv, BenchmarkInvariance, PTL DEF Spec

\* What the wrapper makes of the arguments that it is run with.
LEMMA NewArgsMeaning ==
    ASSUME NEW S, NEW options \in Seq(S), NEW file, NEW wrapper, NEW clangPath, NEW plugin
    PROVE  NewArgs(<<wrapper>> \o options \o <<file>>, clangPath, plugin)
                = <<clangPath, plugin>> \o options \o <<file, Null>>
<1> DEFINE T == S \cup {wrapper, file, clangPath, plugin, Null}
           rest == options \o <<file>>
           argv == <<wrapper>> \o rest
           renamed == [argv EXCEPT ![1] = clangPath]
<1>1. options \in Seq(T)
  BY SeqMonotonic
<1>2. <<wrapper>> \in Seq(T) /\ <<file>> \in Seq(T) /\ <<clangPath>> \in Seq(T)
        /\ <<plugin>> \in Seq(T) /\ <<Null>> \in Seq(T) /\ Null \in T
        /\ Len(<<wrapper>>) = 1 /\ Len(<<clangPath>>) = 1
        /\ clangPath \in T
  OBVIOUS
<1> HIDE DEF T
<1>3. <<wrapper>> \o options \o <<file>> = argv
  BY <1>1, <1>2, ConcatAssociative
<1>4. rest \in Seq(T) /\ Len(rest) \in Nat
  BY <1>1, <1>2, ConcatProperties, LenProperties
<1> HIDE DEF rest
<1>5. /\ argv \in Seq(T) /\ Len(argv) = 1 + Len(rest)
      /\ \A i \in 1 .. 1 + Len(rest) : argv[i] = IF i <= 1 THEN <<wrapper>>[i] ELSE rest[i - 1]
  BY <1>2, <1>4, ConcatProperties
<1>6. /\ <<clangPath>> \o rest \in Seq(T) /\ Len(<<clangPath>> \o rest) = 1 + Len(rest)
      /\ \A i \in 1 .. 1 + Len(rest) :
            (<<clangPath>> \o rest)[i] = IF i <= 1 THEN <<clangPath>>[i] ELSE rest[i - 1]
  BY <1>2, <1>4, ConcatProperties
<1> HIDE DEF argv
<1>7. renamed = <<clangPath>> \o rest
  <2>1. /\ renamed \in Seq(T) /\ Len(renamed) = Len(argv)
        /\ \A i \in 1 .. Len(argv) : renamed[i] = IF i = 1 THEN clangPath ELSE argv[i]
    <3>1. 1 \in 1 .. Len(argv)
      BY <1>4, <1>5
    <3> QED BY <1>2, <1>5, <3>1, ExceptSeq
  <2> HIDE DEF renamed
  <2>2. ASSUME NEW i \in 1 .. Len(renamed) PROVE renamed[i] = (<<clangPath>> \o rest)[i]
    <3>1. i \in 1 .. 1 + Len(rest) /\ i \in 1 .. Len(argv)
      BY <1>5, <2>1, <2>2
    <3>2. CASE i = 1
      BY <1>6, <2>1, <3>1, <3>2
    <3>3. CASE i # 1
      <4>1. ~(i <= 1)
        BY <1>4, <3>1, <3>3
      <4> QED BY <1>5, <1>6, <2>1, <3>1, <3>3, <4>1
    <3> QED BY <3>2, <3>3
  <2> QED BY <1>5, <1>6, <2>1, <2>2, SeqEqual
<1>8. /\ SubSeq(<<clangPath>> \o rest, 1, 1) = <<clangPath>>
      /\ SubSeq(<<clangPath>> \o rest, 2, 1 + Len(rest)) = rest
  BY <1>2, <1>4, SplitOne
<1>9. InsertAt(renamed, 2, plugin) = <<clangPath>> \o <<plugin>> \o rest
  <2>1. 2 - 1 = 1
    OBVIOUS
  <2>2. Len(renamed) = 1 + Len(rest)
    BY <1>6, <1>7
  <2> HIDE DEF renamed
  <2> QED BY <1>7, <1>8, <2>1, <2>2 DEF InsertAt
<1>10. <<clangPath>> \o <<plugin>> = <<clangPath, plugin>> /\ <<file>> \o <<Null>> = <<file, Null>>
  BY PairConcat
<1>11. <<clangPath, plugin>> \in Seq(T) /\ <<file, Null>> \in Seq(T)
  BY DEF T
<1>12. Append(<<clangPath, plugin>> \o rest, Null) = <<clangPath, plugin>> \o rest \o <<Null>>
  <2>1. <<clangPath, plugin>> \o rest \in Seq(T)
    BY <1>4, <1>11, ConcatProperties
  <2> HIDE DEF rest
  <2> QED BY <1>2, <2>1, AppendIsConcat
<1>13. (<<clangPath, plugin>> \o rest) \o <<Null>> = <<clangPath, plugin>> \o (rest \o <<Null>>)
  BY <1>2, <1>4, <1>11, ConcatAssociative
<1>14. rest \o <<Null>> = options \o <<file, Null>>
  BY <1>1, <1>2, <1>10, ConcatAssociative DEF rest
<1>15. <<clangPath, plugin>> \o options \o <<file, Null>> = <<clangPath, plugin>> \o (options \o <<file, Null>>)
  BY <1>1, <1>11, ConcatAssociative
<1> QED BY <1>3, <1>9, <1>10, <1>12, <1>13, <1>14, <1>15 DEF NewArgs

\* What the wrapper finds, and whether it starts a compiler.
Compiler == ClangExecutable(SMACPP_PATH)
Plugin == FindSMACPPClangPlugin(system, SMACPP_PATH)
Launches ==
    /\ ~(Compiler \notin system.Executables \/ Plugin = NotFound)
    /\ system.CanExecute

\* The options that occur, as what the sequences are made of.
AllOptions == {"-I", "-DOMITBAD", "-DOMITGOOD", "-Wno-return-type", "-fsyntax-only"}
LEMMA OptionsAreSequences ==
    ASSUME NEW name, NEW define \in {"-DOMITBAD", "-DOMITGOOD"}
    PROVE  /\ SuiteOptions(suite, define) \in Seq(AllOptions)
           /\ SharedOptions(define) \in Seq(AllOptions)
           /\ OptionsOf(name, define) \in Seq(AllOptions)
<1>1. /\ {"-I", define} \subseteq AllOptions
      /\ "-Wno-return-type" \in AllOptions /\ "-fsyntax-only" \in AllOptions
  BY DEF AllOptions
<1>2. SuiteOptions(suite, define) \in Seq(AllOptions)
  <2>1. SuiteOptions(suite, define) \in Seq({"-I", define})
    BY OptionsOfASuite
  <2> QED BY <1>1, <2>1, SeqMonotonic
<1>3. SharedOptions(define) \in Seq(AllOptions)
  BY <1>1, <1>2 DEF SharedOptions
<1> QED BY <1>1, <1>2, <1>3 DEF OptionsOf

\* Whether the wrapper starts a compiler depends on the system alone, and the
\* compiler has the arguments of the wrapper behind the plugin.
LEMMA LaunchedMeaning ==
    ASSUME NEW file
    PROVE  /\ LaunchedFor(file).Executes <=> Launches
           /\ Launches =>
                LaunchedFor(file).Arguments
                    = <<Compiler, Plugin>> \o OptionsOf("smacpp", Macro(file)) \o <<file, Null>>
<1> DEFINE options == OptionsOf("smacpp", Macro(file))
           argv == <<SMACPP_PATH>> \o options \o <<file>>
           T == AllOptions \cup {SMACPP_PATH, file}
<1>1. options \in Seq(AllOptions)
  BY OptionsAreSequences DEF Macro
<1> HIDE DEF options
<1>2. argv # <<>> /\ argv[1] = SMACPP_PATH
  <2>1. /\ options \in Seq(T) /\ <<SMACPP_PATH>> \in Seq(T) /\ <<file>> \in Seq(T)
        /\ Len(<<SMACPP_PATH>>) = 1 /\ <<SMACPP_PATH>>[1] = SMACPP_PATH
    BY <1>1, SeqMonotonic
  <2> HIDE DEF T
  <2>2. /\ <<SMACPP_PATH>> \o options \in Seq(T)
        /\ Len(<<SMACPP_PATH>> \o options) \in Nat
        /\ Len(<<SMACPP_PATH>> \o options) >= 1
        /\ (<<SMACPP_PATH>> \o options)[1] = SMACPP_PATH
    <3>1. Len(options) \in Nat
      BY <2>1, LenProperties
    <3> QED BY <2>1, <3>1, ConcatProperties
  <2> DEFINE first == <<SMACPP_PATH>> \o options
  <2> HIDE DEF first
  <2>3. Len(first \o <<file>>) = Len(first) + Len(<<file>>) /\ (first \o <<file>>)[1] = first[1]
        /\ Len(<<file>>) = 1
    BY <2>1, <2>2, ConcatProperties DEF first
  <2>4. Len(<<>>) = 0
    OBVIOUS
  <2> QED BY <2>2, <2>3, <2>4 DEF first
<1>3. NewArgs(argv, Compiler, Plugin) = <<Compiler, Plugin>> \o options \o <<file, Null>>
  <2>1. \A wrapper, clangPath, plugin :
            NewArgs(<<wrapper>> \o options \o <<file>>, clangPath, plugin)
                = <<clangPath, plugin>> \o options \o <<file, Null>>
    BY <1>1, NewArgsMeaning
  <2> QED BY <2>1
<1> HIDE DEF argv
<1>4. LaunchedFor(file) =
            IF Compiler \notin system.Executables \/ Plugin = NotFound THEN Exits(2)
            ELSE IF system.CanExecute THEN Executes(NewArgs(argv, Compiler, Plugin))
            ELSE Exits(-1)
  BY <1>2 DEF LaunchedFor, main, Compiler, Plugin, argv, options
<1> QED BY <1>3, <1>4 DEF Launches, Exits, Executes, options

\* A run that has been judged was made as the options of the tool determine, on a
\* file of the case.
LEMMA JudgedRuns ==
    ASSUME BenchmarkInv, ArgumentsInv, NEW name \in ToSet(Tools), NEW run \in RunsOf(name)
    PROVE  RanAs(name, run) /\ run.File \in ToSet(Files)
<1>1. ToSet(Tools) = {"clang", "smacpp", "frama"}
  BY DEF ToSet, Tools
<1>2. name \in DOMAIN results /\ run \in ToSet(results[name].raw)
  BY DEF RunsOf
<1>3. name \in JudgedTools
  BY <1>1, <1>2 DEF ArgumentsInv
<1>4. PICK i \in DOMAIN results[name].raw : run = results[name].raw[i]
  BY <1>2 DEF ToSet
<1>5. DOMAIN results[name].raw = DOMAIN Files /\ InOrder(results[name].raw, Files)
  BY <1>3 DEF BenchmarkInv, Judged
<1>6. run.File = Files[i] /\ i \in DOMAIN Files
  BY <1>4, <1>5 DEF InOrder
<1> QED BY <1>3, <1>4, <1>6 DEF ArgumentsInv, ToSet

\* What stands before the options in the runs of a tool.
Command(name) ==
    IF name = "clang" THEN <<"clang", "--analyze">>
    ELSE IF name = "frama" THEN <<"frama-c">>
    ELSE <<Compiler, Plugin>>

\* The arguments of a run, as the property takes them apart.
LEMMA PartsOfRun ==
    ASSUME NEW name \in ToSet(Tools), NEW run, RanAs(name, run)
    PROVE  IF name = "smacpp" /\ ~Launches THEN run.Arguments = <<>>
           ELSE /\ run.Arguments # <<>>
                /\ CommandOf(name, run) = Command(name)
                /\ OptionsIn(name, run) = OptionsOf(name, Macro(run.File))
<1> DEFINE options == OptionsOf(name, Macro(run.File))
           front == Command(name)
           back == IF name = "smacpp" THEN <<run.File, Null>> ELSE <<run.File>>
           T == AllOptions \cup {Compiler, Plugin, Null, run.File, "clang", "--analyze", "frama-c"}
           end == CommandLength(name)
<1>1. name \in {"clang", "smacpp", "frama"}
  BY DEF ToSet, Tools
<1>2. CASE name = "smacpp" /\ ~Launches
  BY <1>2, LaunchedMeaning DEF RanAs
<1>3. CASE ~(name = "smacpp" /\ ~Launches)
  <2>1. run.Arguments = Joined(front, options, back)
    <3>1. CASE name = "clang"
      BY <3>1 DEF RanAs, Joined, Command
    <3>2. CASE name = "frama"
      BY <3>2 DEF RanAs, Joined, Command
    <3>3. CASE name = "smacpp"
      <4>1. run.Arguments = <<Compiler, Plugin>> \o options \o <<run.File, Null>>
        BY <1>3, <3>3, LaunchedMeaning DEF RanAs
      <4> QED BY <3>3, <4>1 DEF Joined, Command
    <3> QED BY <1>1, <3>1, <3>2, <3>3
  <2>2. options \in Seq(T)
    <3>1. Macro(run.File) \in {"-DOMITBAD", "-DOMITGOOD"}
      BY DEF Macro
    <3>2. options \in Seq(AllOptions)
      BY <3>1, OptionsAreSequences
    <3> HIDE DEF options
    <3> QED BY <3>2, SeqMonotonic
  <2>3. front \in Seq(T) /\ end = Len(front)
    <3>1. CASE name = "clang"
      BY <3>1 DEF Command, CommandLength
    <3>2. CASE name = "frama"
      BY <3>2 DEF Command, CommandLength
    <3>3. CASE name = "smacpp"
      BY <3>3 DEF Command, CommandLength
    <3> QED BY <1>1, <3>1, <3>2, <3>3
  <2>4. back \in Seq(T) /\ Len(back) = IF name = "smacpp" THEN 2 ELSE 1
    <3>1. CASE name = "smacpp"
      BY <3>1
    <3>2. CASE name # "smacpp"
      BY <3>2
    <3> QED BY <3>1, <3>2
  <2>5. end \in Nat /\ end > 0
    BY DEF CommandLength
  <2> DEFINE joined == Joined(front, options, back)
             last == Len(joined) - (IF name = "smacpp" THEN 2 ELSE 1)
  <2> HIDE DEF options, front, back, T, end
  <2>6. /\ Len(joined) = Len(front) + Len(options) + Len(back)
        /\ SubSeq(joined, 1, end) = front
        /\ Between(joined, front, back) = options
    <3>1. Len(Joined(front, options, back)) = Len(front) + Len(options) + Len(back)
      <4>1. front \in Seq(T) /\ options \in Seq(T) /\ back \in Seq(T)
        BY <2>2, <2>3, <2>4
      <4> QED BY ONLY <4>1, LengthOfJoined
    <3>2. SubSeq(Joined(front, options, back), 1, end) = front
      BY <2>2, <2>3, <2>4, StartOfJoined
    <3>3. Between(Joined(front, options, back), front, back) = options
      BY <2>2, <2>3, <2>4, MiddleOfJoined
    <3> QED BY <3>1, <3>2, <3>3
  <2> HIDE DEF joined
  <2>7. SubSeq(joined, end + 1, last) = options
    <3>1. end + 1 = Len(front) + 1 /\ last = Len(joined) - Len(back)
      BY <2>3, <2>4
    <3> HIDE DEF last
    <3> QED BY <2>6, <3>1 DEF Between
  <2>8. joined # <<>>
    <3>1. Len(<<>>) = 0 /\ Len(options) \in Nat /\ Len(back) \in Nat
      BY <2>2, <2>4, LenProperties
    <3> QED BY <2>3, <2>5, <2>6, <3>1
  <2>9. run.Arguments = joined
    BY <2>1 DEF joined
  <2> QED BY <1>3, <2>6, <2>7, <2>8, <2>9 DEF CommandOf, OptionsIn, front, end, last, options
<1> QED BY <1>2, <1>3

\* The options of a tool are those of the case and those that reach it.
LEMMA OptionsReach ==
    ASSUME NEW name \in ToSet(Tools), NEW define \in {"-DOMITBAD", "-DOMITGOOD"}
    PROVE  OptionsOf(name, define) = SuiteOptions(suite, define) \o OptionsThatReach(name)
<1> DEFINE own == SuiteOptions(suite, define)
           quiet == "-Wno-return-type"
           only == "-fsyntax-only"
<1>1. name \in {"clang", "smacpp", "frama"}
  BY DEF ToSet, Tools
<1>2. own \in Seq(AllOptions) /\ quiet \in AllOptions /\ only \in AllOptions
  BY OptionsAreSequences DEF AllOptions
<1>3. SharedOptions(define) = Append(own, quiet)
  BY DEF SharedOptions
<1> HIDE DEF own, quiet, only
<1>4. Append(own, quiet) = own \o <<quiet>>
  BY <1>2, AppendIsConcat
<1>5. Append(Append(own, quiet), only) = own \o <<quiet, only>>
  <2>1. Append(own, quiet) \in Seq(AllOptions) /\ <<quiet>> \in Seq(AllOptions)
        /\ <<only>> \in Seq(AllOptions)
    BY <1>2
  <2>2. Append(Append(own, quiet), only) = Append(own, quiet) \o <<only>>
    BY <1>2, <2>1, AppendIsConcat
  <2>3. (own \o <<quiet>>) \o <<only>> = own \o (<<quiet>> \o <<only>>)
    BY <1>2, <2>1, ConcatAssociative
  <2>4. <<quiet>> \o <<only>> = <<quiet, only>>
    BY PairConcat
  <2> QED BY <1>4, <2>2, <2>3, <2>4
<1>6. own \o <<>> = own
  BY <1>2
<1>7. CASE name = "clang"
  BY <1>3, <1>4, <1>7 DEF OptionsOf, OptionsThatReach, own, quiet
<1>8. CASE name = "smacpp"
  BY <1>3, <1>5, <1>8 DEF OptionsOf, OptionsThatReach, own, quiet, only
<1>9. CASE name = "frama" /\ suite # "jm"
  BY <1>3, <1>5, <1>9 DEF OptionsOf, OptionsThatReach, own, quiet, only
<1>10. CASE name = "frama" /\ suite = "jm"
  BY <1>6, <1>10 DEF OptionsOf, OptionsThatReach, own
<1> QED BY <1>1, <1>7, <1>8, <1>9, <1>10

\* Whatever is installed, each tool is judged by runs of one command, and is given the
\* options of the case for the file, with its macro, and then exactly those of the
\* tools before it that reach it through the lists they share: none of smacpp's for
\* clang, and for frama both in "juliet" and none in "jm" (extra_opts_for_tool,
\* run_test_cases, run_test_cases_defines, single_frama_run).
THEOREM RunsAreAlike == Spec => []ComparesLikeRuns
<1>1. BenchmarkInv /\ ArgumentsInv => ComparesLikeRuns
  <2> SUFFICES ASSUME BenchmarkInv, ArgumentsInv, NEW name \in ToSet(Tools),
                      NEW run \in RunsOf(name), NEW other \in RunsOf(name)
               PROVE  /\ run.Arguments = <<>> <=> other.Arguments = <<>>
                      /\ run.Arguments # <<>> =>
                            /\ CommandOf(name, run) = CommandOf(name, other)
                            /\ OptionsIn(name, run) =
                                    SuiteOptions(suite, Macro(run.File))
                                        \o OptionsThatReach(name)
    BY DEF ComparesLikeRuns, Macro
  <2>1. RanAs(name, run) /\ RanAs(name, other)
    BY JudgedRuns
  <2>2. /\ run.Arguments = <<>> <=> other.Arguments = <<>>
        /\ run.Arguments # <<>> =>
                /\ CommandOf(name, run) = CommandOf(name, other)
                /\ OptionsIn(name, run) = OptionsOf(name, Macro(run.File))
    BY <2>1, PartsOfRun
  <2>3. Macro(run.File) \in {"-DOMITBAD", "-DOMITGOOD"}
    BY DEF Macro
  <2>4. OptionsOf(name, Macro(run.File)) =
            SuiteOptions(suite, Macro(run.File)) \o OptionsThatReach(name)
    BY <2>3, OptionsReach
  <2> QED BY <2>2, <2>4
<1> QED BY <1>1, BenchmarkInvariance, ArgumentsInvariance, PTL

----------------------------------------------------------------------------

\* A wrapper that cannot start a compiler has no argument to show for it.
LEMMA UnlaunchedMeaning ==
    ASSUME NEW run, RanAs("smacpp", run)
    PROVE  IF Launches THEN run.Arguments # <<>>
           ELSE run.Arguments = <<>> /\ run.Counts = NothingCounted
<1>1. CASE Launches
  <2>1. "smacpp" \in ToSet(Tools)
    BY DEF ToSet, Tools
  <2> QED BY <1>1, <2>1, PartsOfRun
<1>2. CASE ~Launches
  BY <1>2, LaunchedMeaning DEF RanAs
<1> QED BY <1>1, <1>2

\* A wrapper that starts no compiler, which the script does not notice, is judged to
\* have missed the error, and leaves the combined result to clang (single_smacpp_run,
\* check_result, create_combined_results).
THEOREM UnlaunchedIsNoSuccess == Spec => []UnlaunchedFindsNothing
<1>1. BenchmarkInv /\ ArgumentsInv => UnlaunchedFindsNothing
  <2> SUFFICES ASSUME BenchmarkInv, ArgumentsInv, "smacpp" \in DOMAIN results,
                      NEW silent \in RunsOf("smacpp"), silent.Arguments = <<>>
               PROVE  /\ results["smacpp"].result = Result(FALSE, "false negative")
                      /\ phase = "finished" =>
                            (results["combined"].result.success
                                <=> results["clang"].result.success)
    BY DEF UnlaunchedFindsNothing
  <2> DEFINE correct == {run \in RunsOf("smacpp") : run.File \notin Incorrect}
             bad == {run \in RunsOf("smacpp") : run.File \in Incorrect}
  <2>1. ToSet(Tools) = {"clang", "smacpp", "frama"}
    BY DEF ToSet, Tools
  <2>2. ~Launches
    BY <2>1, JudgedRuns, UnlaunchedMeaning
  <2>3. \A run \in RunsOf("smacpp") : ~WarningsOrErrors(run)
    <3> SUFFICES ASSUME NEW run \in RunsOf("smacpp") PROVE ~WarningsOrErrors(run)
      OBVIOUS
    <3>1. run.Counts = NothingCounted
      BY <2>1, <2>2, JudgedRuns, UnlaunchedMeaning
    <3> QED BY <3>1 DEF WarningsOrErrors, NothingCounted
  <2>4. "smacpp" \in JudgedTools /\ Judged("smacpp")
    BY <2>1 DEF ArgumentsInv, BenchmarkInv
  <2>5. bad # {}
    <3> DEFINE raw == results["smacpp"].raw
    <3>1. DOMAIN raw = DOMAIN Files /\ InOrder(raw, Files)
      BY <2>4 DEF Judged
    <3>2. RunsOf("smacpp") = ToSet(raw)
      BY DEF RunsOf
    <3> HIDE DEF raw
    <3>3. PICK i \in DOMAIN raw : raw[i].File \in Incorrect
      BY <3>1, OneIncorrect
    <3> QED BY <3>2, <3>3 DEF ToSet
  <2>6. results["smacpp"].result = CheckResult(correct, bad)
    BY <2>4 DEF Judged, RunsOf
  <2>7. CheckResult(correct, bad) = Result(FALSE, "false negative")
    <3>1. /\ \A run \in correct : ~WarningsOrErrors(run)
          /\ \A run \in bad : ~WarningsOrErrors(run)
      BY <2>3
    <3> HIDE DEF correct, bad
    <3> QED BY <2>5, <3>1 DEF CheckResult, WarningsOrErrors
  <2>8. ASSUME phase = "finished"
        PROVE  results["combined"].result.success <=> results["clang"].result.success
    <3> DEFINE smacpp == results["smacpp"].result
               clang == results["clang"].result
    <3>1. results["combined"].result = Combined(smacpp, clang)
      BY <2>8 DEF BenchmarkInv
    <3>2. ~smacpp.success /\ smacpp.failure_type # "false positive"
      <4>1. smacpp = Result(FALSE, "false negative")
        BY <2>6, <2>7
      <4> HIDE DEF smacpp
      <4> QED BY <4>1 DEF Result
    <3> HIDE DEF smacpp, clang
    <3>3. results["combined"].result.success <=> clang.success
      BY <3>1, <3>2, CombinedMeaning
    <3> QED BY <3>3 DEF clang
  <2> QED BY <2>6, <2>7, <2>8
<1> QED BY <1>1, BenchmarkInvariance, ArgumentsInvariance, PTL

\* A wrapper that finds a plugin finds the first one there is.
LEMMA PluginFound ==
    ASSUME Plugin # NotFound
    PROVE  /\ Plugin \in system.Plugins
           /\ ParentPath[SMACPP_PATH] \in system.Plugins => Plugin = ParentPath[SMACPP_PATH]
<1> DEFINE places == <<ParentPath[SMACPP_PATH]>> \o SearchPaths
           found == {i \in DOMAIN places : places[i] \in system.Plugins}
<1>1. DOMAIN places = 1 .. 5 /\ places[1] = ParentPath[SMACPP_PATH]
  <2> DEFINE T == {ParentPath[SMACPP_PATH]} \cup
                    {"/usr/bin", "/usr/local/bin", "/usr/lib64", "/usr/lib"}
             own == <<ParentPath[SMACPP_PATH]>>
  <2>1. /\ own \in Seq(T) /\ SearchPaths \in Seq(T)
        /\ Len(own) = 1 /\ Len(SearchPaths) = 4
        /\ own[1] = ParentPath[SMACPP_PATH]
    BY DEF SearchPaths
  <2> HIDE DEF T, own
  <2>2. /\ own \o SearchPaths \in Seq(T)
        /\ Len(own \o SearchPaths) = Len(own) + Len(SearchPaths)
        /\ \A i \in 1 .. Len(own) + Len(SearchPaths) :
                (own \o SearchPaths)[i] = IF i <= Len(own) THEN own[i]
                                          ELSE SearchPaths[i - Len(own)]
    BY <2>1, ConcatProperties
  <2>3. DOMAIN (own \o SearchPaths) = 1 .. 5 /\ (own \o SearchPaths)[1] = own[1]
    BY <2>1, <2>2, LenProperties
  <2> QED BY <2>1, <2>3 DEF own
<1>2. Plugin = IF found = {} THEN NotFound ELSE places[Min(found)]
  BY DEF Plugin, FindSMACPPClangPlugin
<1> HIDE DEF places
<1>3. found # {} /\ found \subseteq 1 .. 5
  BY <1>1, <1>2
<1> HIDE DEF found
<1>4. Min(found) \in found /\ \A j \in found : Min(found) <= j
  <2>1. \E i \in found : \A j \in found : i <= j
    BY <1>3, LeastNumber
  <2> QED BY <2>1 DEF Min
<1>5. Plugin \in system.Plugins
  BY <1>2, <1>3, <1>4 DEF found
<1>6. ASSUME ParentPath[SMACPP_PATH] \in system.Plugins PROVE Plugin = ParentPath[SMACPP_PATH]
  <2>1. 1 \in found
    BY <1>1, <1>6 DEF found
  <2>2. Min(found) = 1
    <3> DEFINE least == Min(found)
    <3>1. least \in 1 .. 5 /\ least <= 1
      BY <1>3, <1>4, <2>1
    <3> HIDE DEF least
    <3>2. least = 1
      BY <3>1
    <3> QED BY <3>2 DEF least
  <2> QED BY <1>1, <1>2, <1>3, <2>2
<1> QED BY <1>5, <1>6

\* What a run of smacpp has in common with the run of clang on the same file.
LEMMA PluginFirst ==
    ASSUME NEW run, RanAs("smacpp", run), run.Arguments # <<>>,
           NEW plain, RanAs("clang", plain), run.File = plain.File
    PROVE  /\ run.Arguments[2] = Plugin /\ Plugin # NotFound
           /\ \E i \in DOMAIN run.Arguments :
                /\ run.Arguments[i] = "-fsyntax-only"
                /\ RemoveAt(run.Arguments, i) =
                        <<run.Arguments[1], run.Arguments[2]>>
                            \o SubSeq(plain.Arguments, 3, Len(plain.Arguments)) \o <<Null>>
<1> DEFINE file == run.File
           shared == SharedOptions(Macro(file))
           T == AllOptions \cup {Compiler, Plugin, Null, file, "clang", "--analyze"}
           front == <<Compiler, Plugin>>
           plainFront == <<"clang", "--analyze">>
           last == <<file>>
           end == <<Null>>
           middle == Append(shared, "-fsyntax-only")
<1>1. Macro(file) \in {"-DOMITBAD", "-DOMITGOOD"}
  BY DEF Macro
<1>2. /\ OptionsOf("clang", Macro(file)) = shared
      /\ OptionsOf("smacpp", Macro(file)) = middle
  BY DEF OptionsOf
<1>3. Launches
  BY UnlaunchedMeaning
<1>4. run.Arguments = Joined(front, middle, last \o end)
  <2>1. run.Arguments = <<Compiler, Plugin>> \o OptionsOf("smacpp", Macro(file)) \o <<file, Null>>
    BY <1>3, LaunchedMeaning DEF RanAs
  <2>2. last \o end = <<file, Null>>
    BY PairConcat
  <2> QED BY <1>2, <2>1, <2>2 DEF Joined
<1>5. plain.Arguments = Joined(plainFront, shared, last)
  BY <1>2 DEF RanAs, Joined
<1>6. shared \in Seq(T) /\ "-fsyntax-only" \in T
  <2>1. shared \in Seq(AllOptions)
    BY <1>1, OptionsAreSequences
  <2> HIDE DEF shared
  <2>2. shared \in Seq(T)
    BY <2>1, SeqMonotonic
  <2> QED BY <2>2 DEF AllOptions
<1>7. /\ front \in Seq(T) /\ plainFront \in Seq(T) /\ last \in Seq(T) /\ end \in Seq(T)
  OBVIOUS
<1>11. /\ Len(front) = 2 /\ Len(plainFront) = 2
       /\ front[1] = Compiler /\ front[2] = Plugin
  OBVIOUS
<1>8. middle \in Seq(T) /\ last \o end \in Seq(T)
  <2> HIDE DEF T, shared, last, end
  <2> QED BY <1>6, <1>7, ConcatProperties
<1>9. run.Arguments[1] = Compiler /\ run.Arguments[2] = Plugin
  <2> DEFINE back == last \o end
  <2> HIDE DEF T, front, middle
  <2>1. back \in Seq(T)
    BY <1>8
  <2> HIDE DEF back
  <2>2. Joined(front, middle, back)[1] = front[1] /\ Joined(front, middle, back)[2] = front[2]
    BY <1>7, <1>8, <1>11, <2>1, FrontOfJoined
  <2> QED BY <1>4, <1>11, <2>2 DEF back
<1>10. \E i \in DOMAIN run.Arguments :
            /\ run.Arguments[i] = "-fsyntax-only"
            /\ RemoveAt(run.Arguments, i) =
                    front \o SubSeq(plain.Arguments, 3, Len(plain.Arguments)) \o end
  <2> HIDE DEF T, front, plainFront, shared, last, end
  <2> DEFINE arguments == run.Arguments
             other == plain.Arguments
             option == "-fsyntax-only"
  <2>1. option \in T
    BY <1>6
  <2>4. /\ arguments = Joined(front, Append(shared, option), last \o end)
        /\ other = Joined(plainFront, shared, last)
    BY <1>4, <1>5
  <2> HIDE DEF arguments, other, option
  <2>5. HasOneMore(Joined(front, Append(shared, option), last \o end), option,
                   Joined(front, Behind(Joined(plainFront, shared, last), Len(plainFront) + 1),
                          end))
    BY <1>6, <1>7, <2>1, SameBetween
  <2>2. \E i \in DOMAIN arguments :
                /\ arguments[i] = option
                /\ RemoveAt(arguments, i) =
                        Joined(front, Behind(other, Len(plainFront) + 1), end)
    BY <2>4, <2>5 DEF HasOneMore
  <2>3. Behind(other, Len(plainFront) + 1) = SubSeq(other, 3, Len(other))
    <3>1. Len(plainFront) + 1 = 3
      BY <1>11
    <3> QED BY <3>1 DEF Behind
  <2> QED BY <2>2, <2>3 DEF arguments, other, option, Joined
<1> QED BY <1>3, <1>9, <1>10 DEF Launches

\* The compiler that the wrapper executes has the plugin before every other
\* argument, its own one when there is one, and then what clang was given for the
\* same file (main, FindSMACPPClangPlugin, single_smacpp_run, single_clang_run).
THEOREM PluginIsLoadedFirst == Spec => []LoadsPluginFirst
<1>1. BenchmarkInv /\ ArgumentsInv => LoadsPluginFirst
  <2> SUFFICES ASSUME BenchmarkInv, ArgumentsInv,
                      NEW run \in RunsOf("smacpp"), NEW plain \in RunsOf("clang"),
                      run.Arguments # <<>>, run.File = plain.File
               PROVE  /\ run.Arguments[2] \in system.Plugins
                      /\ ParentPath[SMACPP_PATH] \in system.Plugins =>
                            run.Arguments[2] = ParentPath[SMACPP_PATH]
                      /\ \E i \in DOMAIN run.Arguments :
                            /\ run.Arguments[i] = "-fsyntax-only"
                            /\ RemoveAt(run.Arguments, i) =
                                    <<run.Arguments[1], run.Arguments[2]>>
                                        \o SubSeq(plain.Arguments, 3, Len(plain.Arguments))
                                        \o <<Null>>
    BY DEF LoadsPluginFirst
  <2>1. "smacpp" \in ToSet(Tools) /\ "clang" \in ToSet(Tools)
    BY DEF ToSet, Tools
  <2>2. RanAs("smacpp", run) /\ RanAs("clang", plain)
    BY <2>1, JudgedRuns
  <2> QED BY <2>2, PluginFirst, PluginFound
<1> QED BY <1>1, BenchmarkInvariance, ArgumentsInvariance, PTL
=============================================================================
