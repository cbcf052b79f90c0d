---------------------------- MODULE MCBenchmark ----------------------------
(***************************************************************************)
(* Systems with and without a compiler, Frama-C and the plugin, and three  *)
(* things a compiler can say.                                              *)
(***************************************************************************)
EXTENDS Benchmark

MCParentPath == [name \in {"build/src/smacpp"} |-> "build/src"]

Wrapper == "build/src/smacpp"
\* The plugin is where the wrapper was built, installed, or both.
MCSystems ==
    [Executables : {{Wrapper, "clang", "frama-c"}},
     Plugins : {{}, {"build/src"}, {"/usr/lib", "build/src"}, {"/usr/local/bin", "/usr/lib"}},
     CanExecute : {TRUE}, HasFiles : {TRUE}]
    \cup [Executables : {{Wrapper, "clang", "frama-c"}}, Plugins : {{"/usr/bin"}},
          CanExecute : {FALSE}, HasFiles : BOOLEAN]
    \cup [Executables : SUBSET {Wrapper, "clang", "frama-c"}, Plugins : {{"/usr/bin"}},
          CanExecute : {TRUE}, HasFiles : {TRUE}]

MCReports ==
    {[Errors |-> 0, Warnings |-> 0], [Errors |-> 0, Warnings |-> 1],
     [Errors |-> 1, Warnings |-> 2]}
=============================================================================
