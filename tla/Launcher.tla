------------------------------ MODULE Launcher ------------------------------
(***************************************************************************)
(* The compiler wrapper (main.cpp): where it finds the plugin              *)
(* (integration/SMACPPFinder.cpp), and what it executes.                   *)
(*                                                                         *)
(* A system is what the wrapper meets: Executables are the programs in     *)
(* PATH, Plugins the directories that hold the plugin, and CanExecute says *)
(* whether execv succeeds.                                                 *)
(***************************************************************************)
EXTENDS Integers, Sequences, SequencesExt

CONSTANTS
    ParentPath,     \* the directory in each name that the wrapper goes by
    WithPlus        \* those of the names with a plus anywhere in them

Null == "nullptr"
NotFound == "not found"

\* Beside the executable, else where it may be installed, the first one of these.
SearchPaths == <<"/usr/bin", "/usr/local/bin", "/usr/lib64", "/usr/lib">>
FindSMACPPClangPlugin(system, currentExecutable) ==
    LET places == <<ParentPath[currentExecutable]>> \o SearchPaths
        found == {i \in DOMAIN places : places[i] \in system.Plugins}
    IN IF found = {} THEN NotFound ELSE places[Min(found)]

\* find_last_of finds any of the characters it is given.
ClangExecutable(executable) == IF executable \in WithPlus THEN "clang++" ELSE "clang"

Exits(status) == [Executes |-> FALSE, Status |-> status]
Executes(arguments) == [Executes |-> TRUE, Arguments |-> arguments]

\* Mutant: the plugin goes behind the arguments.
NewArgsLast(argv, clangPath, plugin) ==
    <<clangPath>> \o Tail(argv) \o <<plugin, Null>>

NewArgs(argv, clangPath, plugin) ==
    Append(InsertAt([argv EXCEPT ![1] = clangPath], 2, plugin), Null)

\* The status of a failed execv is that of the wrapper.
main(system, argv) ==
    IF argv = <<>> THEN Exits(1)
    ELSE LET clangPath == ClangExecutable(argv[1])
             plugin == FindSMACPPClangPlugin(system, argv[1])
         IN IF clangPath \notin system.Executables \/ plugin = NotFound THEN Exits(2)
            ELSE IF system.CanExecute THEN Executes(NewArgs(argv, clangPath, plugin))
            ELSE Exits(-1)
=============================================================================
