---------------------------- MODULE CallWorklist ----------------------------
(***************************************************************************)
(* What the analyzer promises about the calls it finds, without saying how *)
(* a call is analysed: "makes sure each codeblock is not analysed multiple *)
(* times" (analysis/Analyzer.h, line 47), and no call it has found is left *)
(* when it returns.                                                        *)
(*                                                                         *)
(* A call is a function with the states of its parameters.                 *)
(***************************************************************************)
EXTENDS FiniteSets

CONSTANT Calls      \* every call the program can make

VARIABLES
    found,      \* calls found and not analysed yet
    analysed,   \* calls whose analysis is over
    returned    \* the analyzer has returned

vars == <<found, analysed, returned>>

TypeOK ==
    /\ found \subseteq Calls
    /\ analysed \subseteq Calls
    /\ returned \in BOOLEAN

Init ==
    /\ found = {}
    /\ analysed = {}
    /\ returned = FALSE

\* The analysis starts from the entry point.
Begin(entry) ==
    /\ ~returned
    /\ found = {} /\ analysed = {}
    /\ found' = {entry}
    /\ UNCHANGED <<analysed, returned>>

\* Analysing a call finds one that was never found before.
Find(call) ==
    /\ ~returned
    /\ found # {}
    /\ call \notin found \cup analysed
    /\ found' = found \cup {call}
    /\ UNCHANGED <<analysed, returned>>

\* The analysis of one of the calls found ends.
Finish(call) ==
    /\ ~returned
    /\ call \in found
    /\ found' = found \ {call}
    /\ analysed' = analysed \cup {call}
    /\ UNCHANGED returned

\* Nothing is left to analyse.
Return ==
    /\ ~returned
    /\ found = {}
    /\ returned' = TRUE
    /\ UNCHANGED <<found, analysed>>

Next ==
    \/ \E call \in Calls : Begin(call) \/ Find(call) \/ Finish(call)
    \/ Return

Spec == Init /\ [][Next]_vars
=============================================================================
