------------------------------ MODULE Pipeline ------------------------------
(***************************************************************************)
(* A translation unit from its syntax tree to the diagnostics              *)
(* (parse/MainASTConsumer.cpp, HandleTranslationUnit): the traversal to    *)
(* its end, the analysis of the registry that it has filled, and a report  *)
(* for each problem found.                                                 *)
(***************************************************************************)
EXTENDS Builder, Analyzer

VARIABLE Diagnostics    \* what clang's diagnostics engine was told

analysisVars ==
    <<phase, toCheck, FoundCalls, step, RecordedFunctionCalls, Problems, called, analysed>>
pipelineVars == <<traversalVars, analysisVars, Diagnostics>>

Unhandled ==
    /\ Untraversed
    /\ Unstarted
    /\ Diagnostics = <<>>

PipelineInit == unit \in Units /\ Unhandled

Traverse == TraverseDecl /\ UNCHANGED <<analysisVars, Diagnostics>>

PerformAnalysis ==
    /\ Traversed
    /\ Next
    /\ UNCHANGED <<unit, next, visitors, Target, Diagnostics>>

\* Every problem has the severity of an error.
Report ==
    /\ phase = "returned"
    /\ Len(Diagnostics) < Len(Problems)
    /\ Diagnostics' = Append(Diagnostics, Problems[Len(Diagnostics) + 1])
    /\ UNCHANGED <<traversalVars, analysisVars>>

HandleTranslationUnit == Traverse \/ PerformAnalysis \/ Report

PipelineSpec == PipelineInit /\ [][HandleTranslationUnit]_pipelineVars

\* One thread, which clang lets run until the unit is handled.
FairPipelineSpec == PipelineSpec /\ WF_pipelineVars(HandleTranslationUnit)

----------------------------------------------------------------------------
(* Properties.                                                             *)

IsHandled ==
    /\ phase = "returned"
    /\ Diagnostics = Problems

\* Every translation unit is handled in the end, whatever its functions and the
\* calls between them.
Handles == <>IsHandled
=============================================================================
