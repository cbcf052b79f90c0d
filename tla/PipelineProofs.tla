--------------------------- MODULE PipelineProofs ---------------------------
(***************************************************************************)
(* What is proved of the analyzer holds of the whole pipeline: what it     *)
(* assumes of the registry it starts with, the traversal guarantees, and   *)
(* nothing is read of the registry before the traversal is over.           *)
(***************************************************************************)
EXTENDS Pipeline, AnalyzerProofs, BuilderProofs

\* The analysis has not started before the traversal is over; from then on the
\* analyzer's invariants hold.
PipelineInv ==
    /\ TraversalInv
    /\ ~Traversed => Unstarted
    /\ Traversed => Inv /\ ResultInv

\* A declaration is begun before the end of the unit; in every other step a
\* visitor is at work.
LEMMA TraversingIsNotOver ==
    ASSUME PipelineInv, Traverse
    PROVE  ~Traversed
<1>1. next \in Nat /\ Len(unit) \in Nat
  BY DEF PipelineInv, TraversalInv, TraversalTypeOK
<1>2. CASE TraverseFunctionDecl
  BY <1>1, <1>2 DEF TraverseFunctionDecl, Traversed
<1>3. CASE AddBlock
  BY <1>3 DEF AddBlock, Traversed
<1>4. CASE LeaveVisitor
  BY <1>4 DEF LeaveVisitor, Traversed
<1>5. CASE \E kind \in {"VarDecl", "Assign", "ArraySubscriptExpr", "CallExpr", "IfStmt",
                        "SwitchStmt", "WhileStmt", "CaseStmt", "BreakStmt", "DefaultStmt",
                        "ReturnStmt", "FunctionDecl"} : Visits(kind)
  BY <1>5 DEF Visits, Traversed
<1> QED BY <1>2, <1>3, <1>4, <1>5
        DEF Traverse, TraverseDecl, VisitVarDecl, VisitBinaryOperator,
            VisitArraySubscriptExpr, TraverseCallExpr, TraverseIfStmt, TraverseSwitchStmt,
            TraverseWhileStmt, VisitCaseStmt, VisitBreakStmt, VisitDefaultStmt, PassOver,
            VisitParmVarDecl

LEMMA TraversingInv ==
    ASSUME PipelineInv, Traverse
    PROVE  PipelineInv'
<1>1. ~Traversed
  BY TraversingIsNotOver
<1>2. TraversalInv'
  BY TraverseInv DEF PipelineInv, Traverse
<1>3. Unstarted'
  BY <1>1 DEF PipelineInv, Traverse, Unstarted, analysisVars
<1>4. Init'
  BY <1>2, <1>3 DEF Init, TraversalInv, TraversalTypeOK
<1>5. Inv' /\ ResultInv'
  BY <1>4, InitInv, InitResult, PTL
<1> QED BY <1>2, <1>3, <1>5 DEF PipelineInv

LEMMA AnalysingInv ==
    ASSUME PipelineInv, PerformAnalysis
    PROVE  PipelineInv'
<1>1. Traversed /\ Next /\ UNCHANGED <<unit, next, visitors, Target>>
  BY DEF PerformAnalysis
<1>2. Inv /\ Inv' /\ ResultInv'
  BY <1>1, NextInv, NextResult DEF PipelineInv
<1>3. Traversed'
  BY <1>1 DEF Traversed
<1>4. IsRegistry(FunctionBlocks')
  BY <1>2 DEF Inv, TypeOK
<1>5. TraversalInv'
  BY <1>1, <1>4 DEF PipelineInv, TraversalInv, TraversalTypeOK
<1> QED BY <1>2, <1>3, <1>5 DEF PipelineInv

LEMMA AnalyzerStutters ==
    ASSUME UNCHANGED <<traversalVars, analysisVars>>, PipelineInv
    PROVE  PipelineInv'
<1>1. UNCHANGED vars
  BY DEF traversalVars, analysisVars, vars
<1>2. Traversed' <=> Traversed
  BY DEF Traversed, traversalVars
<1>3. TraversalInv'
  BY TraversalStutters DEF PipelineInv
<1>4. ~Traversed => Unstarted'
  BY DEF PipelineInv, Unstarted, analysisVars
<1>5. Traversed => Inv' /\ ResultInv'
  BY <1>1, NextInv, NextResult DEF PipelineInv
<1> QED BY <1>2, <1>3, <1>4, <1>5 DEF PipelineInv

LEMMA PipelineInitInv == PipelineInit => PipelineInv
<1> SUFFICES ASSUME PipelineInit PROVE PipelineInv
  OBVIOUS
<1>1. InitTraversal /\ Unstarted
  BY DEF PipelineInit, Unhandled, InitTraversal
<1>2. TraversalInv
  BY <1>1, InitTraversalInv
<1>3. Init
  BY <1>1, <1>2 DEF Init, TraversalInv, TraversalTypeOK
<1> QED BY <1>1, <1>2, <1>3, InitInv, InitResult DEF PipelineInv

\* The invariant holds in every state of the pipeline.
THEOREM PipelineInvariance == PipelineSpec => []PipelineInv
<1>1. PipelineInv /\ [HandleTranslationUnit]_pipelineVars => PipelineInv'
  <2> SUFFICES ASSUME PipelineInv, [HandleTranslationUnit]_pipelineVars
               PROVE  PipelineInv'
    OBVIOUS
  <2>1. CASE Traverse
    BY <2>1, TraversingInv
  <2>2. CASE PerformAnalysis
    BY <2>2, AnalysingInv
  <2>3. CASE Report
    BY <2>3, AnalyzerStutters DEF Report
  <2>4. CASE UNCHANGED pipelineVars
    BY <2>4, AnalyzerStutters DEF pipelineVars
  <2> QED BY <2>1, <2>2, <2>3, <2>4 DEF HandleTranslationUnit
<1> QED BY <1>1, PipelineInitInv, PTL DEF PipelineSpec

\* Before the traversal is over, any analysis could start.
LEMMA AnalyzerInPipeline == PipelineInv => Inv /\ ResultInv
<1> SUFFICES ASSUME PipelineInv PROVE Inv /\ ResultInv
  OBVIOUS
<1>1. CASE Traversed
  BY <1>1 DEF PipelineInv
<1>2. CASE ~Traversed
  BY <1>2, InitInv, InitResult DEF PipelineInv, Init, TraversalInv, TraversalTypeOK
<1> QED BY <1>1, <1>2

\* What was proved of the analyzer alone, from any registry, holds from a
\* translation unit on: the variables have their types, no call is analysed twice,
\* none that was executed is lost, every operation starts in the state its call
\* determines, resolving ends, and of two branches one is taken at most.
THEOREM PipelineCorrect ==
    PipelineSpec => [](/\ TypeOK /\ AnalysedOnce /\ NoCallLost /\ StartsFresh
                       /\ ResolvingEnds /\ BranchesExclusive)
<1>1. PipelineInv => /\ TypeOK /\ AnalysedOnce /\ NoCallLost /\ StartsFresh
                     /\ ResolvingEnds /\ BranchesExclusive
  BY AnalyzerInPipeline, NothingIsPending, NothingRefers, OneBranch DEF Inv
<1> QED BY <1>1, PipelineInvariance, PTL

\* The calls that are analysed are those that main leads to, and each problem is
\* found as often as they report it, whatever the translation unit.
THEOREM PipelineResult == PipelineSpec => []ResultIsComplete
<1>1. PipelineInv => ResultIsComplete
  BY AnalyzerInPipeline, ReturnedIsComplete
<1> QED BY <1>1, PipelineInvariance, PTL

\* A step of the pipeline is a step of the analyzer, or the analysis has not started
\* and does not start.
LEMMA AnalyzerSteps ==
    PipelineInv /\ [HandleTranslationUnit]_pipelineVars =>
        [Next]_vars \/ (UNCHANGED analysisVars /\ phase = "parsed")
<1> SUFFICES ASSUME PipelineInv, [HandleTranslationUnit]_pipelineVars
             PROVE  [Next]_vars \/ (UNCHANGED analysisVars /\ phase = "parsed")
  OBVIOUS
<1>1. CASE Traverse
  <2>1. UNCHANGED analysisVars
    BY <1>1 DEF Traverse
  <2>2. phase = "parsed"
    BY <1>1, TraversingIsNotOver DEF PipelineInv, Unstarted
  <2> QED BY <2>1, <2>2
<1>2. CASE PerformAnalysis
  BY <1>2 DEF PerformAnalysis
<1>3. CASE Report
  BY <1>3 DEF Report, traversalVars, analysisVars, vars
<1>4. CASE UNCHANGED pipelineVars
  BY <1>4 DEF pipelineVars, traversalVars, analysisVars, vars
<1> QED BY <1>1, <1>2, <1>3, <1>4 DEF HandleTranslationUnit

\* A reached access is reported exactly when it is outside its buffer, in the analysis
\* of every translation unit.
THEOREM PipelineReportsExactly == PipelineSpec => ReportsExactly
<1>1. PipelineInv /\ [HandleTranslationUnit]_pipelineVars =>
        [Dispatches("ArrayIndexAccess") =>
            (Len(Problems') = Len(Problems) + 1 <=> AccessOutside(Action))]_vars
  <2> SUFFICES ASSUME PipelineInv, [HandleTranslationUnit]_pipelineVars
               PROVE  [Dispatches("ArrayIndexAccess") =>
                        (Len(Problems') = Len(Problems) + 1 <=> AccessOutside(Action))]_vars
    OBVIOUS
  <2>1. CASE [Next]_vars
    BY <2>1, AnalyzerInPipeline, AccessReported
  <2>2. CASE phase = "parsed"
    BY <2>2 DEF Dispatches, Running
  <2> QED BY <2>1, <2>2, AnalyzerSteps
<1> QED BY <1>1, PipelineInvariance, PTL DEF PipelineSpec, ReportsExactly

\* The analyzer's queue is a worklist of calls also while the units are traversed: the
\* worklist is empty then.
THEOREM PipelineImplementsWorklist == PipelineSpec => ImplementsWorklist
<1>1. PipelineInit => Worklist!Init
  <2>1. PipelineInit => Init
    BY PipelineInitInv DEF PipelineInit, Unhandled, Init, PipelineInv, TraversalInv,
                           TraversalTypeOK
  <2> QED BY <2>1, WorklistInit
<1>2. PipelineInv /\ [HandleTranslationUnit]_pipelineVars => [Worklist!Next]_(Worklist!vars)
  <2> SUFFICES ASSUME PipelineInv, [HandleTranslationUnit]_pipelineVars
               PROVE  [Worklist!Next]_(Worklist!vars)
    OBVIOUS
  <2>1. CASE [Next]_vars
    BY <2>1, AnalyzerInPipeline, WorklistStep
  <2>2. CASE UNCHANGED analysisVars
    BY <2>2, WorklistStutters DEF analysisVars
  <2> QED BY <2>1, <2>2, AnalyzerSteps
<1>3. PipelineSpec => Worklist!Init /\ [][Worklist!Next]_(Worklist!vars)
  BY <1>1, <1>2, PipelineInvariance, PTL DEF PipelineSpec
<1> QED BY <1>3 DEF ImplementsWorklist, Worklist!Spec

\* clang is told of nothing before the analyzer has returned, and then of its problems
\* one by one, in their order.
ToldInOrder ==
    /\ Diagnostics # <<>> => phase = "returned"
    /\ Len(Diagnostics) <= Len(Problems)
    /\ \A i \in 1 .. Len(Diagnostics) : Diagnostics[i] = Problems[i]

\* A problem is never told of twice, out of its order, or before the analysis is over,
\* whatever the translation unit: what is reported is the analyzer's result, cut off
\* where the unit is still being handled.
THEOREM DiagnosticsAreProblems == PipelineSpec => []ToldInOrder
<1> DEFINE I == ToldInOrder /\ Diagnostics \in Seq(FoundProblems)
<1>1. PipelineInit => I
  <2> SUFFICES ASSUME PipelineInit PROVE I
    OBVIOUS
  <2>1. Diagnostics = <<>> /\ Problems = <<>>
    BY DEF PipelineInit, Unhandled, Unstarted
  <2>2. <<>> \in Seq(FoundProblems) /\ Len(<<>>) = 0
    OBVIOUS
  <2> QED BY <2>1, <2>2 DEF ToldInOrder
<1>2. PipelineInv /\ I /\ [HandleTranslationUnit]_pipelineVars => I'
  <2> SUFFICES ASSUME PipelineInv, I, [HandleTranslationUnit]_pipelineVars PROVE I'
    OBVIOUS
  <2>1. /\ Problems \in Seq(FoundProblems) /\ Len(Problems) \in Nat
        /\ Diagnostics \in Seq(FoundProblems) /\ Len(Diagnostics) \in Nat
    BY AnalyzerInPipeline DEF Inv, TypeOK
  <2>2. CASE Report
    <3>1. /\ phase = "returned" /\ Len(Diagnostics) < Len(Problems)
          /\ Diagnostics' = Append(Diagnostics, Problems[Len(Diagnostics) + 1])
          /\ UNCHANGED <<phase, Problems>>
      BY <2>2 DEF Report, analysisVars
    <3>2. Problems[Len(Diagnostics) + 1] \in FoundProblems
      BY <2>1, <3>1
    <3>3. /\ Diagnostics' \in Seq(FoundProblems)
          /\ Len(Diagnostics') = Len(Diagnostics) + 1
          /\ \A i \in 1 .. Len(Diagnostics) : Diagnostics'[i] = Diagnostics[i]
          /\ Diagnostics'[Len(Diagnostics) + 1] = Problems[Len(Diagnostics) + 1]
      BY <2>1, <3>1, <3>2, AppendProperties
    <3>4. \A i \in 1 .. Len(Diagnostics) + 1 :
                i \in 1 .. Len(Diagnostics) \/ i = Len(Diagnostics) + 1
      BY <2>1
    <3>5. Len(Diagnostics) + 1 <= Len(Problems)
      BY <2>1, <3>1
    <3> QED BY <3>1, <3>3, <3>4, <3>5 DEF ToldInOrder
  <2>3. CASE phase = "returned" /\ ~Report
    <3>1. Problems' = Problems /\ Diagnostics' = Diagnostics /\ phase' = phase
      <4>1. CASE Traverse
        BY <4>1 DEF Traverse, analysisVars
      <4>2. CASE PerformAnalysis
        BY <2>3, <4>2 DEF PerformAnalysis, Next, ReportNoMain, RejectEntryPoint, BeginAnalysis,
              HandleFunctionCall, HandleVarDeclared, HandleVarAssigned, HandleArrayIndexAccess,
              Dispatches, SkipAction, EndOperation, ReturnProblems, Running, Terminated, vars
      <4>3. CASE UNCHANGED pipelineVars
        BY <4>3 DEF pipelineVars, analysisVars
      <4> QED BY <2>3, <4>1, <4>2, <4>3 DEF HandleTranslationUnit
    <3> QED BY <3>1 DEF ToldInOrder
  <2>4. CASE phase # "returned" /\ ~Report
    <3>1. Diagnostics' = Diagnostics
      BY <2>4 DEF HandleTranslationUnit, Traverse, PerformAnalysis, pipelineVars
    <3>2. Diagnostics = <<>>
      BY <2>4 DEF ToldInOrder
    <3>3. PipelineInv'
      BY TraversingInv, AnalysingInv, AnalyzerStutters
         DEF HandleTranslationUnit, Report, pipelineVars
    <3>4. Problems' \in Seq(FoundProblems)
      <4>1. (PipelineInv => Inv /\ ResultInv)'
        BY AnalyzerInPipeline, PTL
      <4> QED BY <3>3, <4>1 DEF Inv, TypeOK
    <3>5. Len(Problems') \in Nat /\ Len(<<>>) = 0
      BY <3>4
    <3> QED BY <3>1, <3>2, <3>5 DEF ToldInOrder
  <2> QED BY <2>2, <2>3, <2>4
<1>3. I => ToldInOrder
  OBVIOUS
<1> QED BY <1>1, <1>2, <1>3, PipelineInvariance, PTL DEF PipelineSpec
=============================================================================
