---------------------------- MODULE BuilderProofs ----------------------------
(***************************************************************************)
(* The traversal keeps its types, for every set of translation units: what *)
(* it leaves in the registry is a block of actions for each function, with *)
(* conditions that can be evaluated and negated. And a block covers what   *)
(* its function does: the condition of an action holds whenever a run of   *)
(* the function reaches it.                                                *)
(***************************************************************************)
EXTENDS BuilderReference, ConditionProofs, SequenceTheorems, DataLemmas

----------------------------------------------------------------------------
(* Conditions that the visitors put together.                              *)

\* Conditions that ask something.
Asking == Conditions \ {Always}

LEMMA AskingParts ==
    ASSUME NEW condition \in Asking
    PROVE  /\ condition.Tautology = FALSE
           /\ condition.VariableConditions \subseteq (SUBSET Leaves) \ {{}}
           /\ condition.VariableConditions # {}
BY DEF Asking, Conditions

LEMMA AskingIntro ==
    ASSUME NEW ways \in SUBSET ((SUBSET Leaves) \ {{}}), ways # {}
    PROVE  [Tautology |-> FALSE, VariableConditions |-> ways] \in Asking
BY DEF Asking, Conditions, Always

LEMMA AlwaysType == Always \in Conditions /\ Always.Tautology
BY DEF Conditions, Always

LEMMA WhenType ==
    ASSUME NEW leaf \in Leaves
    PROVE  When(leaf) \in Asking
<1>1. {{leaf}} \in SUBSET ((SUBSET Leaves) \ {{}}) /\ {{leaf}} # {}
  OBVIOUS
<1> QED BY <1>1, AskingIntro DEF When

LEMMA TheLeafType ==
    ASSUME NEW condition \in Asking
    PROVE  TheLeaf(condition) \in Leaves
<1>1. PICK conjunction \in condition.VariableConditions : conjunction # {}
  BY AskingParts
<1>2. PICK leaf \in conjunction : leaf \in UNION condition.VariableConditions
  BY <1>1
<1>3. TheLeaf(condition) \in UNION condition.VariableConditions
  BY <1>2 DEF TheLeaf
<1> QED BY <1>3, AskingParts

LEMMA NegateLeafType ==
    ASSUME NEW leaf \in Leaves
    PROVE  NegateLeaf(leaf) \in Leaves
<1>1. leaf.Subject \in Copies \cup Literals /\ leaf.Value \in ValueRanges
  BY DEF Leaves
<1>2. NegateRange(leaf.Value) \in ValueRanges
  <2>1. CASE leaf.Value \in {NotZero, Zero}
    BY <2>1 DEF NegateRange, ValueRanges, NotZero, Zero
  <2>2. CASE leaf.Value \in
                [Type : {"Comparison"}, Comparison : COMPARISON, ComparedTo : Vars]
    <3>1. NegateComparison(leaf.Value.Comparison) \in COMPARISON
      BY <2>2 DEF COMPARISON, NegateComparison
    <3>2. NegateRange(leaf.Value) = ComparedTo(NegateComparison(leaf.Value.Comparison),
                                               leaf.Value.ComparedTo)
      BY <2>2 DEF NegateRange
    <3> QED BY <2>2, <3>1, <3>2 DEF ValueRanges, ComparedTo
  <2>3. CASE leaf.Value \in
                [Type : {"Constant"}, Comparison : COMPARISON, ComparedConstant : Literals]
    <3>1. NegateComparison(leaf.Value.Comparison) \in COMPARISON
      BY <2>3 DEF COMPARISON, NegateComparison
    <3>2. NegateRange(leaf.Value) = ComparedConstant(NegateComparison(leaf.Value.Comparison),
                                                     leaf.Value.ComparedConstant)
      BY <2>3 DEF NegateRange
    <3> QED BY <2>3, <3>1, <3>2 DEF ValueRanges, ComparedConstant
  <2> QED BY <1>1, <2>1, <2>2, <2>3 DEF ValueRanges
<1> QED BY <1>1, <1>2 DEF NegateLeaf, Leaf, Leaves

LEMMA NegateType ==
    ASSUME NEW condition \in Asking
    PROVE  Negate(condition) \in Asking
<1>1. Negate(condition) = When(NegateLeaf(TheLeaf(condition)))
  BY AskingParts DEF Negate
<1> QED BY <1>1, TheLeafType, NegateLeafType, WhenType

LEMMA AndType ==
    ASSUME NEW condition \in Conditions, NEW other \in Conditions
    PROVE  And(condition, other) \in Conditions
<1>1. CASE other = Always \/ condition = Always
  BY <1>1, AlwaysType, AskingParts DEF And, Asking
<1>2. CASE other \in Asking /\ condition \in Asking
  <2> DEFINE ways == UNION {{left \cup right : right \in other.VariableConditions} :
                                left \in condition.VariableConditions}
  <2>1. ways \in SUBSET ((SUBSET Leaves) \ {{}}) /\ ways # {}
    <3>1. PICK left \in condition.VariableConditions, right \in other.VariableConditions : TRUE
      BY <1>2, AskingParts
    <3>2. left \cup right \in ways
      BY <3>1
    <3>3. ASSUME NEW way \in ways PROVE way \in (SUBSET Leaves) \ {{}}
      <4>1. PICK one \in condition.VariableConditions, two \in other.VariableConditions :
                way = one \cup two
        OBVIOUS
      <4>2. one \in (SUBSET Leaves) \ {{}} /\ two \in (SUBSET Leaves) \ {{}}
        BY <1>2, AskingParts
      <4> QED BY <4>1, <4>2
    <3> HIDE DEF ways
    <3> QED BY <3>2, <3>3
  <2>2. And(condition, other) = [Tautology |-> FALSE, VariableConditions |-> ways]
    BY <1>2, AskingParts DEF And
  <2> HIDE DEF ways
  <2> QED BY <2>1, <2>2, AskingIntro DEF Asking
<1> QED BY <1>1, <1>2 DEF Asking

LEMMA OrType ==
    ASSUME NEW condition \in Conditions, NEW other \in Conditions
    PROVE  Or(condition, other) \in Conditions
<1>1. CASE other = Always \/ condition = Always
  BY <1>1, AlwaysType DEF Or
<1>2. CASE other \in Asking /\ condition \in Asking
  <2> DEFINE ways == condition.VariableConditions \cup other.VariableConditions
  <2>1. ways \in SUBSET ((SUBSET Leaves) \ {{}}) /\ ways # {}
    BY <1>2, AskingParts
  <2>2. Or(condition, other) = [Tautology |-> FALSE, VariableConditions |-> ways]
    BY <1>2, AskingParts DEF Or
  <2> HIDE DEF ways
  <2> QED BY <2>1, <2>2, AskingIntro DEF Asking
<1> QED BY <1>1, <1>2 DEF Asking

\* Negating the cases before a default never meets a condition that cannot be
\* negated.
LEMMA NoneOfType ==
    ASSUME NEW cases \in SUBSET Asking
    PROVE  NoneOf(cases) \in Conditions
<1>1. CASE cases = {}
  BY <1>1, AlwaysType DEF NoneOf
<1>2. CASE cases # {}
  <2> DEFINE leaves == {TheLeaf(Negate(condition)) : condition \in cases}
  <2>1. leaves \in SUBSET Leaves /\ leaves # {}
    BY <1>2, NegateType, TheLeafType
  <2>2. NoneOf(cases) = [Tautology |-> FALSE, VariableConditions |-> {leaves}]
    BY <1>2 DEF NoneOf
  <2> HIDE DEF leaves
  <2>3. {leaves} \in SUBSET ((SUBSET Leaves) \ {{}}) /\ {leaves} # {}
    BY <2>1
  <2> QED BY <2>2, <2>3, AskingIntro DEF Asking
<1> QED BY <1>1, <1>2

LEMMA OrSwitchConditionType ==
    ASSUME NEW current \in Conditions, NEW condition \in Conditions
    PROVE  OrSwitchCondition(current, condition) \in Conditions
BY OrType DEF OrSwitchCondition

----------------------------------------------------------------------------
(* The visitors at work.                                                   *)

\* The visitor of a switch knows what the switch asks about, and has only
\* collected cases that ask something.
WorkingVisitors ==
    {v \in Visitors : /\ v.Type = "Case" => v.Subject # NotParsed
                      /\ v.SwitchCases \subseteq Asking}

TraversalInv ==
    /\ TraversalTypeOK
    /\ visitors \in Seq(WorkingVisitors)
    /\ visitors # <<>> => next \in 1 .. Len(unit)

\* What each kind of statement holds.
LEMMA StatementParts ==
    ASSUME NEW s \in Statements
    PROVE  /\ s.Kind = "VarDecl" => s.Variable \in Vars /\ s.State \in {Unknown} \cup Buffers
           /\ s.Kind = "Assign" => s.Variable \in Vars /\ s.State \in Expressions \cup {NotParsed}
           /\ s.Kind = "ArraySubscriptExpr" => s.Array \in Vars /\ s.Index \in Literals
           /\ s.Kind = "CallExpr" => s.Function \in FunctionNames /\ s.Params \in ArgumentLists
           /\ s.Kind = "IfStmt" => /\ s.Condition \in ParsedConditions \cup {NotParsed}
                                  /\ s.Then \in Seq(Statements) /\ s.Else \in Seq(Statements)
           /\ s.Kind = "SwitchStmt" => /\ s.Subject \in Copies \cup Primitives \cup {NotParsed}
                                      /\ s.Body \in Seq(Statements)
           /\ s.Kind = "CaseStmt" => s.Value \in Literals
           /\ s.Kind = "WhileStmt" => s.Body \in Seq(Statements)
           /\ s.Kind = "FunctionDecl" => s.Parameters \in Seq(Vars)
           /\ s.At \in Nat
<1>1. s \in StatementsOver(Statements)
  BY BuilderAssumption
<1> QED BY <1>1 DEF StatementsOver

LEMMA VisitedType ==
    ASSUME TraversalInv, visitors # <<>>
    PROVE  /\ Top \in WorkingVisitors
           /\ Tail(visitors) \in Seq(WorkingVisitors)
           /\ Top.Statements \in Seq(Statements)
           /\ Top.Statements # <<>> => /\ Statement \in Statements
                                       /\ Tail(Top.Statements) \in Seq(Statements)
<1>1. Top \in WorkingVisitors /\ Tail(visitors) \in Seq(WorkingVisitors)
  BY HeadTailProperties DEF TraversalInv, Top
<1>2. Top.Statements \in Seq(Statements)
  BY <1>1 DEF WorkingVisitors, Visitors
<1> QED BY <1>1, <1>2, HeadTailProperties DEF Statement

LEMMA GetCurrentConditionType ==
    ASSUME TraversalInv, visitors # <<>>
    PROVE  GetCurrentCondition \in Conditions
<1>1. Top.Condition \in Conditions /\ Top.CurrentSwitchCondition \in Conditions
  BY VisitedType DEF WorkingVisitors, Visitors
<1> QED BY <1>1, AndType DEF GetCurrentCondition

LEMMA NewVisitorType ==
    ASSUME NEW type \in {"Function", "Conditional", "Case"}, NEW condition \in Conditions,
           NEW subject \in Copies \cup Primitives \cup {NotParsed},
           type = "Case" => subject # NotParsed, NEW statements \in Seq(Statements)
    PROVE  Visitor(type, condition, subject, statements) \in WorkingVisitors
BY AlwaysType DEF Visitor, WorkingVisitors, Visitors

LEMMA Singleton ==
    ASSUME NEW S, NEW x \in S
    PROVE  <<x>> \in Seq(S)
OBVIOUS

LEMMA GoOnType ==
    ASSUME TraversalInv, visitors # <<>>, Top.Statements # <<>>,
           NEW visitor \in WorkingVisitors, visitor.Statements = Top.Statements,
           NEW parts \in Seq(WorkingVisitors), GoOn(visitor, parts)
    PROVE  visitors' \in Seq(WorkingVisitors)
<1> DEFINE behind == [visitor EXCEPT !.Statements = Tail(@)]
<1>1. /\ Tail(visitors) \in Seq(WorkingVisitors)
      /\ Tail(Top.Statements) \in Seq(Statements)
  BY VisitedType
<1>2. behind \in WorkingVisitors
  BY <1>1 DEF WorkingVisitors, Visitors
<1> HIDE DEF behind
<1>3. <<behind>> \in Seq(WorkingVisitors)
  BY <1>2, Singleton
<1>4. parts \o <<behind>> \in Seq(WorkingVisitors)
  BY <1>3, ConcatProperties
<1>5. (parts \o <<behind>>) \o Tail(visitors) \in Seq(WorkingVisitors)
  BY <1>1, <1>4, ConcatProperties
<1> QED BY <1>5 DEF GoOn, behind

LEMMA AddActionType ==
    ASSUME TraversalInv, visitors # <<>>, Top.Statements # <<>>,
           NEW action \in ProcessedActions, AddProcessedAction(action)
    PROVE  Target' \in Blocks
<1>1. Statement.At \in Nat
  BY VisitedType, StatementParts
<1>2. /\ Target \in Blocks
      /\ Target.Actions \in Seq(ProcessedActions) /\ Target.Locations \in Seq(Nat)
  BY DEF TraversalInv, TraversalTypeOK, Blocks
<1>3. /\ Append(Target.Actions, action) \in Seq(ProcessedActions)
      /\ Append(Target.Locations, Statement.At) \in Seq(Nat)
  BY <1>1, <1>2, AppendProperties
<1> QED BY <1>2, <1>3 DEF AddProcessedAction, Blocks

----------------------------------------------------------------------------
(* The steps.                                                              *)

\* A step inside of a function.
LEMMA InsideStep ==
    ASSUME TraversalInv, visitors # <<>>, UNCHANGED <<unit, next, FunctionBlocks>>,
           Target' \in Blocks, visitors' \in Seq(WorkingVisitors)
    PROVE  TraversalInv'
<1>1. WorkingVisitors \subseteq Visitors
  BY DEF WorkingVisitors
<1>2. visitors' \in Seq(Visitors)
  BY <1>1, SeqMonotonic
<1> QED BY <1>2 DEF TraversalInv, TraversalTypeOK

\* A visitor with no part of its own to visit goes on.
LEMMA GoOnStep ==
    ASSUME TraversalInv, visitors # <<>>, Top.Statements # <<>>, GoOn(Top, <<>>),
           UNCHANGED <<unit, next, FunctionBlocks>>, Target' \in Blocks
    PROVE  TraversalInv'
<1>1. <<>> \in Seq(WorkingVisitors)
  BY EmptySeq
<1>2. visitors' \in Seq(WorkingVisitors)
  BY <1>1, VisitedType, GoOnType
<1> QED BY <1>2, InsideStep

LEMMA EmptyBlockType ==
    ASSUME NEW parameters \in Seq(Vars)
    PROVE  /\ [EmptyBlock EXCEPT !.Parameters = parameters] \in Blocks
           /\ EmptyBlock \in Blocks
<1>1. /\ <<>> \in Seq(Vars) /\ <<>> \in Seq(ProcessedActions)
      /\ <<>> \in Seq(Nat)
  BY EmptySeq
<1> QED BY <1>1 DEF EmptyBlock, Blocks

LEMMA InitTraversalInv == InitTraversal => TraversalInv
<1> SUFFICES ASSUME InitTraversal PROVE TraversalInv
  OBVIOUS
<1>1. unit \in Seq(Declarations) /\ Len(unit) \in Nat /\ next = 1
  BY BuilderAssumption DEF InitTraversal, Untraversed
<1>2. visitors = <<>> /\ visitors \in Seq(WorkingVisitors) /\ visitors \in Seq(Visitors)
  BY EmptySeq DEF InitTraversal, Untraversed
<1>3. Target \in Blocks
  BY EmptyBlockType, EmptySeq DEF InitTraversal, Untraversed
<1>4. IsRegistry(FunctionBlocks)
  <2>1. FunctionBlocks = <<>>
    BY DEF InitTraversal, Untraversed
  <2>2. <<>> \in [{} -> CodeBlocks]
    OBVIOUS
  <2> QED BY <2>1, <2>2 DEF IsRegistry
<1> QED BY <1>1, <1>2, <1>3, <1>4 DEF TraversalInv, TraversalTypeOK

LEMMA FunctionStep == TraversalInv /\ TraverseFunctionDecl => TraversalInv'
<1> SUFFICES ASSUME TraversalInv, TraverseFunctionDecl PROVE TraversalInv'
  OBVIOUS
<1>1. /\ next \in 1 .. Len(unit)
      /\ unit[next] \in Declarations
  <2>1. unit \in Seq(Declarations) /\ next \in 1 .. Len(unit) + 1 /\ next <= Len(unit)
    BY DEF TraversalInv, TraversalTypeOK, TraverseFunctionDecl
  <2>2. Len(unit) \in Nat
    BY <2>1
  <2> QED BY <2>1, <2>2, ElementOfSeq
<1>2. unit[next].Parameters \in Seq(Vars) /\ unit[next].Body \in Seq(Statements)
  BY <1>1 DEF Declarations
<1>3. Target' \in Blocks
  BY <1>2, EmptyBlockType DEF TraverseFunctionDecl
<1>4. FunctionVisitor(unit[next].Body) \in WorkingVisitors
  BY <1>2, AlwaysType, NewVisitorType DEF FunctionVisitor
<1>5. visitors' \in Seq(WorkingVisitors)
  BY <1>4, Singleton DEF TraverseFunctionDecl
<1>6. visitors' \in Seq(Visitors)
  BY <1>5, SeqMonotonic DEF WorkingVisitors
<1> QED BY <1>1, <1>3, <1>5, <1>6
        DEF TraversalInv, TraversalTypeOK, TraverseFunctionDecl

LEMMA InsertOrAssignType ==
    ASSUME IsRegistry(FunctionBlocks), NEW name \in FunctionNames, NEW block \in CodeBlocks
    PROVE  IsRegistry(InsertOrAssign(name, block))
<1>1. PICK names \in SUBSET FunctionNames : FunctionBlocks \in [names -> CodeBlocks]
  BY DEF IsRegistry
<1>2. InsertOrAssign(name, block) \in [names \cup {name} -> CodeBlocks]
  BY <1>1 DEF InsertOrAssign
<1>3. names \cup {name} \in SUBSET FunctionNames
  BY <1>1
<1> QED BY <1>2, <1>3 DEF IsRegistry

LEMMA AddBlockStep == TraversalInv /\ AddBlock => TraversalInv'
<1> SUFFICES ASSUME TraversalInv, AddBlock PROVE TraversalInv'
  OBVIOUS
<1>1. visitors # <<>>
  BY DEF AddBlock
<1>2. /\ next \in 1 .. Len(unit) /\ unit \in Seq(Declarations)
      /\ Len(unit) \in Nat /\ unit[next] \in Declarations
  BY <1>1, ElementOfSeq DEF TraversalInv, TraversalTypeOK
<1> DEFINE block == [Parameters |-> Target.Parameters, Actions |-> Target.Actions]
<1>3. unit[next].Name \in FunctionNames /\ block \in CodeBlocks
  BY <1>2 DEF Declarations, TraversalInv, TraversalTypeOK, Blocks, CodeBlocks
<1>4. IsRegistry(FunctionBlocks')
  <2>1. FunctionBlocks' = InsertOrAssign(unit[next].Name, block)
    BY DEF AddBlock
  <2> QED BY <1>3, <2>1, InsertOrAssignType DEF TraversalInv, TraversalTypeOK
<1>5. /\ visitors' = <<>> /\ visitors' \in Seq(WorkingVisitors)
      /\ visitors' \in Seq(Visitors)
  BY EmptySeq DEF AddBlock
<1>6. unit' = unit /\ next' \in 1 .. Len(unit) + 1
  BY <1>2 DEF AddBlock
<1>7. Target' \in Blocks
  BY EmptyBlockType, EmptySeq DEF AddBlock
<1> QED BY <1>2, <1>4, <1>5, <1>6, <1>7 DEF TraversalInv, TraversalTypeOK

LEMMA LeaveStep == TraversalInv /\ LeaveVisitor => TraversalInv'
<1> SUFFICES ASSUME TraversalInv, LeaveVisitor PROVE TraversalInv'
  OBVIOUS
<1>1. visitors # <<>>
  BY DEF LeaveVisitor
<1>2. visitors' \in Seq(WorkingVisitors)
  BY <1>1, VisitedType DEF LeaveVisitor
<1>3. Target' \in Blocks
  BY DEF LeaveVisitor, TraversalInv, TraversalTypeOK
<1> QED BY <1>1, <1>2, <1>3, InsideStep DEF LeaveVisitor

\* The statements that may leave an action.
LEMMA ActionStep ==
    ASSUME TraversalInv, VisitVarDecl \/ VisitBinaryOperator \/ VisitArraySubscriptExpr
                            \/ TraverseCallExpr
    PROVE  TraversalInv'
<1>1. /\ visitors # <<>> /\ Top.Statements # <<>> /\ GoOn(Top, <<>>)
      /\ UNCHANGED <<unit, next, FunctionBlocks>>
  BY DEF VisitVarDecl, VisitBinaryOperator, VisitArraySubscriptExpr, TraverseCallExpr, Visits
<1>2. Statement \in Statements /\ GetCurrentCondition \in Conditions
  BY <1>1, VisitedType, GetCurrentConditionType
<1>3. Target \in Blocks
  BY DEF TraversalInv, TraversalTypeOK
<1>4. Target' \in Blocks
  <2>1. CASE VisitVarDecl
    <3> DEFINE action == [Kind |-> "VarDeclared", If |-> GetCurrentCondition,
                          Variable |-> Statement.Variable, State |-> Statement.State]
    <3>1. action \in ProcessedActions
      BY <1>2, <2>1, StatementParts
         DEF VisitVarDecl, Visits, ProcessedActions, VarDeclaredActions
    <3>2. AddProcessedAction(action)
      BY <2>1 DEF VisitVarDecl
    <3> QED BY <1>1, <3>1, <3>2, AddActionType
  <2>2. CASE VisitBinaryOperator
    <3> DEFINE action == [Kind |-> "VarAssigned", If |-> GetCurrentCondition,
                          Variable |-> Statement.Variable, State |-> Statement.State]
    <3>1. CASE Statement.State = NotParsed
      BY <1>3, <2>2, <3>1 DEF VisitBinaryOperator
    <3>2. CASE Statement.State # NotParsed
      <4>1. action \in ProcessedActions
        BY <1>2, <2>2, <3>2, StatementParts
           DEF VisitBinaryOperator, Visits, ProcessedActions, VarAssignedActions
      <4>2. AddProcessedAction(action)
        BY <2>2, <3>2 DEF VisitBinaryOperator
      <4> QED BY <1>1, <4>1, <4>2, AddActionType
    <3> QED BY <3>1, <3>2
  <2>3. CASE VisitArraySubscriptExpr
    <3> DEFINE action == [Kind |-> "ArrayIndexAccess", If |-> GetCurrentCondition,
                          Array |-> Statement.Array, Index |-> Statement.Index]
    <3>1. action \in ProcessedActions
      BY <1>2, <2>3, StatementParts
         DEF VisitArraySubscriptExpr, Visits, ProcessedActions, ArrayIndexAccessActions
    <3>2. UNCHANGED Target \/ AddProcessedAction(action)
      BY <2>3 DEF VisitArraySubscriptExpr
    <3> QED BY <1>1, <1>3, <3>1, <3>2, AddActionType
  <2>4. CASE TraverseCallExpr
    <3> DEFINE action == [Kind |-> "FunctionCall", If |-> GetCurrentCondition,
                          Function |-> Statement.Function, Params |-> Statement.Params]
    <3>1. action \in ProcessedActions
      BY <1>2, <2>4, StatementParts
         DEF TraverseCallExpr, Visits, ProcessedActions, FunctionCallActions
    <3>2. UNCHANGED Target \/ AddProcessedAction(action)
      BY <2>4 DEF TraverseCallExpr
    <3> QED BY <1>1, <1>3, <3>1, <3>2, AddActionType
  <2> QED BY <2>1, <2>2, <2>3, <2>4
<1> QED BY <1>1, <1>4, GoOnStep

\* The branches of an if statement, of which the one behind a condition that is
\* never false is not visited.
LEMMA IfStep == TraversalInv /\ TraverseIfStmt => TraversalInv'
<1> SUFFICES ASSUME TraversalInv, TraverseIfStmt PROVE TraversalInv'
  OBVIOUS
<1> DEFINE condition == IF Statement.Condition = NotParsed
                        THEN Always ELSE When(Statement.Condition)
           negated == Negate(condition)
           Branch(guard, content) ==
               <<ConditionalContentVisitor(And(GetCurrentCondition, guard), content)>>
           then == IF negated.Tautology THEN <<>> ELSE Branch(condition, Statement.Then)
           else == IF condition.Tautology THEN <<>> ELSE Branch(negated, Statement.Else)
<1>1. /\ visitors # <<>> /\ Top.Statements # <<>> /\ GoOn(Top, then \o else)
      /\ UNCHANGED <<unit, next, Target, FunctionBlocks>>
      /\ Statement.Kind = "IfStmt"
  BY DEF TraverseIfStmt, Visits
<1>2. /\ Statement.Condition \in Leaves \cup {NotParsed}
      /\ Statement.Then \in Seq(Statements) /\ Statement.Else \in Seq(Statements)
  BY <1>1, VisitedType, StatementParts DEF ParsedConditions
<1>3. condition \in Conditions
  BY <1>2, AlwaysType, WhenType DEF Asking
<1>4. ASSUME NEW guard \in Conditions, NEW content \in Seq(Statements)
      PROVE  Branch(guard, content) \in Seq(WorkingVisitors)
  <2>1. And(GetCurrentCondition, guard) \in Conditions
    BY <1>1, AndType, GetCurrentConditionType
  <2>2. ConditionalContentVisitor(And(GetCurrentCondition, guard), content) \in WorkingVisitors
    BY <2>1, NewVisitorType DEF ConditionalContentVisitor
  <2> QED BY <2>2, Singleton
<1>5. <<>> \in Seq(WorkingVisitors)
  BY EmptySeq
<1>6. then \in Seq(WorkingVisitors)
  BY <1>2, <1>3, <1>4, <1>5
<1>7. else \in Seq(WorkingVisitors)
  <2>1. CASE condition.Tautology
    BY <1>5, <2>1
  <2>2. CASE ~condition.Tautology
    <3>1. condition \in Asking
      BY <1>3, <2>2, AlwaysType DEF Asking
    <3>2. negated \in Conditions
      BY <3>1, NegateType DEF Asking
    <3>3. Branch(negated, Statement.Else) \in Seq(WorkingVisitors)
      BY <1>2, <1>4, <3>2
    <3> QED BY <2>2, <3>3
  <2> QED BY <2>1, <2>2
<1> HIDE DEF then, else
<1>8. then \o else \in Seq(WorkingVisitors)
  BY <1>6, <1>7, ConcatProperties
<1>9. visitors' \in Seq(WorkingVisitors)
  BY <1>1, <1>8, VisitedType, GoOnType
<1>10. Target' \in Blocks
  BY <1>1 DEF TraversalInv, TraversalTypeOK
<1> QED BY <1>1, <1>9, <1>10, InsideStep

LEMMA SwitchStep == TraversalInv /\ TraverseSwitchStmt => TraversalInv'
<1> SUFFICES ASSUME TraversalInv, TraverseSwitchStmt PROVE TraversalInv'
  OBVIOUS
<1> DEFINE visitor == CaseConditionalVisitor(GetCurrentCondition, Statement.Subject,
                                             Statement.Body)
           parts == IF Statement.Subject = NotParsed THEN <<>> ELSE <<visitor>>
<1>1. /\ visitors # <<>> /\ Top.Statements # <<>> /\ GoOn(Top, parts)
      /\ UNCHANGED <<unit, next, Target, FunctionBlocks>>
      /\ Statement.Kind = "SwitchStmt"
  BY DEF TraverseSwitchStmt, Visits
<1>2. /\ Statement.Subject \in Copies \cup Primitives \cup {NotParsed}
      /\ Statement.Body \in Seq(Statements)
      /\ GetCurrentCondition \in Conditions
  BY <1>1, VisitedType, StatementParts, GetCurrentConditionType
<1>3. Statement.Subject # NotParsed => visitor \in WorkingVisitors
  BY <1>2, NewVisitorType DEF CaseConditionalVisitor
<1> HIDE DEF visitor
<1>4. parts \in Seq(WorkingVisitors)
  BY <1>3, EmptySeq, Singleton
<1> HIDE DEF parts
<1>5. visitors' \in Seq(WorkingVisitors)
  BY <1>1, <1>4, VisitedType, GoOnType
<1>6. Target' \in Blocks
  BY <1>1 DEF TraversalInv, TraversalTypeOK
<1> QED BY <1>1, <1>5, <1>6, InsideStep

LEMMA WhileStep == TraversalInv /\ TraverseWhileStmt => TraversalInv'
<1> SUFFICES ASSUME TraversalInv, TraverseWhileStmt PROVE TraversalInv'
  OBVIOUS
<1> DEFINE behind == [Top EXCEPT !.Statements = Statement.Body \o Tail(@)]
<1>1. /\ visitors # <<>> /\ Top.Statements # <<>> /\ Statement.Kind = "WhileStmt"
      /\ visitors' = <<behind>> \o Tail(visitors)
      /\ UNCHANGED <<unit, next, Target, FunctionBlocks>>
  BY DEF TraverseWhileStmt, Visits
<1>2. /\ Top \in WorkingVisitors
      /\ Tail(visitors) \in Seq(WorkingVisitors)
      /\ Statement.Body \in Seq(Statements)
      /\ Tail(Top.Statements) \in Seq(Statements)
  BY <1>1, VisitedType, StatementParts
<1>3. Statement.Body \o Tail(Top.Statements) \in Seq(Statements)
  BY <1>2, ConcatProperties
<1>4. behind \in WorkingVisitors
  BY <1>2, <1>3 DEF WorkingVisitors, Visitors
<1> HIDE DEF behind
<1>5. <<behind>> \in Seq(WorkingVisitors)
  BY <1>4, Singleton
<1>6. visitors' \in Seq(WorkingVisitors)
  BY <1>1, <1>2, <1>5, ConcatProperties
<1>7. Target' \in Blocks
  BY <1>1 DEF TraversalInv, TraversalTypeOK
<1> QED BY <1>1, <1>6, <1>7, InsideStep

\* What is in a switch changes what its visitor has collected.
LEMMA LabelStep ==
    ASSUME TraversalInv, visitors # <<>>, Top.Statements # <<>>,
           NEW visitor \in WorkingVisitors, visitor.Statements = Top.Statements,
           GoOn(visitor, <<>>), UNCHANGED <<unit, next, Target, FunctionBlocks>>
    PROVE  TraversalInv'
<1>1. <<>> \in Seq(WorkingVisitors)
  BY EmptySeq
<1>2. visitors' \in Seq(WorkingVisitors)
  BY <1>1, GoOnType
<1>3. Target' \in Blocks
  BY DEF TraversalInv, TraversalTypeOK
<1> QED BY <1>2, <1>3, InsideStep

LEMMA CaseStep == TraversalInv /\ VisitCaseStmt => TraversalInv'
<1> SUFFICES ASSUME TraversalInv, VisitCaseStmt PROVE TraversalInv'
  OBVIOUS
<1> DEFINE leaf == Leaf(Top.Subject, ComparedConstant("EQUAL", Statement.Value))
           visitor == IF Statement.Value = Unknown THEN Top
                      ELSE [Top EXCEPT
                                !.SwitchCases = @ \cup {When(leaf)},
                                !.CurrentSwitchCondition = OrSwitchCondition(@, When(leaf))]
<1>1. /\ visitors # <<>> /\ Top.Statements # <<>> /\ GoOn(visitor, <<>>)
      /\ UNCHANGED <<unit, next, Target, FunctionBlocks>>
      /\ Statement.Kind = "CaseStmt" /\ Top.Type = "Case"
  BY DEF VisitCaseStmt, Visits
<1>2. /\ Top \in WorkingVisitors
      /\ Statement.Value \in Literals
  BY <1>1, VisitedType, StatementParts
<1>3. /\ Top.Subject \in Copies \cup Primitives
      /\ Top.CurrentSwitchCondition \in Conditions
      /\ Top.SwitchCases \subseteq Asking
  BY <1>1, <1>2 DEF WorkingVisitors, Visitors
<1>4. leaf \in Leaves
  BY <1>2, <1>3 DEF Leaf, Leaves, ComparedConstant, ValueRanges, COMPARISON, Literals
<1> HIDE DEF leaf
<1>5. When(leaf) \in Asking /\ When(leaf) \in Conditions
  BY <1>4, WhenType DEF Asking
<1>6. OrSwitchCondition(Top.CurrentSwitchCondition, When(leaf)) \in Conditions
  BY <1>3, <1>5, OrSwitchConditionType
<1>7. visitor \in WorkingVisitors /\ visitor.Statements = Top.Statements
  BY <1>2, <1>3, <1>5, <1>6 DEF WorkingVisitors, Visitors, Asking
<1> HIDE DEF visitor
<1> QED BY <1>1, <1>7, LabelStep

LEMMA BreakStep == TraversalInv /\ VisitBreakStmt => TraversalInv'
<1> SUFFICES ASSUME TraversalInv, VisitBreakStmt PROVE TraversalInv'
  OBVIOUS
<1> DEFINE visitor == [Top EXCEPT !.CurrentSwitchCondition = Always]
<1>1. /\ visitors # <<>> /\ Top.Statements # <<>> /\ GoOn(visitor, <<>>)
      /\ UNCHANGED <<unit, next, Target, FunctionBlocks>>
  BY DEF VisitBreakStmt, Visits
<1>2. visitor \in WorkingVisitors /\ visitor.Statements = Top.Statements
  BY <1>1, VisitedType, AlwaysType DEF WorkingVisitors, Visitors
<1> HIDE DEF visitor
<1> QED BY <1>1, <1>2, LabelStep

LEMMA DefaultStep == TraversalInv /\ VisitDefaultStmt => TraversalInv'
<1> SUFFICES ASSUME TraversalInv, VisitDefaultStmt PROVE TraversalInv'
  OBVIOUS
<1> DEFINE visitor == [Top EXCEPT !.CurrentSwitchCondition =
                                OrSwitchCondition(@, NoneOf(Top.SwitchCases))]
<1>1. /\ visitors # <<>> /\ Top.Statements # <<>> /\ GoOn(visitor, <<>>)
      /\ UNCHANGED <<unit, next, Target, FunctionBlocks>>
  BY DEF VisitDefaultStmt, Visits
<1>2. Top \in WorkingVisitors
  BY <1>1, VisitedType
<1>3. Top.CurrentSwitchCondition \in Conditions /\ Top.SwitchCases \in SUBSET Asking
  BY <1>2 DEF WorkingVisitors, Visitors
<1>4. OrSwitchCondition(Top.CurrentSwitchCondition, NoneOf(Top.SwitchCases)) \in Conditions
  BY <1>3, NoneOfType, OrSwitchConditionType
<1>5. visitor \in WorkingVisitors /\ visitor.Statements = Top.Statements
  BY <1>2, <1>4 DEF WorkingVisitors, Visitors
<1> HIDE DEF visitor
<1> QED BY <1>1, <1>5, LabelStep

LEMMA PassOverStep == TraversalInv /\ PassOver => TraversalInv'
<1> SUFFICES ASSUME TraversalInv, PassOver PROVE TraversalInv'
  OBVIOUS
<1>1. /\ visitors # <<>> /\ Top.Statements # <<>> /\ GoOn(Top, <<>>)
      /\ UNCHANGED <<unit, next, Target, FunctionBlocks>>
  BY DEF PassOver, Visits
<1>2. Top \in WorkingVisitors
  BY <1>1, VisitedType
<1> QED BY <1>1, <1>2, LabelStep

LEMMA ParameterStep == TraversalInv /\ VisitParmVarDecl => TraversalInv'
<1> SUFFICES ASSUME TraversalInv, VisitParmVarDecl PROVE TraversalInv'
  OBVIOUS
<1>1. /\ visitors # <<>> /\ Top.Statements # <<>> /\ GoOn(Top, <<>>)
      /\ UNCHANGED <<unit, next, FunctionBlocks>>
      /\ Statement.Kind = "FunctionDecl"
  BY DEF VisitParmVarDecl, Visits
<1>2. /\ Target \in Blocks /\ Target.Parameters \in Seq(Vars)
      /\ Statement.Parameters \in Seq(Vars)
  BY <1>1, VisitedType, StatementParts DEF TraversalInv, TraversalTypeOK, Blocks
<1>3. Target.Parameters \o Statement.Parameters \in Seq(Vars)
  BY <1>2, ConcatProperties
<1>4. Target' \in Blocks
  BY <1>2, <1>3 DEF VisitParmVarDecl, Blocks
<1> QED BY <1>1, <1>4, GoOnStep

LEMMA TraverseInv == TraversalInv /\ TraverseDecl => TraversalInv'
BY FunctionStep, AddBlockStep, LeaveStep, ActionStep, IfStep, SwitchStep, WhileStep,
   CaseStep, BreakStep, DefaultStep, PassOverStep, ParameterStep DEF TraverseDecl

LEMMA TraversalStutters ==
    ASSUME TraversalInv, UNCHANGED traversalVars
    PROVE  TraversalInv'
BY DEF TraversalInv, TraversalTypeOK, traversalVars

----------------------------------------------------------------------------
(* The theorems.                                                           *)

THEOREM TraversalInvariance == Traversal => []TraversalInv
<1>1. TraversalInv /\ [TraverseDecl \/ TraversalOver]_traversalVars => TraversalInv'
  BY TraverseInv, TraversalStutters DEF TraversalOver
<1> QED BY <1>1, InitTraversalInv, PTL DEF Traversal

\* Whatever a unit's functions look like, the visitors only leave well-formed
\* blocks: each action has a condition that can be evaluated, although switches,
\* labels and branches combine and negate them at every depth.
THEOREM TraversalTypeCorrect == Traversal => []TraversalTypeOK
<1>1. TraversalInv => TraversalTypeOK
  BY DEF TraversalInv
<1> QED BY <1>1, TraversalInvariance, PTL

----------------------------------------------------------------------------
(* Statements inside of statements.                                        *)

PartsOf(statements) ==
    UNION {UNION {ToSet(part) : part \in ToSet(Parts(s))} : s \in statements}

LEMMA ElementsType ==
    ASSUME NEW S, NEW s \in Seq(S)
    PROVE  /\ ToSet(s) \subseteq S
           /\ \A i \in DOMAIN s : s[i] \in ToSet(s)
           /\ DOMAIN s = 1 .. Len(s) /\ Len(s) \in Nat
           /\ \A x \in ToSet(s) : \E i \in DOMAIN s : x = s[i]
<1>1. DOMAIN s = 1 .. Len(s) /\ Len(s) \in Nat
  BY LenProperties
<1>2. \A i \in 1 .. Len(s) : s[i] \in S
  BY ElementOfSeq
<1> QED BY <1>1, <1>2 DEF ToSet

LEMMA PartsType ==
    ASSUME NEW s \in Statements
    PROVE  /\ s.Kind = "IfStmt" => ToSet(Parts(s)) = {s.Then, s.Else}
           /\ s.Kind \in {"SwitchStmt", "WhileStmt"} => ToSet(Parts(s)) = {s.Body}
           /\ s.Kind \notin {"IfStmt", "SwitchStmt", "WhileStmt"} => ToSet(Parts(s)) = {}
           /\ \A part \in ToSet(Parts(s)) : part \in Seq(Statements)
<1>1. \A x, y : ToSet(<<x, y>>) = {x, y}
  <2> TAKE x, y
  <2>1. DOMAIN <<x, y>> = {1, 2} /\ <<x, y>>[1] = x /\ <<x, y>>[2] = y
    OBVIOUS
  <2> HIDE DEF ToSet
  <2> DEFINE pair == <<x, y>>
  <2> HIDE DEF pair
  <2>2. {pair[i] : i \in {1, 2}} = {pair[1], pair[2]}
    OBVIOUS
  <2> QED BY <2>1, <2>2 DEF ToSet, pair
<1>2. \A x : ToSet(<<x>>) = {x}
  BY DEF ToSet
<1>3. ToSet(<<>>) = {}
  BY DEF ToSet
<1>4. CASE s.Kind = "IfStmt"
  <2>1. Parts(s) = <<s.Then, s.Else>>
    BY <1>4 DEF Parts
  <2> QED BY <1>1, <1>4, <2>1, StatementParts
<1>5. CASE s.Kind \in {"SwitchStmt", "WhileStmt"}
  <2>1. Parts(s) = <<s.Body>>
    BY <1>5 DEF Parts
  <2> QED BY <1>2, <1>5, <2>1, StatementParts
<1>6. CASE s.Kind \notin {"IfStmt", "SwitchStmt", "WhileStmt"}
  <2>1. Parts(s) = <<>>
    BY <1>6 DEF Parts
  <2> QED BY <1>3, <1>6, <2>1
<1> QED BY <1>4, <1>5, <1>6

LEMMA PartsOfType ==
    ASSUME NEW S \in SUBSET Statements
    PROVE  PartsOf(S) \in SUBSET Statements
<1>1. ASSUME NEW s \in S, NEW part \in ToSet(Parts(s)) PROVE ToSet(part) \subseteq Statements
  <2>1. part \in Seq(Statements)
    BY PartsType
  <2> QED BY <2>1, ElementsType
<1> QED BY <1>1 DEF PartsOf

\* Each level has what is directly in the statements of the one above.
LEMMA LevelSteps ==
    ASSUME NEW body \in Seq(Statements)
    PROVE  /\ StatementsAt(body) \in [Nat -> SUBSET Statements]
           /\ StatementsAt(body)[0] = ToSet(body)
           /\ \A n \in Nat : StatementsAt(body)[n + 1] = PartsOf(StatementsAt(body)[n])
<1> DEFINE X == SUBSET Statements
           base == ToSet(body)
           step == [n \in Nat |-> [S \in X |-> PartsOf(S)]]
           IsLevel(level) ==
                level = [n \in Nat |-> IF n = 0 THEN ToSet(body) ELSE PartsOf(level[n - 1])]
<1>1. base \in X
  BY ElementsType
<1>2. step \in [Nat -> [X -> X]]
  BY PartsOfType
<1>3. \A n \in Nat : \A S \in X : step[n][S] = PartsOf(S)
  OBVIOUS
<1> HIDE DEF X, base, step, IsLevel
<1>4. PICK f \in [Nat -> X] : f[0] = base /\ \A n \in Nat : f[n + 1] = step[n][f[n]]
  <2>1. \E f \in [Nat -> X] : IsRecursiveOver(f, base, step)
    BY <1>1, <1>2, Recursion
  <2> QED BY <2>1 DEF IsRecursiveOver
<1>5. IsLevel(f)
  <2>1. ASSUME NEW n \in Nat, n # 0 PROVE f[n] = PartsOf(f[n - 1])
    <3>1. n - 1 \in Nat /\ (n - 1) + 1 = n
      BY <2>1
    <3> QED BY <1>3, <1>4, <3>1
  <2>2. \A n \in Nat : f[n] = IF n = 0 THEN ToSet(body) ELSE PartsOf(f[n - 1])
    BY <1>4, <2>1 DEF base
  <2>3. f = [n \in Nat |-> f[n]]
    BY <1>4
  <2> QED BY <2>2, <2>3 DEF IsLevel
<1>6. StatementsAt(body) = CHOOSE level : IsLevel(level)
  BY DEF StatementsAt, PartsOf, IsLevel
<1>7. IsLevel(StatementsAt(body))
  BY <1>5, <1>6
<1> DEFINE level == StatementsAt(body)
<1> HIDE DEF level
<1>8. /\ level[0] = ToSet(body)
      /\ \A n \in Nat : level[n + 1] = PartsOf(level[n])
      /\ level = [n \in Nat |-> level[n]]
  <2>1. level = [n \in Nat |-> IF n = 0 THEN ToSet(body) ELSE PartsOf(level[n - 1])]
    BY <1>7 DEF level, IsLevel
  <2>2. \A n \in Nat : level[n] = IF n = 0 THEN ToSet(body) ELSE PartsOf(level[n - 1])
    BY <2>1
  <2>3. \A n \in Nat : n + 1 \in Nat /\ n + 1 # 0 /\ (n + 1) - 1 = n
    OBVIOUS
  <2> QED BY <2>1, <2>2, <2>3
<1>9. \A n \in Nat : level[n] \in X
  <2> DEFINE Typed == {n \in Nat : level[n] \in X}
  <2>1. 0 \in Typed
    BY <1>1, <1>8 DEF base
  <2>2. \A n \in Nat : n \in Typed => n + 1 \in Typed
    <3> SUFFICES ASSUME NEW n \in Nat, level[n] \in SUBSET Statements
                 PROVE  n + 1 \in Nat /\ level[n + 1] \in SUBSET Statements
      BY DEF X
    <3>1. level[n + 1] = PartsOf(level[n])
      BY <1>8
    <3> QED BY <3>1, PartsOfType
  <2> HIDE DEF Typed
  <2>3. Nat \subseteq Typed
    BY <2>1, <2>2, Induction
  <2> QED BY <2>3 DEF Typed
<1> QED BY <1>8, <1>9 DEF level, X

\* What is below statements of a level is on the levels below it.
LEMMA LevelsBelow ==
    ASSUME NEW body \in Seq(Statements), NEW inner \in Seq(Statements), NEW m \in Nat,
           ToSet(inner) \subseteq StatementsAt(body)[m]
    PROVE  \A n \in Nat : StatementsAt(inner)[n] \subseteq StatementsAt(body)[m + n]
<1> DEFINE Below == {n \in Nat : StatementsAt(inner)[n] \subseteq StatementsAt(body)[m + n]}
<1>1. 0 \in Below
  <2>1. m + 0 = m
    OBVIOUS
  <2>2. StatementsAt(inner)[0] = ToSet(inner)
    BY LevelSteps
  <2> QED BY <2>1, <2>2
<1>2. ASSUME NEW n \in Nat, n \in Below PROVE n + 1 \in Below
  <2>4. m + n \in Nat
    OBVIOUS
  <2>1. /\ StatementsAt(inner)[n + 1] = PartsOf(StatementsAt(inner)[n])
        /\ StatementsAt(body)[(m + n) + 1] = PartsOf(StatementsAt(body)[m + n])
    BY <2>4, LevelSteps
  <2>2. PartsOf(StatementsAt(inner)[n]) \subseteq PartsOf(StatementsAt(body)[m + n])
    BY <1>2 DEF PartsOf
  <2>3. (m + n) + 1 = m + (n + 1)
    OBVIOUS
  <2> QED BY <2>1, <2>2, <2>3
<1> HIDE DEF Below
<1>3. Nat \subseteq Below
  BY <1>1, <1>2, Induction
<1> QED BY <1>3 DEF Below

\* A body whose statements can all be found.
IsNested(body) == body \in Seq(Statements) /\ IsWithinNesting(body)

LEMMA NothingBelow ==
    ASSUME NEW body, IsNested(body)
    PROVE  \A n \in Nat : n > MaxNesting => StatementsAt(body)[n] = {}
<1>1. body \in Seq(Statements) /\ StatementsAt(body)[MaxNesting + 1] = {} /\ MaxNesting \in Nat
  BY MaxNestingAssumption DEF IsNested, IsWithinNesting
<1> DEFINE Nothing == {n \in Nat : StatementsAt(body)[MaxNesting + 1 + n] = {}}
<1>2. 0 \in Nothing
  BY <1>1
<1>3. ASSUME NEW n \in Nat, n \in Nothing PROVE n + 1 \in Nothing
  <2>1. /\ MaxNesting + 1 + n \in Nat
        /\ MaxNesting + 1 + (n + 1) = (MaxNesting + 1 + n) + 1
    BY <1>1
  <2>2. StatementsAt(body)[(MaxNesting + 1 + n) + 1] = PartsOf({})
    BY <1>1, <1>3, <2>1, LevelSteps
  <2> QED BY <2>1, <2>2 DEF PartsOf
<1> HIDE DEF Nothing
<1>4. Nat \subseteq Nothing
  BY <1>2, <1>3, Induction
<1>5. ASSUME NEW n \in Nat, n > MaxNesting PROVE StatementsAt(body)[n] = {}
  <2>1. n - MaxNesting - 1 \in Nat /\ MaxNesting + 1 + (n - MaxNesting - 1) = n
    BY <1>1, <1>5
  <2> QED BY <1>4, <2>1 DEF Nothing
<1> QED BY <1>5

\* The statements in a body are those of every level.
LEMMA StatementsInMeaning ==
    ASSUME NEW body, IsNested(body)
    PROVE  /\ \A s : s \in StatementsIn(body) <=> \E n \in Nat : s \in StatementsAt(body)[n]
           /\ StatementsIn(body) \subseteq Statements
           /\ ToSet(body) \subseteq StatementsIn(body)
<1>1. \A n \in Nat : n > MaxNesting => StatementsAt(body)[n] = {}
  BY NothingBelow
<1>2. MaxNesting \in Nat /\ \A n \in Nat : n \in 0 .. MaxNesting \/ n > MaxNesting
  BY MaxNestingAssumption
<1>3. /\ StatementsAt(body) \in [Nat -> SUBSET Statements]
      /\ StatementsAt(body)[0] = ToSet(body)
  BY LevelSteps DEF IsNested
<1>4. \A s : s \in StatementsIn(body) <=> \E n \in Nat : s \in StatementsAt(body)[n]
  BY <1>1, <1>2 DEF StatementsIn
<1> QED BY <1>3, <1>4

\* Everything in a part of a body is in the body.
LEMMA NestedPart ==
    ASSUME NEW body, IsNested(body), NEW inner \in Seq(Statements), NEW m \in Nat,
           ToSet(inner) \subseteq StatementsAt(body)[m]
    PROVE  IsNested(inner) /\ StatementsIn(inner) \subseteq StatementsIn(body)
<1>1. body \in Seq(Statements) /\ MaxNesting \in Nat
  BY MaxNestingAssumption DEF IsNested
<1>2. \A n \in Nat : StatementsAt(inner)[n] \subseteq StatementsAt(body)[m + n]
  BY <1>1, LevelsBelow
<1>3. StatementsAt(body)[m + (MaxNesting + 1)] = {}
  BY <1>1, NothingBelow
<1>4. IsNested(inner)
  <2>1. MaxNesting + 1 \in Nat
    BY <1>1
  <2>2. StatementsAt(inner)[MaxNesting + 1] \subseteq StatementsAt(body)[m + (MaxNesting + 1)]
    BY <1>2, <2>1
  <2>3. StatementsAt(inner)[MaxNesting + 1] = {}
    BY <1>3, <2>2
  <2> QED BY <2>3 DEF IsNested, IsWithinNesting
<1>5. ASSUME NEW s \in StatementsIn(inner) PROVE s \in StatementsIn(body)
  <2>1. PICK n \in Nat : s \in StatementsAt(inner)[n]
    BY <1>4, StatementsInMeaning
  <2>2. m + n \in Nat /\ s \in StatementsAt(body)[m + n]
    BY <1>2, <2>1
  <2> QED BY <2>2, StatementsInMeaning
<1> QED BY <1>4, <1>5

LEMMA StatementNested ==
    ASSUME NEW body, IsNested(body), NEW s \in StatementsIn(body)
    PROVE  /\ s \in Statements
           /\ IsNested(<<s>>) /\ s \in StatementsIn(<<s>>)
           /\ StatementsIn(<<s>>) \subseteq StatementsIn(body)
           /\ \A part \in ToSet(Parts(s)) :
                /\ IsNested(part)
                /\ StatementsIn(part) \subseteq StatementsIn(<<s>>)
                /\ \A t \in ToSet(part) : t \in StatementsIn(part)
<1>1. s \in Statements /\ <<s>> \in Seq(Statements) /\ ToSet(<<s>>) = {s}
  BY StatementsInMeaning DEF ToSet
<1>2. PICK m \in Nat : s \in StatementsAt(body)[m]
  BY StatementsInMeaning
<1>3. IsNested(<<s>>) /\ StatementsIn(<<s>>) \subseteq StatementsIn(body)
  BY <1>1, <1>2, NestedPart, ZenonT(40)
<1>4. s \in StatementsIn(<<s>>)
  BY <1>1, <1>3, StatementsInMeaning
<1>5. ASSUME NEW part \in ToSet(Parts(s))
      PROVE  /\ IsNested(part)
             /\ StatementsIn(part) \subseteq StatementsIn(<<s>>)
             /\ \A t \in ToSet(part) : t \in StatementsIn(part)
  <2>1. part \in Seq(Statements)
    BY <1>1, PartsType
  <2>2. StatementsAt(<<s>>)[0] = {s} /\ StatementsAt(<<s>>)[1] = PartsOf({s})
    <3>1. 0 \in Nat /\ 0 + 1 = 1
      OBVIOUS
    <3> QED BY <1>1, <3>1, LevelSteps
  <2>3. ToSet(part) \subseteq StatementsAt(<<s>>)[1] /\ 1 \in Nat
    BY <2>2 DEF PartsOf
  <2>4. IsNested(part) /\ StatementsIn(part) \subseteq StatementsIn(<<s>>)
    BY <1>3, <2>1, <2>3, NestedPart
  <2> QED BY <2>4, StatementsInMeaning
<1> QED BY <1>1, <1>3, <1>4, <1>5

----------------------------------------------------------------------------
(* Runs.                                                                   *)

AllRuns == [Trace : Seq(Nat), Ends : {"falls", "breaks", "returns"}]

LEMMA RunType ==
    ASSUME NEW trace \in Seq(Nat), NEW ends \in {"falls", "breaks", "returns"}
    PROVE  /\ Run(trace, ends) \in AllRuns
           /\ Run(trace, ends).Trace = trace /\ Run(trace, ends).Ends = ends
BY DEF Run, AllRuns

LEMMA LeaveStatementType ==
    ASSUME NEW run \in AllRuns
    PROVE  LeaveStatement(run) \in AllRuns /\ LeaveStatement(run).Trace = run.Trace
BY DEF LeaveStatement, Run, AllRuns

\* What is left of a body from one of its statements on.
LEMMA RestOfBody ==
    ASSUME NEW body \in Seq(Statements), NEW i \in 1 .. Len(body) + 1
    PROVE  /\ SubSeq(body, i, Len(body)) \in Seq(Statements)
           /\ Len(SubSeq(body, i, Len(body))) = Len(body) + 1 - i
           /\ \A j \in 1 .. Len(body) + 1 - i :
                /\ i + j - 1 \in 1 .. Len(body)
                /\ SubSeq(body, i, Len(body))[j] = body[i + j - 1]
<1>1. Len(body) \in Nat /\ i \in Nat /\ \A k \in i .. Len(body) : body[k] \in Statements
  BY LenProperties, ElementOfSeq
<1>2. /\ SubSeq(body, i, Len(body)) \in Seq(Statements)
      /\ Len(SubSeq(body, i, Len(body))) =
            IF i <= Len(body) THEN Len(body) - i + 1 ELSE 0
      /\ \A j \in 1 .. Len(body) - i + 1 : SubSeq(body, i, Len(body))[j] = body[i + j - 1]
  BY <1>1, SubSeqProperties
<1> QED BY <1>1, <1>2

LEMMA EntriesType ==
    ASSUME NEW body \in Seq(Statements), NEW subject, NEW env
    PROVE  Entries(body, subject, env) \subseteq 1 .. Len(body) + 1
<1>1. DOMAIN body = 1 .. Len(body) /\ Len(body) \in Nat
  BY LenProperties
<1> QED BY <1>1 DEF Entries

\* The runs by the kind of the statement.
LEMMA RunsOfSwitch ==
    ASSUME NEW s, NEW env, NEW inner, s.Kind = "SwitchStmt"
    PROVE  RunsOfStatement(s, env, inner) =
                {LeaveStatement(run) : run \in
                    UNION {inner[SubSeq(s.Body, i, Len(s.Body))] :
                                i \in Entries(s.Body, s.Subject, env)}}
BY DEF RunsOfStatement

LEMMA RunsOfWhile ==
    ASSUME NEW s, NEW env, NEW inner, s.Kind = "WhileStmt"
    PROVE  RunsOfStatement(s, env, inner) =
                {Run(<<>>, "falls")} \cup {LeaveStatement(run) : run \in inner[s.Body]}
BY DEF RunsOfStatement

LEMMA RunsOfBreak ==
    ASSUME NEW s, NEW env, NEW inner, s.Kind = "BreakStmt"
    PROVE  RunsOfStatement(s, env, inner) = {Run(<<>>, "breaks")}
BY DEF RunsOfStatement

LEMMA RunsOfReturn ==
    ASSUME NEW s, NEW env, NEW inner, s.Kind = "ReturnStmt"
    PROVE  RunsOfStatement(s, env, inner) = {Run(<<>>, "returns")}
BY DEF RunsOfStatement

LEMMA RunsOfOther ==
    ASSUME NEW s, NEW env, NEW inner,
           s.Kind \notin {"IfStmt", "SwitchStmt", "WhileStmt", "BreakStmt", "ReturnStmt"}
    PROVE  RunsOfStatement(s, env, inner) =
                {Run(IF Recorded(s) THEN <<s.At>> ELSE <<>>, "falls")}
BY DEF RunsOfStatement

LEMMA StatementRunsType ==
    ASSUME NEW s \in Statements, NEW env, NEW inner \in [Bodies -> SUBSET AllRuns]
    PROVE  RunsOfStatement(s, env, inner) \in SUBSET AllRuns
<1>1. \A body \in Seq(Statements) : inner[body] \subseteq AllRuns
  BY DEF Bodies
<1>2. <<>> \in Seq(Nat)
  BY EmptySeq
<1>3. CASE s.Kind = "IfStmt"
  <2>1. inner[s.Then] \subseteq AllRuns /\ inner[s.Else] \subseteq AllRuns
    BY <1>1, <1>3, StatementParts
  <2> QED BY <1>3, <2>1 DEF RunsOfStatement
<1>4. CASE s.Kind = "SwitchStmt"
  <2>1. s.Body \in Seq(Statements)
    BY <1>4, StatementParts
  <2>2. \A i \in Entries(s.Body, s.Subject, env) :
            inner[SubSeq(s.Body, i, Len(s.Body))] \subseteq AllRuns
    BY <1>1, <2>1, EntriesType, RestOfBody
  <2>3. \A run \in UNION {inner[SubSeq(s.Body, i, Len(s.Body))] :
                                i \in Entries(s.Body, s.Subject, env)} :
            LeaveStatement(run) \in AllRuns
    BY <2>2, LeaveStatementType
  <2> QED BY <1>4, <2>3, RunsOfSwitch
<1>5. CASE s.Kind = "WhileStmt"
  <2>1. \A run \in inner[s.Body] : LeaveStatement(run) \in AllRuns
    BY <1>1, <1>5, StatementParts, LeaveStatementType
  <2>2. Run(<<>>, "falls") \in AllRuns
    BY <1>2, RunType
  <2> QED BY <1>5, <2>1, <2>2, RunsOfWhile
<1>6. CASE s.Kind \in {"BreakStmt", "ReturnStmt"}
  <2>1. Run(<<>>, "breaks") \in AllRuns /\ Run(<<>>, "returns") \in AllRuns
    BY <1>2, RunType
  <2> QED BY <1>6, <2>1, RunsOfBreak, RunsOfReturn
<1>7. CASE s.Kind \notin {"IfStmt", "SwitchStmt", "WhileStmt", "BreakStmt", "ReturnStmt"}
  <2> DEFINE trace == IF Recorded(s) THEN <<s.At>> ELSE <<>>
  <2>1. <<s.At>> \in Seq(Nat)
    BY StatementParts
  <2>2. trace \in Seq(Nat)
    BY <1>2, <2>1
  <2>3. RunsOfStatement(s, env, inner) = {Run(trace, "falls")}
    BY <1>7, RunsOfOther
  <2> HIDE DEF trace
  <2> QED BY <2>2, <2>3, RunType
<1> QED BY <1>3, <1>4, <1>5, <1>6, <1>7

LEMMA ExtendedType ==
    ASSUME NEW run \in AllRuns, NEW continuations \in SUBSET AllRuns
    PROVE  Extended(run, continuations) \in SUBSET AllRuns
<1>1. \A more \in continuations : Run(run.Trace \o more.Trace, more.Ends) \in AllRuns
  <2> TAKE more \in continuations
  <2>1. run.Trace \in Seq(Nat) /\ more.Trace \in Seq(Nat)
        /\ more.Ends \in {"falls", "breaks", "returns"}
    BY DEF AllRuns
  <2>2. run.Trace \o more.Trace \in Seq(Nat)
    BY <2>1, ConcatProperties
  <2> QED BY <2>1, <2>2, RunType
<1> QED BY <1>1 DEF Extended

\* The runs of a sequence, one statement after the other.
RunsThrough(s, env, inner, runs) ==
    UNION {Extended(run, RunsOfStatement(s, env, inner)) : run \in runs}

LEMMA RunsThroughType ==
    ASSUME NEW s \in Statements, NEW env, NEW inner \in [Bodies -> SUBSET AllRuns],
           NEW runs \in SUBSET AllRuns
    PROVE  RunsThrough(s, env, inner, runs) \in SUBSET AllRuns
BY StatementRunsType, ExtendedType DEF RunsThrough

LEMMA UpToSteps ==
    ASSUME NEW body \in Seq(Statements), NEW env, NEW inner \in [Bodies -> SUBSET AllRuns]
    PROVE  /\ RunsUpTo(body, env, inner)[0] = {Run(<<>>, "falls")}
           /\ \A i \in 1 .. Len(body) :
                RunsUpTo(body, env, inner)[i] =
                    RunsThrough(body[i], env, inner, RunsUpTo(body, env, inner)[i - 1])
           /\ \A i \in 0 .. Len(body) : RunsUpTo(body, env, inner)[i] \in SUBSET AllRuns
<1> DEFINE X == SUBSET AllRuns
           base == {Run(<<>>, "falls")}
           step == [n \in Nat |-> [runs \in X |->
                        IF n + 1 <= Len(body) THEN RunsThrough(body[n + 1], env, inner, runs)
                        ELSE runs]]
           IsUpTo(upTo) ==
                upTo = [i \in 0 .. Len(body) |->
                            IF i = 0 THEN {Run(<<>>, "falls")}
                            ELSE RunsThrough(body[i], env, inner, upTo[i - 1])]
<1>1. Len(body) \in Nat /\ \A i \in 1 .. Len(body) : body[i] \in Statements
  BY LenProperties, ElementOfSeq
<1>2. base \in X
  BY EmptySeq, RunType, ZenonT(40)
<1>3. step \in [Nat -> [X -> X]]
  <2> SUFFICES ASSUME NEW n \in Nat, NEW runs \in X, n + 1 <= Len(body)
               PROVE  RunsThrough(body[n + 1], env, inner, runs) \in X
    OBVIOUS
  <2>1. n + 1 \in 1 .. Len(body)
    BY <1>1
  <2> QED BY <1>1, <2>1, RunsThroughType
<1>4. \A n \in Nat : \A runs \in X : n + 1 <= Len(body) =>
            step[n][runs] = RunsThrough(body[n + 1], env, inner, runs)
  OBVIOUS
<1> HIDE DEF X, base, step, IsUpTo
<1>5. PICK f \in [Nat -> X] : IsRecursiveOver(f, base, step)
  BY <1>2, <1>3, Recursion
<1>6. f[0] = base /\ \A n \in Nat : f[n + 1] = step[n][f[n]]
  BY <1>5 DEF IsRecursiveOver
<1> DEFINE g == [i \in 0 .. Len(body) |-> f[i]]
<1>7. ASSUME NEW i \in 1 .. Len(body)
      PROVE  f[i] = RunsThrough(body[i], env, inner, f[i - 1])
  <2>1. i - 1 \in Nat /\ (i - 1) + 1 = i /\ i <= Len(body)
    BY <1>1
  <2>2. f[i - 1] \in X
    BY <2>1
  <2>3. step[i - 1][f[i - 1]] = RunsThrough(body[(i - 1) + 1], env, inner, f[i - 1])
    BY <1>4, <2>1, <2>2
  <2>4. f[(i - 1) + 1] = step[i - 1][f[i - 1]]
    BY <1>6, <2>1
  <2> QED BY <2>1, <2>3, <2>4
<1>8. IsUpTo(g)
  <2>1. \A i \in 0 .. Len(body) : i # 0 => i \in 1 .. Len(body) /\ i - 1 \in 0 .. Len(body)
    BY <1>1
  <2>2. \A i \in 0 .. Len(body) :
            g[i] = IF i = 0 THEN {Run(<<>>, "falls")}
                   ELSE RunsThrough(body[i], env, inner, g[i - 1])
    BY <1>6, <1>7, <2>1 DEF base
  <2>3. g = [i \in 0 .. Len(body) |-> g[i]]
    OBVIOUS
  <2> HIDE DEF g
  <2> QED BY <2>2, <2>3 DEF IsUpTo
<1>9. RunsUpTo(body, env, inner) = CHOOSE upTo : IsUpTo(upTo)
  BY DEF RunsUpTo, RunsThrough, IsUpTo
<1> DEFINE upTo == RunsUpTo(body, env, inner)
<1>10. IsUpTo(upTo)
  <2> HIDE DEF g
  <2> QED BY <1>8, <1>9
<1> HIDE DEF upTo
<1>11. \A i \in 0 .. Len(body) :
            upTo[i] = IF i = 0 THEN {Run(<<>>, "falls")}
                      ELSE RunsThrough(body[i], env, inner, upTo[i - 1])
  BY <1>10 DEF IsUpTo
<1>12. \A i \in 1 .. Len(body) : i \in 0 .. Len(body) /\ i # 0
  BY <1>1
<1>13. 0 \in 0 .. Len(body)
  BY <1>1
<1>14. \A i \in 0 .. Len(body) : upTo[i] \in X
  <2> DEFINE Typed == {i \in Nat : i \in 0 .. Len(body) => upTo[i] \in X}
  <2>1. 0 \in Typed
    BY <1>2, <1>11, <1>13 DEF base
  <2>2. ASSUME NEW n \in Nat, n \in Typed PROVE n + 1 \in Typed
    <3> SUFFICES ASSUME n + 1 \in 0 .. Len(body) PROVE upTo[n + 1] \in X
      OBVIOUS
    <3>1. n \in 0 .. Len(body) /\ n + 1 # 0 /\ (n + 1) - 1 = n /\ n + 1 \in 1 .. Len(body)
      BY <1>1
    <3>2. upTo[n + 1] = RunsThrough(body[n + 1], env, inner, upTo[n])
      BY <1>11, <3>1
    <3>3. upTo[n] \in X /\ body[n + 1] \in Statements
      BY <1>1, <2>2, <3>1
    <3> QED BY <3>2, <3>3, RunsThroughType DEF X
  <2> HIDE DEF Typed
  <2>3. Nat \subseteq Typed
    BY <2>1, <2>2, Induction
  <2> QED BY <1>1, <2>3 DEF Typed
<1> QED BY <1>11, <1>12, <1>13, <1>14 DEF upTo, X

LEMMA NestedSteps ==
    ASSUME NEW env
    PROVE  /\ RunsNested(env) \in [Nat -> [Bodies -> SUBSET AllRuns]]
           /\ \A body \in Bodies : RunsNested(env)[0][body] = {}
           /\ \A n \in Nat : \A body \in Bodies :
                RunsNested(env)[n + 1][body] = RunsUpTo(body, env, RunsNested(env)[n])[Len(body)]
<1> DEFINE X == [Bodies -> SUBSET AllRuns]
           base == [body \in Bodies |-> {}]
           step == [n \in Nat |-> [inner \in X |->
                        [body \in Bodies |-> RunsUpTo(body, env, inner)[Len(body)]]]]
           IsNestedRuns(runs) ==
                runs = [n \in Nat |-> [body \in Bodies |->
                            IF n = 0 THEN {} ELSE RunsUpTo(body, env, runs[n - 1])[Len(body)]]]
<1>1. base \in X
  OBVIOUS
<1>2. step \in [Nat -> [X -> X]]
  <2> SUFFICES ASSUME NEW inner \in X, NEW body \in Bodies
               PROVE  RunsUpTo(body, env, inner)[Len(body)] \in SUBSET AllRuns
    OBVIOUS
  <2>1. body \in Seq(Statements) /\ Len(body) \in 0 .. Len(body)
    BY LenProperties DEF Bodies
  <2> QED BY <2>1, UpToSteps
<1>3. \A n \in Nat : \A inner \in X :
            step[n][inner] = [body \in Bodies |-> RunsUpTo(body, env, inner)[Len(body)]]
  OBVIOUS
<1> HIDE DEF X, step, IsNestedRuns
<1>4. PICK f \in [Nat -> X] : IsRecursiveOver(f, base, step)
  <2> HIDE DEF base
  <2> QED BY <1>1, <1>2, Recursion
<1>5. f[0] = base /\ \A n \in Nat : f[n + 1] = step[n][f[n]]
  BY <1>4 DEF IsRecursiveOver
<1>6. ASSUME NEW n \in Nat
      PROVE  f[n + 1] = [body \in Bodies |-> RunsUpTo(body, env, f[n])[Len(body)]]
  <2>1. f[n] \in X /\ f[n + 1] = step[n][f[n]]
    BY <1>5
  <2> QED BY <1>3, <2>1
<1>7. IsNestedRuns(f)
  <2>1. ASSUME NEW n \in Nat
        PROVE  f[n] = [body \in Bodies |->
                        IF n = 0 THEN {} ELSE RunsUpTo(body, env, f[n - 1])[Len(body)]]
    <3>1. CASE n = 0
      BY <1>5, <3>1
    <3>2. CASE n # 0
      <4>1. n - 1 \in Nat /\ (n - 1) + 1 = n
        BY <3>2
      <4>2. f[n] = [body \in Bodies |-> RunsUpTo(body, env, f[n - 1])[Len(body)]]
        BY <1>6, <4>1
      <4> QED BY <3>2, <4>2
    <3> QED BY <3>1, <3>2
  <2>2. f = [n \in Nat |-> f[n]]
    OBVIOUS
  <2> QED BY <2>1, <2>2 DEF IsNestedRuns
<1>8. RunsNested(env) = CHOOSE runs : IsNestedRuns(runs)
  BY DEF RunsNested, IsNestedRuns
<1>9. IsNestedRuns(RunsNested(env))
  BY <1>7, <1>8
<1> DEFINE runs == RunsNested(env)
<1> HIDE DEF runs
<1>10. /\ runs = [n \in Nat |-> runs[n]]
       /\ \A n \in Nat : runs[n] = [body \in Bodies |->
                IF n = 0 THEN {} ELSE RunsUpTo(body, env, runs[n - 1])[Len(body)]]
  BY <1>9 DEF runs, IsNestedRuns
<1>11. runs[0] = base
  BY <1>10
<1>12. ASSUME NEW n \in Nat
       PROVE  runs[n + 1] = [body \in Bodies |-> RunsUpTo(body, env, runs[n])[Len(body)]]
  <2>1. n + 1 \in Nat /\ n + 1 # 0 /\ (n + 1) - 1 = n
    OBVIOUS
  <2> QED BY <1>10, <2>1
<1>13. \A n \in Nat : runs[n] \in X
  <2> DEFINE Typed == {n \in Nat : runs[n] \in X}
  <2>1. 0 \in Typed
    BY <1>1, <1>11
  <2>2. ASSUME NEW n \in Nat, n \in Typed PROVE n + 1 \in Typed
    <3>1. \A body \in Bodies : RunsUpTo(body, env, runs[n])[Len(body)] \in SUBSET AllRuns
      <4> TAKE body \in Bodies
      <4>1. body \in Seq(Statements) /\ Len(body) \in 0 .. Len(body)
        BY LenProperties DEF Bodies
      <4> QED BY <2>2, <4>1, UpToSteps DEF X
    <3>2. [body \in Bodies |-> RunsUpTo(body, env, runs[n])[Len(body)]] \in X
      BY <3>1 DEF X
    <3>3. n + 1 \in Nat /\ runs[n + 1] \in X
      BY <1>12, <3>2
    <3> QED BY <3>3
  <2> HIDE DEF Typed
  <2>3. Nat \subseteq Typed
    BY <2>1, <2>2, Induction
  <2> QED BY <2>3 DEF Typed
<1>14. runs \in [Nat -> X]
  <2>1. [n \in Nat |-> runs[n]] \in [Nat -> X]
    BY <1>13
  <2> QED BY <1>10, <2>1
<1>15. \A body \in Bodies : runs[0][body] = {}
  BY <1>11
<1>16. \A n \in Nat : \A body \in Bodies :
            runs[n + 1][body] = RunsUpTo(body, env, runs[n])[Len(body)]
  BY <1>12
<1> QED BY <1>14, <1>15, <1>16 DEF runs, X

----------------------------------------------------------------------------
(* Where runs come.                                                        *)

\* A run of the statement, with less than n bodies around it, has this location.
Reaches(s, env, n, at) ==
    \E run \in RunsOfStatement(s, env, RunsNested(env)[n]) : at \in ToSet(run.Trace)
Reached(s, env, at) == \E n \in Nat : Reaches(s, env, n, at)

\* What a run of the first statements of a body tells of them.
Passes(body, i, env, n, run) ==
    /\ \A at \in ToSet(run.Trace) : \E p \in 1 .. i :
            /\ Reaches(body[p], env, n, at)
            /\ \A q \in 1 .. p - 1 : body[q].Kind # "BreakStmt"
    /\ run.Ends = "falls" => \A q \in 1 .. i : body[q].Kind # "BreakStmt"

LEMMA PassesOneMore ==
    ASSUME NEW body \in Seq(Statements), NEW env, NEW n \in Nat, NEW i \in 1 .. Len(body),
           NEW run \in AllRuns, Passes(body, i - 1, env, n, run),
           NEW longer \in Extended(run, RunsOfStatement(body[i], env, RunsNested(env)[n]))
    PROVE  Passes(body, i, env, n, longer)
<1>1. /\ i - 1 \in Nat /\ i \in Nat /\ Len(body) \in Nat /\ body[i] \in Statements
      /\ \A p \in 1 .. i : p \in 1 .. i - 1 \/ p = i
      /\ \A p \in 1 .. i - 1 : p \in 1 .. i
  BY LenProperties, ElementOfSeq
<1>2. CASE run.Ends # "falls"
  <2>1. longer = run
    BY <1>2 DEF Extended
  <2> QED BY <1>1, <1>2, <2>1 DEF Passes
<1>3. CASE run.Ends = "falls"
  <2>1. PICK more \in RunsOfStatement(body[i], env, RunsNested(env)[n]) :
            longer = Run(run.Trace \o more.Trace, more.Ends)
    BY <1>3 DEF Extended
  <2>2. RunsNested(env)[n] \in [Bodies -> SUBSET AllRuns]
    BY NestedSteps
  <2>3. more \in AllRuns
    BY <1>1, <2>1, <2>2, StatementRunsType
  <2>4. run.Trace \in Seq(Nat) /\ more.Trace \in Seq(Nat)
    BY <2>3 DEF AllRuns
  <2>5. ToSet(run.Trace \o more.Trace) = ToSet(run.Trace) \cup ToSet(more.Trace)
    BY <2>4, ElementsOfConcat
  <2>6. longer.Ends = more.Ends /\ ToSet(longer.Trace) = ToSet(run.Trace) \cup ToSet(more.Trace)
    BY <2>1, <2>5 DEF Run
  <2>7. \A q \in 1 .. i - 1 : body[q].Kind # "BreakStmt"
    BY <1>3 DEF Passes
  <2>8. ASSUME NEW at \in ToSet(longer.Trace)
        PROVE  \E p \in 1 .. i : /\ Reaches(body[p], env, n, at)
                                 /\ \A q \in 1 .. p - 1 : body[q].Kind # "BreakStmt"
    <3>1. CASE at \in ToSet(run.Trace)
      BY <1>1, <3>1 DEF Passes
    <3>2. CASE at \in ToSet(more.Trace)
      <4>1. Reaches(body[i], env, n, at)
        BY <2>1, <3>2 DEF Reaches
      <4> QED BY <1>1, <2>7, <4>1
    <3> QED BY <2>6, <2>8, <3>1, <3>2
  <2>9. ASSUME longer.Ends = "falls" PROVE body[i].Kind # "BreakStmt"
    <3> SUFFICES ASSUME body[i].Kind = "BreakStmt" PROVE FALSE
      OBVIOUS
    <3>1. more = Run(<<>>, "breaks")
      BY <2>1, RunsOfBreak
    <3> QED BY <2>6, <2>9, <3>1 DEF Run
  <2> QED BY <1>1, <2>7, <2>8, <2>9 DEF Passes
<1> QED BY <1>2, <1>3

\* A location of a body's run is one of a statement's, before which nothing breaks.
LEMMA BodyReaches ==
    ASSUME NEW body \in Seq(Statements), NEW env, NEW n \in Nat,
           NEW run \in RunsNested(env)[n + 1][body], NEW at \in ToSet(run.Trace)
    PROVE  \E p \in 1 .. Len(body) :
                /\ Reaches(body[p], env, n, at)
                /\ \A q \in 1 .. p - 1 : body[q].Kind # "BreakStmt"
<1> DEFINE inner == RunsNested(env)[n]
           upTo == RunsUpTo(body, env, inner)
<1>1. inner \in [Bodies -> SUBSET AllRuns] /\ run \in upTo[Len(body)]
  BY NestedSteps DEF Bodies
<1>2. /\ upTo[0] = {Run(<<>>, "falls")}
      /\ \A i \in 1 .. Len(body) : upTo[i] = RunsThrough(body[i], env, inner, upTo[i - 1])
      /\ \A i \in 0 .. Len(body) : upTo[i] \in SUBSET AllRuns
  BY <1>1, UpToSteps
<1>3. Len(body) \in Nat
  BY LenProperties
<1> DEFINE Passing == {i \in Nat : i <= Len(body) =>
                            \A r \in upTo[i] : Passes(body, i, env, n, r)}
<1> HIDE DEF upTo, inner
<1>4. 0 \in Passing
  <2>1. ToSet(Run(<<>>, "falls").Trace) = {}
    BY DEF Run, ToSet
  <2>2. Passes(body, 0, env, n, Run(<<>>, "falls"))
    BY <2>1 DEF Passes
  <2> QED BY <1>2, <2>2
<1>5. ASSUME NEW i \in Nat, i \in Passing PROVE i + 1 \in Passing
  <2> SUFFICES ASSUME i + 1 <= Len(body), NEW r \in upTo[i + 1]
               PROVE  Passes(body, i + 1, env, n, r)
    OBVIOUS
  <2>1. i + 1 \in 1 .. Len(body) /\ (i + 1) - 1 = i /\ i \in 0 .. Len(body) /\ i <= Len(body)
    BY <1>3
  <2>2. upTo[i + 1] = RunsThrough(body[i + 1], env, inner, upTo[i])
    BY <1>2, <2>1
  <2>3. PICK shorter \in upTo[i] :
            r \in Extended(shorter, RunsOfStatement(body[i + 1], env, inner))
    BY <2>2 DEF RunsThrough
  <2>4. shorter \in AllRuns /\ Passes(body, i, env, n, shorter)
    BY <1>2, <1>5, <2>1, <2>3
  <2> QED BY <2>1, <2>3, <2>4, PassesOneMore DEF inner
<1> HIDE DEF Passing
<1>6. Nat \subseteq Passing
  BY <1>4, <1>5, Induction
<1>7. Passes(body, Len(body), env, n, run)
  BY <1>1, <1>3, <1>6 DEF Passing
<1> QED BY <1>7 DEF Passes

\* A statement of the body from i on is reached before anything breaks.
ReachesFrom(body, i, env, n, at) ==
    \E m \in Nat : n = m + 1 /\ \E p \in i .. Len(body) :
        /\ Reaches(body[p], env, m, at)
        /\ \A q \in i .. p - 1 : body[q].Kind # "BreakStmt"

LEMMA WholeReaches ==
    ASSUME NEW body \in Seq(Statements), NEW env, NEW n \in Nat,
           NEW run \in RunsNested(env)[n][body], NEW at \in ToSet(run.Trace)
    PROVE  ReachesFrom(body, 1, env, n, at)
<1>1. n # 0
  BY NestedSteps DEF Bodies
<1>2. n - 1 \in Nat /\ n = (n - 1) + 1
  BY <1>1
<1>3. \E p \in 1 .. Len(body) : /\ Reaches(body[p], env, n - 1, at)
                                /\ \A q \in 1 .. p - 1 : body[q].Kind # "BreakStmt"
  BY <1>2, BodyReaches
<1> QED BY <1>2, <1>3 DEF ReachesFrom

LEMMA RestReaches ==
    ASSUME NEW body \in Seq(Statements), NEW i \in 1 .. Len(body) + 1, NEW env, NEW n \in Nat,
           NEW run \in RunsNested(env)[n][SubSeq(body, i, Len(body))],
           NEW at \in ToSet(run.Trace)
    PROVE  ReachesFrom(body, i, env, n, at)
<1> DEFINE rest == SubSeq(body, i, Len(body))
<1>1. /\ rest \in Seq(Statements) /\ Len(rest) = Len(body) + 1 - i
      /\ \A j \in 1 .. Len(body) + 1 - i :
            i + j - 1 \in 1 .. Len(body) /\ rest[j] = body[i + j - 1]
  BY RestOfBody
<1> HIDE DEF rest
<1>2. ReachesFrom(rest, 1, env, n, at)
  BY <1>1, WholeReaches DEF rest
<1>3. PICK m \in Nat, p \in 1 .. Len(rest) :
            /\ n = m + 1
            /\ Reaches(rest[p], env, m, at)
            /\ \A q \in 1 .. p - 1 : rest[q].Kind # "BreakStmt"
  BY <1>2 DEF ReachesFrom
<1>4. Len(body) \in Nat /\ i \in Nat /\ p \in Nat /\ p <= Len(body) + 1 - i
  BY <1>1, <1>3, LenProperties
<1> DEFINE k == i + p - 1
<1>5. k \in i .. Len(body) /\ Reaches(body[k], env, m, at)
  BY <1>1, <1>3, <1>4
<1>6. ASSUME NEW q \in i .. k - 1 PROVE body[q].Kind # "BreakStmt"
  <2>1. q + 1 - i \in 1 .. p - 1 /\ q + 1 - i \in 1 .. Len(body) + 1 - i
        /\ i + (q + 1 - i) - 1 = q
    BY <1>4
  <2> QED BY <1>1, <1>3, <2>1
<1> HIDE DEF k
<1> QED BY <1>3, <1>5, <1>6 DEF ReachesFrom

\* What of a statement leads to a location.
BranchLeads(s, env, n, at) ==
    /\ s.Kind = "IfStmt"
    /\ \E part \in {s.Then, s.Else} :
            /\ s.Condition # NotParsed =>
                    part = IF LeafHolds(s.Condition, env) THEN s.Then ELSE s.Else
            /\ ReachesFrom(part, 1, env, n, at)
SwitchLeads(s, env, n, at) ==
    /\ s.Kind = "SwitchStmt"
    /\ \E i \in Entries(s.Body, s.Subject, env) : ReachesFrom(s.Body, i, env, n, at)
LoopLeads(s, env, n, at) == s.Kind = "WhileStmt" /\ ReachesFrom(s.Body, 1, env, n, at)

LEMMA ReachesInside ==
    ASSUME NEW s \in Statements, NEW env, NEW n \in Nat, NEW at, Reaches(s, env, n, at)
    PROVE  \/ Recorded(s) /\ at = s.At
           \/ BranchLeads(s, env, n, at)
           \/ SwitchLeads(s, env, n, at)
           \/ LoopLeads(s, env, n, at)
<1> DEFINE inner == RunsNested(env)[n]
<1>1. inner \in [Bodies -> SUBSET AllRuns]
  BY NestedSteps
<1>2. PICK run \in RunsOfStatement(s, env, inner) : at \in ToSet(run.Trace)
  BY DEF Reaches
<1>3. \A ends : ToSet(Run(<<>>, ends).Trace) = {}
  BY DEF Run, ToSet
<1> HIDE DEF inner
<1>4. CASE s.Kind = "IfStmt"
  <2>1. PICK part \in {s.Then, s.Else} :
            /\ s.Condition # NotParsed =>
                    part = IF LeafHolds(s.Condition, env) THEN s.Then ELSE s.Else
            /\ run \in inner[part]
    <3>1. CASE s.Condition = NotParsed
      <4>1. run \in inner[s.Then] \cup inner[s.Else]
        BY <1>2, <1>4, <3>1 DEF RunsOfStatement
      <4> QED BY <3>1, <4>1
    <3>2. CASE s.Condition # NotParsed
      <4>1. run \in inner[IF LeafHolds(s.Condition, env) THEN s.Then ELSE s.Else]
        BY <1>2, <1>4, <3>2 DEF RunsOfStatement
      <4> QED BY <4>1
    <3> QED BY <3>1, <3>2
  <2>2. part \in Seq(Statements)
    BY <1>4, StatementParts
  <2>3. ReachesFrom(part, 1, env, n, at)
    BY <1>2, <2>1, <2>2, WholeReaches DEF inner
  <2> QED BY <1>4, <2>1, <2>3 DEF BranchLeads
<1>5. CASE s.Kind = "SwitchStmt"
  <2>7. PICK i \in Entries(s.Body, s.Subject, env) :
            \E within \in inner[SubSeq(s.Body, i, Len(s.Body))] : run = LeaveStatement(within)
    BY <1>2, <1>5, RunsOfSwitch
  <2>1. PICK within \in inner[SubSeq(s.Body, i, Len(s.Body))] : run = LeaveStatement(within)
    BY <2>7
  <2>2. s.Body \in Seq(Statements) /\ i \in 1 .. Len(s.Body) + 1
    BY <1>5, StatementParts, EntriesType
  <2>3. SubSeq(s.Body, i, Len(s.Body)) \in Bodies
    BY <2>2, RestOfBody DEF Bodies
  <2>4. within \in AllRuns
    BY <1>1, <2>1, <2>3
  <2>5. at \in ToSet(within.Trace)
    BY <1>2, <2>1, <2>4, LeaveStatementType
  <2>6. ReachesFrom(s.Body, i, env, n, at)
    BY <2>1, <2>2, <2>5, RestReaches DEF inner
  <2> QED BY <1>5, <2>6 DEF SwitchLeads
<1>6. CASE s.Kind = "WhileStmt"
  <2>1. s.Body \in Seq(Statements) /\ s.Body \in Bodies
    BY <1>6, StatementParts DEF Bodies
  <2>2. PICK within \in inner[s.Body] : run = LeaveStatement(within)
    BY <1>2, <1>3, <1>6, RunsOfWhile
  <2>3. within \in AllRuns
    BY <1>1, <2>1, <2>2
  <2>4. at \in ToSet(within.Trace)
    BY <1>2, <2>2, <2>3, LeaveStatementType
  <2>5. ReachesFrom(s.Body, 1, env, n, at)
    BY <2>1, <2>2, <2>4, WholeReaches DEF inner
  <2> QED BY <1>6, <2>5 DEF LoopLeads
<1>7. CASE s.Kind \in {"BreakStmt", "ReturnStmt"}
  <2>1. RunsOfStatement(s, env, inner) \in {{Run(<<>>, "breaks")}, {Run(<<>>, "returns")}}
    BY <1>7, RunsOfBreak, RunsOfReturn
  <2>2. run = Run(<<>>, "breaks") \/ run = Run(<<>>, "returns")
    BY <1>2, <2>1
  <2>3. at \in {}
    BY <1>2, <1>3, <2>2
  <2> QED BY <2>3
<1>8. CASE s.Kind \notin {"IfStmt", "SwitchStmt", "WhileStmt", "BreakStmt", "ReturnStmt"}
  <2>1. run = Run(IF Recorded(s) THEN <<s.At>> ELSE <<>>, "falls")
    BY <1>2, <1>8, RunsOfOther
  <2>2. Recorded(s)
    BY <1>2, <1>3, <2>1
  <2>3. run.Trace = <<s.At>>
    BY <2>1, <2>2 DEF Run
  <2>4. at = s.At
    BY <1>2, <2>3 DEF ToSet
  <2> QED BY <2>2, <2>4
<1> QED BY <1>4, <1>5, <1>6, <1>7, <1>8

\* The locations in a part of a statement are in the statement.
LEMMA LocationsInPart ==
    ASSUME NEW s \in Statements, IsNested(<<s>>), NEW part \in ToSet(Parts(s)),
           NEW p \in 1 .. Len(part)
    PROVE  /\ part[p] \in Statements /\ IsNested(<<part[p]>>)
           /\ StatementsIn(<<part[p]>>) \subseteq StatementsIn(part)
           /\ StatementsIn(part) \subseteq StatementsIn(<<s>>)
           /\ LocationsIn(<<part[p]>>) \subseteq LocationsIn(part)
           /\ LocationsIn(part) \subseteq LocationsIn(<<s>>)
<1>1. s \in StatementsIn(<<s>>)
  <2>1. ToSet(<<s>>) = {s}
    BY DEF ToSet
  <2> QED BY <2>1, StatementsInMeaning
<1>2. /\ IsNested(part) /\ StatementsIn(part) \subseteq StatementsIn(<<s>>)
      /\ \A t \in ToSet(part) : t \in StatementsIn(part)
  BY <1>1, StatementNested
<1>3. part \in Seq(Statements)
  BY PartsType
<1>4. part[p] \in ToSet(part)
  BY <1>3, ElementsType
<1>5. part[p] \in StatementsIn(part)
  BY <1>2, <1>4
<1>6. /\ part[p] \in Statements /\ IsNested(<<part[p]>>)
      /\ StatementsIn(<<part[p]>>) \subseteq StatementsIn(part)
  BY <1>2, <1>5, StatementNested
<1> QED BY <1>2, <1>6 DEF LocationsIn

LEMMA ReachedIsInside ==
    ASSUME NEW env, NEW n \in Nat
    PROVE  \A s \in Statements : \A at :
                IsNested(<<s>>) /\ Reaches(s, env, n, at) => at \in LocationsIn(<<s>>)
<1> DEFINE Inside(m) == \A s \in Statements : \A at :
                IsNested(<<s>>) /\ Reaches(s, env, m, at) => at \in LocationsIn(<<s>>)
           S == {m \in Nat : Inside(m)}
<1>1. ASSUME NEW m \in Nat, \A k \in Nat : m = k + 1 => Inside(k) PROVE Inside(m)
  <2> SUFFICES ASSUME NEW s \in Statements, NEW at, IsNested(<<s>>), Reaches(s, env, m, at)
               PROVE  at \in LocationsIn(<<s>>)
    OBVIOUS
  <2>1. ASSUME NEW part \in ToSet(Parts(s)), NEW i \in Nat \ {0},
               ReachesFrom(part, i, env, m, at)
        PROVE  at \in LocationsIn(<<s>>)
    <3>1. PICK k \in Nat, p \in i .. Len(part) : m = k + 1 /\ Reaches(part[p], env, k, at)
      BY <2>1 DEF ReachesFrom
    <3>2. part \in Seq(Statements)
      BY PartsType
    <3>3. p \in 1 .. Len(part)
      BY <3>2, LenProperties
    <3>4. at \in LocationsIn(<<part[p]>>)
      BY <1>1, <3>1, <3>3, LocationsInPart
    <3> QED BY <3>3, <3>4, LocationsInPart
  <2>2. 1 \in Nat \ {0}
    OBVIOUS
  <2> HIDE DEF Inside
  <2>3. CASE Recorded(s) /\ at = s.At
    <3>1. s \in ToSet(<<s>>)
      BY DEF ToSet
    <3>2. s \in StatementsIn(<<s>>)
      BY <3>1, StatementsInMeaning
    <3> QED BY <2>3, <3>2 DEF LocationsIn
  <2>4. CASE BranchLeads(s, env, m, at)
    BY <2>1, <2>2, <2>4, PartsType DEF BranchLeads
  <2>5. CASE SwitchLeads(s, env, m, at)
    <3>1. PICK i \in Entries(s.Body, s.Subject, env) : ReachesFrom(s.Body, i, env, m, at)
      BY <2>5 DEF SwitchLeads
    <3>2. s.Body \in Seq(Statements)
      BY <2>5, StatementParts DEF SwitchLeads
    <3>3. i \in Nat \ {0}
      BY <3>2, EntriesType, LenProperties
    <3> QED BY <2>1, <2>5, <3>1, <3>3, PartsType DEF SwitchLeads
  <2>6. CASE LoopLeads(s, env, m, at)
    BY <2>1, <2>2, <2>6, PartsType DEF LoopLeads
  <2> QED BY <2>3, <2>4, <2>5, <2>6, ReachesInside
<1> HIDE DEF Inside
<1>2. 0 \in S
  <2>1. \A k \in Nat : 0 # k + 1
    OBVIOUS
  <2> QED BY <1>1, <2>1
<1>3. ASSUME NEW m \in Nat, m \in S PROVE m + 1 \in S
  <2>1. \A k \in Nat : m + 1 = k + 1 => k = m
    OBVIOUS
  <2> QED BY <1>1, <1>3, <2>1
<1> HIDE DEF S
<1>4. Nat \subseteq S
  BY <1>2, <1>3, Induction
<1> QED BY <1>4 DEF S, Inside

----------------------------------------------------------------------------
(* Functions that the visitors follow.                                     *)

\* What IsFollowed and BodyAssumption say of a statement.
IsOrdinary(s) ==
    /\ \A part \in ToSet(Parts(s)) : AreDistinct(part)
    /\ s.Kind = "IfStmt" => LocationsIn(s.Then) \cap LocationsIn(s.Else) = {}
    /\ s.Kind \in {"IfStmt", "WhileStmt"} =>
            \A part \in ToSet(Parts(s)) : OfKind(Labels, ToSet(part)) = {}
    /\ s.Kind = "SwitchStmt" =>
            /\ \A loop \in OfKind({"WhileStmt"}, StatementsIn(s.Body)) :
                    OfKind({"BreakStmt"}, StatementsIn(loop.Body)) = {}
            /\ \A label \in OfKind({"CaseStmt"}, ToSet(s.Body)) : label.Value # Unknown
            /\ \A i, j \in DOMAIN s.Body :
                    s.Body[i].Kind = "DefaultStmt" /\ i < j => s.Body[j].Kind \notin Labels
IsFollowable(s) ==
    s \in Statements /\ IsNested(<<s>>) /\ \A t \in StatementsIn(<<s>>) : IsOrdinary(t)

LEMMA InItself ==
    ASSUME NEW s, IsFollowable(s)
    PROVE  s \in StatementsIn(<<s>>) /\ IsOrdinary(s)
<1>1. s \in ToSet(<<s>>)
  BY DEF ToSet
<1>2. s \in StatementsIn(<<s>>)
  BY <1>1, StatementsInMeaning DEF IsFollowable
<1> QED BY <1>2 DEF IsFollowable

LEMMA PartIsFollowable ==
    ASSUME NEW s, IsFollowable(s), NEW part \in ToSet(Parts(s)), NEW p \in 1 .. Len(part)
    PROVE  /\ IsFollowable(part[p])
           /\ StatementsIn(<<part[p]>>) \subseteq StatementsIn(part)
           /\ LocationsIn(<<part[p]>>) \subseteq LocationsIn(part)
           /\ LocationsIn(part) \subseteq LocationsIn(<<s>>)
BY LocationsInPart DEF IsFollowable

LEMMA BodyIsFollowable ==
    ASSUME NEW body, IsNested(body), IsFollowed(body), IsLocated(body), NEW p \in 1 .. Len(body)
    PROVE  IsFollowable(body[p])
<1>1. body \in Seq(Statements) /\ ToSet(body) \subseteq StatementsIn(body)
  BY StatementsInMeaning DEF IsNested
<1>2. body[p] \in StatementsIn(body)
  BY <1>1, ElementsType
<1>3. /\ body[p] \in Statements /\ IsNested(<<body[p]>>)
      /\ StatementsIn(<<body[p]>>) \subseteq StatementsIn(body)
  BY <1>2, StatementNested
<1>4. \A t \in StatementsIn(body) : IsOrdinary(t)
  BY DEF IsFollowed, IsLocated, IsOrdinary, OfKind
<1> QED BY <1>3, <1>4 DEF IsFollowable

\* The statement of a sequence that a location is in is the one that is reached
\* when the location is.
LEMMA ReachedThere ==
    ASSUME NEW body \in Seq(Statements), AreDistinct(body),
           \A q \in 1 .. Len(body) : IsFollowable(body[q]),
           NEW i \in Nat \ {0}, NEW env, NEW n \in Nat, NEW at, ReachesFrom(body, i, env, n, at),
           NEW p \in 1 .. Len(body), at \in LocationsIn(<<body[p]>>)
    PROVE  /\ i <= p /\ Reached(body[p], env, at)
           /\ \A q \in i .. p - 1 : body[q].Kind # "BreakStmt"
<1>1. PICK m \in Nat : n = m + 1 /\ \E q \in i .. Len(body) :
            /\ Reaches(body[q], env, m, at)
            /\ \A r \in i .. q - 1 : body[r].Kind # "BreakStmt"
  BY DEF ReachesFrom
<1>2. PICK q \in i .. Len(body) : /\ Reaches(body[q], env, m, at)
                                  /\ \A r \in i .. q - 1 : body[r].Kind # "BreakStmt"
  BY <1>1
<1>3. q \in 1 .. Len(body) /\ DOMAIN body = 1 .. Len(body)
  BY LenProperties
<1>4. body[q] \in Statements /\ IsNested(<<body[q]>>)
  BY <1>3 DEF IsFollowable
<1>5. at \in LocationsIn(<<body[q]>>)
  BY <1>2, <1>4, ReachedIsInside
<1>6. q = p
  BY <1>3, <1>5 DEF AreDistinct
<1> QED BY <1>2, <1>6 DEF Reached

----------------------------------------------------------------------------
(* Conditions that hold.                                                   *)

LEMMA EnvironmentType ==
    ASSUME NEW env \in Environments
    PROVE  env \in [Vars -> Primitives] /\ env \in Values
BY EnvironmentAssumption DEF Values, ResolvedStates

LEMMA AndHolds ==
    ASSUME NEW condition, NEW other, NEW env, Evaluate(condition, env), Evaluate(other, env)
    PROVE  Evaluate(And(condition, other), env)
<1>1. CASE other.Tautology \/ condition.Tautology
  BY <1>1 DEF And, Evaluate, Always
<1>2. CASE ~other.Tautology /\ ~condition.Tautology
  <2>1. PICK left \in condition.VariableConditions : \A leaf \in left : LeafHolds(leaf, env)
    BY <1>2 DEF Evaluate
  <2>2. PICK right \in other.VariableConditions : \A leaf \in right : LeafHolds(leaf, env)
    BY <1>2 DEF Evaluate
  <2>3. left \cup right \in And(condition, other).VariableConditions
    BY <1>2, <2>1, <2>2 DEF And
  <2> QED BY <2>1, <2>2, <2>3 DEF Evaluate
<1> QED BY <1>1, <1>2

LEMMA OrHolds ==
    ASSUME NEW condition, NEW other, NEW env, Evaluate(condition, env) \/ Evaluate(other, env)
    PROVE  Evaluate(Or(condition, other), env)
<1>1. CASE condition.Tautology \/ other.Tautology
  BY <1>1 DEF Or, Evaluate, Always
<1>2. CASE ~(condition.Tautology \/ other.Tautology)
  <2>1. Or(condition, other).VariableConditions =
            condition.VariableConditions \cup other.VariableConditions
    BY <1>2 DEF Or
  <2> QED BY <1>2, <2>1 DEF Evaluate
<1> QED BY <1>1, <1>2

\* Of a number or a variable that is one, the code behind a label with this
\* value, and the one behind a default, are reached as the switch says.
MatchesCase(subject, value) == When(Leaf(subject, ComparedConstant("EQUAL", value)))

LEMMA SubjectIsNumber ==
    ASSUME NEW env \in Environments, NEW subject \in Copies \cup Primitives
    PROVE  Resolve(env, subject) \in Primitives
<1>1. env \in [Vars -> Primitives] /\ env \in Values
  BY EnvironmentType
<1>2. CASE subject \in Primitives
  BY <1>2 DEF Primitives, Resolve, ResolveValue, FollowCopies
<1>3. CASE subject \in Copies
  <2>1. subject.State = "CopyVar" /\ subject.Source \in Vars
    BY <1>3 DEF Copies
  <2>2. FollowCopies(env, subject) = env[subject.Source]
    BY <1>1, <2>1, ChainEndsAtOnce DEF FollowCopies
  <2>3. env[subject.Source] \in Primitives
    BY <1>1, <2>1
  <2>4. FollowCopies(env, subject).State # "Compute"
    BY <2>2, <2>3 DEF Primitives
  <2> QED BY <2>2, <2>3, <2>4 DEF Resolve, ResolveValue
<1> QED BY <1>2, <1>3

LEMMA MatchesHolds ==
    ASSUME NEW env \in Environments, NEW subject \in Copies \cup Primitives,
           NEW value \in Primitives
    PROVE  /\ Evaluate(MatchesCase(subject, value), env) <=> value = Resolve(env, subject)
           /\ ~Evaluate(MatchesCase(subject, value), env) =>
                Evaluate(Negate(MatchesCase(subject, value)), env)
           /\ MatchesCase(subject, value) \in Asking
<1> DEFINE leaf == Leaf(subject, ComparedConstant("EQUAL", value))
<1>1. /\ leaf.Subject = subject /\ leaf.Value.Type = "Constant"
      /\ leaf.Value.Comparison = "EQUAL" /\ leaf.Value.ComparedConstant = value
  BY DEF Leaf, ComparedConstant
<1>2. leaf \in Leaves
  BY DEF Leaf, Leaves, ComparedConstant, ValueRanges, Literals, COMPARISON
<1>3. Resolve(env, subject) \in Primitives
  BY SubjectIsNumber
<1>4. value.State = "Primitive" /\ Resolve(env, subject).State = "Primitive"
  BY <1>3 DEF Primitives
<1>5. value.Value = Resolve(env, subject).Value <=> value = Resolve(env, subject)
  BY <1>3 DEF Primitives
<1>6. env \in Values
  BY EnvironmentType
<1> HIDE DEF leaf
<1>7. LeafHolds(leaf, env) <=> value = Resolve(env, subject)
  BY <1>1, <1>4, <1>5 DEF LeafHolds, RangeMatches, CompareTo, CompareValues
<1>8. LeafHolds(leaf, env) \/ LeafHolds(NegateLeaf(leaf), env)
  BY <1>1, <1>2, <1>4, <1>6, NegatedLeaf
<1>9. MatchesCase(subject, value) = When(leaf)
  BY DEF MatchesCase, leaf
<1> QED BY <1>2, <1>7, <1>8, <1>9, SingleCondition, WhenType

LEMMA NoneOfHolds ==
    ASSUME NEW env \in Environments, NEW subject \in Copies \cup Primitives, NEW cases,
           \A condition \in cases :
                /\ \E value \in Primitives : condition = MatchesCase(subject, value)
                /\ ~Evaluate(condition, env)
    PROVE  Evaluate(NoneOf(cases), env)
<1>1. CASE cases = {}
  BY <1>1 DEF NoneOf, Evaluate, Always
<1>2. CASE cases # {}
  <2>1. ASSUME NEW condition \in cases PROVE LeafHolds(TheLeaf(Negate(condition)), env)
    <3>1. condition \in Asking /\ Evaluate(Negate(condition), env)
      BY MatchesHolds
    <3>2. Negate(condition) = When(NegateLeaf(TheLeaf(condition)))
      BY <3>1, AskingParts DEF Negate
    <3> QED BY <3>1, <3>2, SingleCondition
  <2>2. NoneOf(cases).VariableConditions = {{TheLeaf(Negate(c)) : c \in cases}}
    BY <1>2 DEF NoneOf
  <2> QED BY <2>1, <2>2 DEF Evaluate
<1> QED BY <1>1, <1>2

\* The else branch of a condition that is parsed is reached when it holds negated.
LEMMA NegatedHolds ==
    ASSUME NEW env \in Environments, NEW leaf \in ParsedConditions, ~LeafHolds(leaf, env)
    PROVE  Evaluate(Negate(When(leaf)), env)
<1>1. env \in Values /\ leaf \in Leaves /\ leaf.Subject \in Copies \cup Primitives
      /\ leaf.Value \in ValueRanges
  BY EnvironmentType DEF ParsedConditions, Leaves
<1>2. Resolve(env, leaf.Subject) \in Primitives
  BY <1>1, SubjectIsNumber
<1>3. Resolve(env, leaf.Subject).State = "Primitive"
  BY <1>2 DEF Primitives
<1>4. CASE leaf.Value.Type \in {"Zero", "NotZero"}
  BY <1>1, <1>3, <1>4, NegatedLeaf, SingleCondition
<1>5. CASE leaf.Value.Type = "Constant"
  <2>1. leaf.Value.ComparedConstant.State = "Primitive"
    BY <1>5 DEF ParsedConditions, Primitives
  <2> QED BY <1>1, <1>3, <1>5, <2>1, NegatedLeaf, SingleCondition
<1>6. CASE leaf.Value.Type = "Comparison"
  <2>1. leaf.Value.Comparison \in COMPARISON /\ leaf.Value.ComparedTo \in Vars
    BY <1>1, <1>6 DEF ValueRanges, Zero, NotZero
  <2> DEFINE value == Resolve(env, leaf.Subject)
             other == GetVariableValue(env, leaf.Value.ComparedTo)
  <2>2. other \in Primitives
    <3>1. env[leaf.Value.ComparedTo] \in Primitives
      BY <2>1, EnvironmentType
    <3> QED BY <3>1, SubjectIsNumber DEF GetVariableValue
  <2>3. value \in ResolvedStates /\ other \in ResolvedStates /\ other.State = "Primitive"
    BY <1>2, <2>2 DEF ResolvedStates, Primitives
  <2>4. LeafHolds(leaf, env) <=> CompareTo(leaf.Value.Comparison, value, other)
    BY <1>3, <1>6 DEF LeafHolds, RangeMatches
  <2>5. LeafHolds(NegateLeaf(leaf), env) <=>
            CompareTo(NegateComparison(leaf.Value.Comparison), value, other)
    BY <1>3, <1>6 DEF LeafHolds, RangeMatches, NegateLeaf, Leaf, NegateRange, ComparedTo
  <2> HIDE DEF other
  <2> QED BY <1>3, <2>1, <2>3, <2>4, <2>5, NegatedComparison, SingleCondition
<1>7. leaf.Value.Type \in {"Zero", "NotZero", "Comparison", "Constant"}
  BY <1>1 DEF ValueRanges, Zero, NotZero
<1> QED BY <1>4, <1>5, <1>6, <1>7

----------------------------------------------------------------------------
(* What holds of a visitor at work.                                        *)

\* A switch has its limits, and has collected cases of its own.
IsInSwitch(v) ==
    /\ \A condition \in v.SwitchCases :
            \E value \in Primitives : condition = MatchesCase(v.Subject, value)
    /\ \A i \in DOMAIN v.Statements :
        /\ v.Statements[i].Kind = "CaseStmt" => v.Statements[i].Value # Unknown
        /\ v.Statements[i].Kind = "DefaultStmt" =>
                \A j \in DOMAIN v.Statements : i < j => v.Statements[j].Kind \notin Labels
        /\ v.Statements[i].Kind = "WhileStmt" =>
                OfKind({"BreakStmt"}, StatementsIn(v.Statements[i].Body)) = {}
IsSound(v) ==
    /\ v \in WorkingVisitors
    /\ \A i \in DOMAIN v.Statements : IsFollowable(v.Statements[i])
    /\ v.Type = "Case" => IsInSwitch(v)

\* Its switch is at one of the statements that are left, or runs already: by way
\* of the labels that the current condition stands for, or of one that is left.
NoBreak(v, from, to) == \A i \in from .. to : v.Statements[i].Kind # "BreakStmt"
Enters(v, i, env) ==
    \/ v.Statements[i].Kind = "CaseStmt" /\ v.Statements[i].Value = Resolve(env, v.Subject)
    \/ /\ v.Statements[i].Kind = "DefaultStmt"
       /\ \A condition \in v.SwitchCases : ~Evaluate(condition, env)
       /\ \A j \in DOMAIN v.Statements :
            v.Statements[j].Kind = "CaseStmt" => v.Statements[j].Value # Resolve(env, v.Subject)
IsInside(v, env) ==
    /\ Evaluate(v.CurrentSwitchCondition, env)
    /\ v.CurrentSwitchCondition.Tautology =>
            \A i \in DOMAIN v.Statements : v.Statements[i].Kind \notin Labels
IsLive(v, p, env) ==
    \/ IsInside(v, env) /\ NoBreak(v, 1, p - 1)
    \/ \E i \in 1 .. p - 1 : Enters(v, i, env) /\ NoBreak(v, i, p - 1)
Guards(v, p, env) == Evaluate(v.Condition, env) /\ (v.Type = "Case" => IsLive(v, p, env))

\* Of the locations in T that are left to the visitor: their statements are
\* reached, with what the visitor asks for.
Expects(v, env, T) ==
    \A p \in DOMAIN v.Statements : \A at \in T \cap LocationsIn(<<v.Statements[p]>>) :
        Reached(v.Statements[p], env, at) /\ Guards(v, p, env)

\* The visitor behind its first statement, with what is in it still to visit.
GoneOn(v, inner, condition, cases) ==
    [v EXCEPT !.Statements = inner \o Tail(v.Statements),
              !.CurrentSwitchCondition = condition, !.SwitchCases = cases]

\* What is then w, when v goes on.
IsGoneOn(v, inner, condition, cases, w) ==
    LET n == Len(inner) IN
    /\ w.Type = v.Type /\ w.Condition = v.Condition
    /\ w.Subject = v.Subject /\ w.CurrentSwitchCondition = condition
    /\ w.SwitchCases = cases
    /\ n \in Nat /\ Len(v.Statements) \in Nat \ {0}
    /\ DOMAIN v.Statements = 1 .. Len(v.Statements)
    /\ Head(v.Statements) = v.Statements[1]
    /\ v.Statements[1] \in Statements
    /\ DOMAIN w.Statements = 1 .. n + Len(v.Statements) - 1
    /\ \A p \in 1 .. n : w.Statements[p] = inner[p]
    /\ \A p \in n + 1 .. n + Len(v.Statements) - 1 : w.Statements[p] = v.Statements[p - n + 1]

LEMMA GoneOnType ==
    ASSUME NEW v \in WorkingVisitors, v.Statements # <<>>, NEW inner \in Seq(Statements),
           NEW condition \in Conditions, NEW cases \in SUBSET Asking
    PROVE  LET w == GoneOn(v, inner, condition, cases) IN
           w \in WorkingVisitors /\ IsGoneOn(v, inner, condition, cases, w)
<1> DEFINE w == GoneOn(v, inner, condition, cases)
           n == Len(inner)
           rest == Tail(v.Statements)
<1>1. /\ v \in Visitors /\ v.Statements \in Seq(Statements)
      /\ v.Type = "Case" => v.Subject # NotParsed
  BY DEF WorkingVisitors, Visitors
<1>2. /\ rest \in Seq(Statements) /\ Len(rest) = Len(v.Statements) - 1
      /\ \A q \in 1 .. Len(v.Statements) - 1 : rest[q] = v.Statements[q + 1]
      /\ Len(v.Statements) \in Nat \ {0} /\ DOMAIN v.Statements = 1 .. Len(v.Statements)
      /\ Head(v.Statements) = v.Statements[1] /\ v.Statements[1] \in Statements
  <2>1. Len(v.Statements) \in Nat /\ Len(v.Statements) # 0
    BY <1>1, LenProperties, EmptySeq
  <2>2. 1 \in 1 .. Len(v.Statements)
    BY <2>1
  <2>3. v.Statements[1] \in Statements
    BY <1>1, <2>2, ElementOfSeq
  <2>4. Head(v.Statements) = v.Statements[1]
    BY <1>1, <2>1
  <2> QED BY <1>1, <2>1, <2>3, <2>4, HeadTailProperties, LenProperties
<1> HIDE DEF rest
<1>3. /\ inner \o rest \in Seq(Statements) /\ Len(inner \o rest) = n + Len(rest)
      /\ n \in Nat /\ Len(rest) \in Nat
      /\ \A p \in 1 .. n + Len(rest) :
            (inner \o rest)[p] = IF p <= n THEN inner[p] ELSE rest[p - n]
      /\ DOMAIN (inner \o rest) = 1 .. n + Len(rest)
  <2>1. Len(inner) \in Nat /\ Len(rest) \in Nat /\ inner \o rest \in Seq(Statements)
    BY <1>2, ConcatProperties, LenProperties
  <2>2. /\ Len(inner \o rest) = Len(inner) + Len(rest)
        /\ \A p \in 1 .. Len(inner) + Len(rest) :
            (inner \o rest)[p] = IF p <= Len(inner) THEN inner[p] ELSE rest[p - Len(inner)]
    BY <1>2, ConcatProperties, ZenonT(40)
  <2>3. DOMAIN (inner \o rest) = 1 .. Len(inner \o rest)
    BY <2>1, LenProperties
  <2> QED BY <2>1, <2>2, <2>3
<1>4. w.Statements = inner \o rest
  BY <1>1 DEF GoneOn, rest, Visitors
<1>5. /\ w \in Visitors /\ w.Type = v.Type /\ w.Condition = v.Condition
      /\ w.Subject = v.Subject /\ w.CurrentSwitchCondition = condition /\ w.SwitchCases = cases
  BY <1>1, <1>3 DEF GoneOn, rest, Visitors, Asking
<1>6. w \in WorkingVisitors
  BY <1>1, <1>5 DEF WorkingVisitors
<1>7. DOMAIN w.Statements = 1 .. n + Len(v.Statements) - 1
  BY <1>2, <1>3, <1>4
<1> HIDE DEF w
<1>8. \A p \in 1 .. n : w.Statements[p] = inner[p]
  BY <1>3, <1>4
<1>9. ASSUME NEW p \in n + 1 .. n + Len(v.Statements) - 1
      PROVE  w.Statements[p] = v.Statements[p - n + 1]
  <2>1. p \in 1 .. n + Len(rest) /\ ~(p <= n) /\ p - n \in 1 .. Len(v.Statements) - 1
    BY <1>2, <1>3
  <2> QED BY <1>2, <1>3, <1>4, <2>1
<1> HIDE DEF n
<1>10. n = Len(inner)
  BY DEF n
<1>11. IsGoneOn(v, inner, condition, cases, w)
  BY <1>2, <1>3, <1>5, <1>7, <1>8, <1>9, <1>10 DEF IsGoneOn
<1> QED BY <1>6, <1>11 DEF w

LEMMA GoneOnPositions ==
    ASSUME NEW v \in WorkingVisitors, v.Statements # <<>>, NEW inner \in Seq(Statements),
           NEW condition \in Conditions, NEW cases \in SUBSET Asking
    PROVE  LET w == GoneOn(v, inner, condition, cases)
               n == Len(inner)
           IN \A p \in DOMAIN w.Statements :
                /\ p \in Nat
                /\ \/ p \in 1 .. n /\ w.Statements[p] = inner[p]
                   \/ /\ p > n /\ p - n + 1 \in DOMAIN v.Statements /\ p - n + 1 > 1
                      /\ w.Statements[p] = v.Statements[p - n + 1]
<1> DEFINE w == GoneOn(v, inner, condition, cases)
           n == Len(inner)
           m == Len(v.Statements)
<1>0. IsGoneOn(v, inner, condition, cases, w)
  BY GoneOnType
<1> HIDE DEF w
<1>1. /\ n \in Nat /\ m \in Nat \ {0}
      /\ DOMAIN v.Statements = 1 .. m
      /\ DOMAIN w.Statements = 1 .. n + m - 1
      /\ \A p \in 1 .. n : w.Statements[p] = inner[p]
      /\ \A p \in n + 1 .. n + m - 1 : w.Statements[p] = v.Statements[p - n + 1]
  BY <1>0 DEF IsGoneOn
<1> HIDE DEF n, m
<1>2. ASSUME NEW p \in 1 .. n + m - 1
      PROVE  /\ p \in Nat
             /\ \/ p \in 1 .. n
                \/ /\ p > n /\ p - n + 1 \in 1 .. m /\ p - n + 1 > 1
                   /\ p \in n + 1 .. n + m - 1
  BY <1>1
<1> QED BY <1>1, <1>2 DEF w, n

\* What a visitor can be handed in place of the statement it is at.
FitsIn(v, inner) ==
    \A p \in 1 .. Len(inner) :
        /\ IsFollowable(inner[p])
        /\ v.Type = "Case" =>
            /\ inner[p].Kind \notin Labels \cup {"BreakStmt"}
            /\ inner[p].Kind = "WhileStmt" =>
                    OfKind({"BreakStmt"}, StatementsIn(inner[p].Body)) = {}

LEMMA GoneOnSound ==
    ASSUME NEW v, IsSound(v), v.Statements # <<>>, NEW inner \in Seq(Statements), FitsIn(v, inner),
           NEW condition \in Conditions, NEW cases \in SUBSET Asking,
           v.Type = "Case" => \A c \in cases : \E value \in Primitives : c = MatchesCase(v.Subject, value)
    PROVE  IsSound(GoneOn(v, inner, condition, cases))
<1> DEFINE w == GoneOn(v, inner, condition, cases)
           n == Len(inner)
<1>0. w \in WorkingVisitors /\ IsGoneOn(v, inner, condition, cases, w)
  BY GoneOnType DEF IsSound
<1> HIDE DEF w
<1>1. /\ w \in WorkingVisitors /\ w.Type = v.Type /\ w.Subject = v.Subject
      /\ w.SwitchCases = cases
      /\ n \in Nat /\ Len(v.Statements) \in Nat \ {0}
      /\ DOMAIN v.Statements = 1 .. Len(v.Statements)
      /\ DOMAIN w.Statements = 1 .. n + Len(v.Statements) - 1
      /\ \A p \in 1 .. n : w.Statements[p] = inner[p]
      /\ \A p \in n + 1 .. n + Len(v.Statements) - 1 : w.Statements[p] = v.Statements[p - n + 1]
  BY <1>0 DEF IsGoneOn
<1>2. \A p \in DOMAIN w.Statements :
        /\ p \in Nat
        /\ \/ p \in 1 .. n /\ w.Statements[p] = inner[p]
           \/ /\ p > n /\ p - n + 1 \in DOMAIN v.Statements /\ p - n + 1 > 1
              /\ w.Statements[p] = v.Statements[p - n + 1]
  BY GoneOnPositions DEF IsSound, w
<1> HIDE DEF n
<1>3. \A p \in DOMAIN w.Statements : IsFollowable(w.Statements[p])
  BY <1>2 DEF IsSound, FitsIn, n
<1>4. ASSUME v.Type = "Case" PROVE IsInSwitch(w)
  <2>1. IsInSwitch(v)
    BY <1>4 DEF IsSound
  <2>2. ASSUME NEW p \in DOMAIN w.Statements
        PROVE  /\ w.Statements[p].Kind = "CaseStmt" => w.Statements[p].Value # Unknown
               /\ w.Statements[p].Kind = "DefaultStmt" =>
                    \A q \in DOMAIN w.Statements : p < q => w.Statements[q].Kind \notin Labels
               /\ w.Statements[p].Kind = "WhileStmt" =>
                    OfKind({"BreakStmt"}, StatementsIn(w.Statements[p].Body)) = {}
    <3>1. CASE p \in 1 .. n /\ w.Statements[p] = inner[p]
      BY <1>4, <3>1 DEF FitsIn, Labels, n
    <3>2. CASE /\ p > n /\ p - n + 1 \in DOMAIN v.Statements
               /\ w.Statements[p] = v.Statements[p - n + 1]
      <4>1. ASSUME w.Statements[p].Kind = "DefaultStmt", NEW q \in DOMAIN w.Statements, p < q
            PROVE  w.Statements[q].Kind \notin Labels
        <5>1. q > n /\ ~(q \in 1 .. n) /\ p - n + 1 < q - n + 1
          BY <1>1, <1>2, <3>2, <4>1
        <5>2. q - n + 1 \in DOMAIN v.Statements /\ w.Statements[q] = v.Statements[q - n + 1]
          BY <1>2, <5>1
        <5> QED BY <2>1, <3>2, <4>1, <5>1, <5>2 DEF IsInSwitch
      <4> QED BY <2>1, <3>2, <4>1 DEF IsInSwitch
    <3> QED BY <1>2, <3>1, <3>2
  <2>3. \A c \in w.SwitchCases : \E value \in Primitives : c = MatchesCase(w.Subject, value)
    BY <1>1, <1>4
  <2> QED BY <2>2, <2>3 DEF IsInSwitch
<1> QED BY <1>1, <1>3, <1>4 DEF IsSound, w

\* Behind a statement that is neither a label nor a break, whether it is left out
\* or what is in it is visited instead.
LEMMA GoneOnExpects ==
    ASSUME NEW v, IsSound(v), v.Statements # <<>>, NEW inner \in Seq(Statements), FitsIn(v, inner),
           v.Type = "Case" => v.Statements[1].Kind \notin Labels \cup {"BreakStmt"},
           NEW env, NEW T, Expects(v, env, T),
           \A p \in 1 .. Len(inner) : \A at \in T \cap LocationsIn(<<inner[p]>>) :
                Reached(inner[p], env, at) /\ at \in LocationsIn(<<v.Statements[1]>>)
    PROVE  Expects(GoneOn(v, inner, v.CurrentSwitchCondition, v.SwitchCases), env, T)
<1> DEFINE w == GoneOn(v, inner, v.CurrentSwitchCondition, v.SwitchCases)
           n == Len(inner)
<1>1. v.CurrentSwitchCondition \in Conditions /\ v.SwitchCases \in SUBSET Asking
      /\ v \in WorkingVisitors
  BY DEF IsSound, WorkingVisitors, Visitors
<1>0. IsGoneOn(v, inner, v.CurrentSwitchCondition, v.SwitchCases, w)
  BY <1>1, GoneOnType
<1> HIDE DEF w
<1>2. /\ w.Type = v.Type /\ w.Condition = v.Condition /\ w.Subject = v.Subject
      /\ w.CurrentSwitchCondition = v.CurrentSwitchCondition /\ w.SwitchCases = v.SwitchCases
      /\ n \in Nat /\ Len(v.Statements) \in Nat \ {0}
      /\ DOMAIN v.Statements = 1 .. Len(v.Statements)
      /\ DOMAIN w.Statements = 1 .. n + Len(v.Statements) - 1
      /\ \A p \in 1 .. n : w.Statements[p] = inner[p]
      /\ \A p \in n + 1 .. n + Len(v.Statements) - 1 : w.Statements[p] = v.Statements[p - n + 1]
  BY <1>0 DEF IsGoneOn
<1>3. \A p \in DOMAIN w.Statements :
        /\ p \in Nat
        /\ \/ p \in 1 .. n /\ w.Statements[p] = inner[p]
           \/ /\ p > n /\ p - n + 1 \in DOMAIN v.Statements /\ p - n + 1 > 1
              /\ w.Statements[p] = v.Statements[p - n + 1]
  BY <1>1, GoneOnPositions DEF w
<1> HIDE DEF n
<1>4. ASSUME v.Type = "Case", IsInside(v, env) PROVE IsInside(w, env)
  BY <1>2, <1>3, <1>4 DEF IsInside, FitsIn, n
<1>5. SUFFICES ASSUME NEW p \in DOMAIN w.Statements, NEW at \in T \cap LocationsIn(<<w.Statements[p]>>)
               PROVE  Reached(w.Statements[p], env, at) /\ Guards(w, p, env)
  BY DEF Expects, w
<1>6. CASE p \in 1 .. n /\ w.Statements[p] = inner[p]
  <2>1. Reached(w.Statements[p], env, at) /\ at \in LocationsIn(<<v.Statements[1]>>)
    BY <1>5, <1>6 DEF n
  <2>2. 1 \in DOMAIN v.Statements
    BY <1>2
  <2>3. Guards(v, 1, env)
    BY <2>1, <2>2 DEF Expects
  <2>4. ASSUME v.Type = "Case" PROVE IsLive(w, p, env)
    <3>1. IsLive(v, 1, env)
      BY <2>3, <2>4 DEF Guards
    <3>2. IsInside(v, env)
      BY <3>1 DEF IsLive
    <3>3. NoBreak(w, 1, p - 1)
      <4> SUFFICES ASSUME NEW i \in 1 .. p - 1 PROVE w.Statements[i].Kind # "BreakStmt"
        BY DEF NoBreak
      <4>1. i \in 1 .. n
        BY <1>2, <1>6
      <4> QED BY <1>2, <2>4, <4>1 DEF FitsIn, n
    <3> QED BY <1>4, <2>4, <3>2, <3>3 DEF IsLive
  <2> QED BY <1>2, <2>1, <2>3, <2>4 DEF Guards
<1>7. CASE /\ p > n /\ p - n + 1 \in DOMAIN v.Statements /\ p - n + 1 > 1
           /\ w.Statements[p] = v.Statements[p - n + 1]
  <2> DEFINE q == p - n + 1
  <2>1. Reached(v.Statements[q], env, at) /\ Guards(v, q, env)
    BY <1>5, <1>7 DEF Expects
  <2>2. /\ q \in Nat /\ q > 1 /\ q <= Len(v.Statements) /\ p = q + n - 1
        /\ p \in Nat /\ n \in Nat /\ Len(v.Statements) \in Nat
    BY <1>2, <1>3, <1>5, <1>7
  <2> HIDE DEF q
  <2>3. \A i \in n + 1 .. p - 1 : /\ i - n + 1 \in 2 .. q - 1
                                  /\ w.Statements[i] = v.Statements[i - n + 1]
    <3> SUFFICES ASSUME NEW i \in n + 1 .. p - 1
                 PROVE  i - n + 1 \in 2 .. q - 1 /\ w.Statements[i] = v.Statements[i - n + 1]
      OBVIOUS
    <3>1. i \in n + 1 .. n + Len(v.Statements) - 1 /\ i - n + 1 \in 2 .. q - 1
      BY <2>2
    <3> QED BY <1>2, <3>1
  <2>4. ASSUME v.Type = "Case" PROVE IsLive(w, p, env)
    <3>1. CASE IsInside(v, env) /\ NoBreak(v, 1, q - 1)
      <4>1. NoBreak(w, 1, p - 1)
        <5> SUFFICES ASSUME NEW i \in 1 .. p - 1 PROVE w.Statements[i].Kind # "BreakStmt"
          BY DEF NoBreak
        <5>1. CASE i <= n
          BY <1>2, <2>4, <5>1 DEF FitsIn, n
        <5>2. CASE i > n
          <6>1. i \in n + 1 .. p - 1
            BY <1>2, <5>2
          <6>2. i - n + 1 \in 1 .. q - 1
            BY <1>2, <2>2, <2>3, <6>1
          <6> QED BY <2>3, <3>1, <6>1, <6>2 DEF NoBreak
        <5> QED BY <1>2, <5>1, <5>2
      <4> QED BY <1>4, <2>4, <3>1, <4>1 DEF IsLive
    <3>2. CASE \E i \in 1 .. q - 1 : Enters(v, i, env) /\ NoBreak(v, i, q - 1)
      <4>1. PICK i \in 1 .. q - 1 : Enters(v, i, env) /\ NoBreak(v, i, q - 1)
        BY <3>2
      <4>2. i # 1
        BY <2>4, <4>1 DEF Enters, Labels
      <4> DEFINE j == i + n - 1
      <4>3. j \in 1 .. p - 1 /\ j \in n + 1 .. p - 1 /\ j - n + 1 = i
        BY <1>2, <2>2, <4>2
      <4> HIDE DEF j
      <4>4. w.Statements[j] = v.Statements[i]
        BY <2>3, <4>3
      <4>5. ASSUME NEW k \in DOMAIN w.Statements, w.Statements[k].Kind = "CaseStmt",
                   v.Statements[i].Kind = "DefaultStmt"
            PROVE  w.Statements[k].Value # Resolve(env, w.Subject)
        <5>1. w.Statements[k].Kind \in Labels
          BY <4>5 DEF Labels
        <5>2. ~(k \in 1 .. n /\ w.Statements[k] = inner[k])
          BY <2>4, <5>1 DEF FitsIn, n
        <5>3. k - n + 1 \in DOMAIN v.Statements /\ w.Statements[k] = v.Statements[k - n + 1]
          BY <1>3, <5>2
        <5> QED BY <1>2, <4>1, <4>5, <5>3 DEF Enters
      <4>6. Enters(w, j, env)
        BY <1>2, <4>1, <4>4, <4>5 DEF Enters
      <4>7. NoBreak(w, j, p - 1)
        <5> SUFFICES ASSUME NEW k \in j .. p - 1 PROVE w.Statements[k].Kind # "BreakStmt"
          BY DEF NoBreak
        <5>1. i \in Int /\ j \in Int /\ k \in Int
          BY <2>2, <4>3
        <5>2. k \in n + 1 .. p - 1 /\ k - n + 1 \in i .. q - 1
          BY <2>2, <4>3, <5>1
        <5> QED BY <2>3, <4>1, <5>2 DEF NoBreak
      <4> QED BY <4>3, <4>6, <4>7 DEF IsLive
    <3> QED BY <2>1, <2>4, <3>1, <3>2 DEF Guards, IsLive
  <2> QED BY <1>2, <1>7, <2>1, <2>4 DEF Guards, q
<1> QED BY <1>3, <1>5, <1>6, <1>7

----------------------------------------------------------------------------
(* The labels of a switch, and its breaks.                                 *)

LEMMA NothingFits ==
    ASSUME NEW v
    PROVE  <<>> \in Seq(Statements) /\ Len(<<>>) = 0 /\ FitsIn(v, <<>>)
BY EmptySeq DEF FitsIn

\* The visitor behind a label or a break, which has changed its conditions.
LEMMA BehindLabel ==
    ASSUME NEW v \in WorkingVisitors, v.Statements # <<>>,
           NEW condition \in Conditions, NEW cases \in SUBSET Asking
    PROVE  LET w == GoneOn(v, <<>>, condition, cases) IN
           /\ w.Type = v.Type /\ w.Condition = v.Condition /\ w.Subject = v.Subject
           /\ w.CurrentSwitchCondition = condition /\ w.SwitchCases = cases
           /\ Len(v.Statements) \in Nat \ {0}
           /\ DOMAIN v.Statements = 1 .. Len(v.Statements)
           /\ DOMAIN w.Statements = 1 .. Len(v.Statements) - 1
           /\ \A p \in 1 .. Len(v.Statements) - 1 : w.Statements[p] = v.Statements[p + 1]
<1> DEFINE none == <<>>
           w == GoneOn(v, none, condition, cases)
           n == Len(none)
           m == Len(v.Statements)
<1>1. n = 0
  OBVIOUS
<1>5. none \in Seq(Statements)
  BY EmptySeq
<1> HIDE DEF none
<1>6. IsGoneOn(v, none, condition, cases, w)
  BY <1>5, GoneOnType
<1> HIDE DEF w
<1>2. /\ w.Type = v.Type /\ w.Condition = v.Condition /\ w.Subject = v.Subject
      /\ w.CurrentSwitchCondition = condition /\ w.SwitchCases = cases
      /\ m \in Nat \ {0}
      /\ DOMAIN v.Statements = 1 .. m
      /\ DOMAIN w.Statements = 1 .. n + m - 1
      /\ \A p \in n + 1 .. n + m - 1 : w.Statements[p] = v.Statements[p - n + 1]
  BY <1>6 DEF IsGoneOn
<1> HIDE DEF n, m
<1>3. n + 1 = 1 /\ n + m - 1 = m - 1 /\ \A p \in 1 .. m - 1 : p - n + 1 = p + 1
  BY <1>1, <1>2
<1>4. \A p \in 1 .. m - 1 : w.Statements[p] = v.Statements[p + 1]
  BY <1>2, <1>3
<1> QED BY <1>2, <1>3, <1>4 DEF w, m, none

LEMMA LabelExpects ==
    ASSUME NEW v, IsSound(v), v.Statements # <<>>, NEW condition \in Conditions,
           NEW cases \in SUBSET Asking, NEW env, NEW T, Expects(v, env, T),
           \A p \in 1 .. Len(v.Statements) - 1 :
                IsLive(v, p + 1, env) => IsLive(GoneOn(v, <<>>, condition, cases), p, env)
    PROVE  Expects(GoneOn(v, <<>>, condition, cases), env, T)
<1> DEFINE w == GoneOn(v, <<>>, condition, cases)
<1>1. /\ w.Type = v.Type /\ w.Condition = v.Condition
      /\ Len(v.Statements) \in Nat \ {0} /\ DOMAIN v.Statements = 1 .. Len(v.Statements)
      /\ DOMAIN w.Statements = 1 .. Len(v.Statements) - 1
      /\ \A p \in 1 .. Len(v.Statements) - 1 : w.Statements[p] = v.Statements[p + 1]
  BY BehindLabel DEF IsSound
<1> HIDE DEF w
<1>2. ASSUME NEW p \in DOMAIN w.Statements, NEW at \in T \cap LocationsIn(<<w.Statements[p]>>)
      PROVE  Reached(w.Statements[p], env, at) /\ Guards(w, p, env)
  <2>1. p + 1 \in DOMAIN v.Statements /\ w.Statements[p] = v.Statements[p + 1]
    BY <1>1
  <2>2. Reached(v.Statements[p + 1], env, at) /\ Guards(v, p + 1, env)
    BY <1>2, <2>1 DEF Expects
  <2>3. IsLive(v, p + 1, env) => IsLive(w, p, env)
    BY <1>1 DEF w
  <2> QED BY <1>1, <2>1, <2>2, <2>3 DEF Guards
<1> QED BY <1>2 DEF Expects, w

\* What was to run behind the first statement still is.
LEMMA NoBreakBehind ==
    ASSUME NEW v \in WorkingVisitors, v.Statements # <<>>,
           NEW condition \in Conditions, NEW cases \in SUBSET Asking,
           NEW p \in 1 .. Len(v.Statements) - 1, NEW i \in 1 .. p, NoBreak(v, i, p),
           NEW j \in 1 .. p, j >= i - 1
    PROVE  NoBreak(GoneOn(v, <<>>, condition, cases), j, p - 1)
<1> DEFINE w == GoneOn(v, <<>>, condition, cases)
<1>1. /\ Len(v.Statements) \in Nat
      /\ \A q \in 1 .. Len(v.Statements) - 1 : w.Statements[q] = v.Statements[q + 1]
  BY BehindLabel
<1> HIDE DEF w
<1>2. ASSUME NEW q \in j .. p - 1 PROVE w.Statements[q].Kind # "BreakStmt"
  <2>1. q \in 1 .. Len(v.Statements) - 1 /\ q + 1 \in i .. p
    BY <1>1
  <2> QED BY <1>1, <2>1 DEF NoBreak
<1> QED BY <1>2 DEF NoBreak, w

LEMMA EntersBehind ==
    ASSUME NEW v \in WorkingVisitors, v.Statements # <<>>,
           NEW condition \in Conditions, NEW cases \in SUBSET Asking, NEW env,
           \A c \in cases : Evaluate(c, env) =>
                \/ \E d \in v.SwitchCases : Evaluate(d, env)
                \/ /\ v.Statements[1].Kind = "CaseStmt"
                   /\ v.Statements[1].Value = Resolve(env, v.Subject),
           NEW i \in 1 .. Len(v.Statements) - 1, Enters(v, i + 1, env)
    PROVE  Enters(GoneOn(v, <<>>, condition, cases), i, env)
<1> DEFINE w == GoneOn(v, <<>>, condition, cases)
<1>1. /\ w.Subject = v.Subject /\ w.SwitchCases = cases
      /\ Len(v.Statements) \in Nat \ {0} /\ DOMAIN v.Statements = 1 .. Len(v.Statements)
      /\ DOMAIN w.Statements = 1 .. Len(v.Statements) - 1
      /\ \A q \in 1 .. Len(v.Statements) - 1 : w.Statements[q] = v.Statements[q + 1]
  BY BehindLabel
<1> HIDE DEF w
<1>2. w.Statements[i] = v.Statements[i + 1]
  BY <1>1
<1>3. CASE w.Statements[i].Kind = "CaseStmt"
  BY <1>1, <1>2, <1>3 DEF Enters, w
<1>4. CASE w.Statements[i].Kind # "CaseStmt"
  <2>1. /\ w.Statements[i].Kind = "DefaultStmt"
        /\ \A d \in v.SwitchCases : ~Evaluate(d, env)
        /\ \A j \in DOMAIN v.Statements :
                v.Statements[j].Kind = "CaseStmt" => v.Statements[j].Value # Resolve(env, v.Subject)
    BY <1>2, <1>4 DEF Enters
  <2>2. 1 \in DOMAIN v.Statements /\ \A j \in DOMAIN w.Statements : j + 1 \in DOMAIN v.Statements
    BY <1>1
  <2>3. \A c \in w.SwitchCases : ~Evaluate(c, env)
    BY <1>1, <2>1, <2>2
  <2>4. \A j \in DOMAIN w.Statements :
            w.Statements[j].Kind = "CaseStmt" => w.Statements[j].Value # Resolve(env, w.Subject)
    BY <1>1, <2>1, <2>2
  <2> QED BY <2>1, <2>3, <2>4 DEF Enters, w
<1> QED BY <1>3, <1>4

\* A switch that is left by a break is only entered again behind it.
LEMMA BreakStaysLive ==
    ASSUME NEW v, IsSound(v), v.Statements # <<>>, v.Statements[1].Kind = "BreakStmt",
           NEW env, NEW p \in 1 .. Len(v.Statements) - 1, IsLive(v, p + 1, env)
    PROVE  IsLive(GoneOn(v, <<>>, Always, v.SwitchCases), p, env)
<1> DEFINE w == GoneOn(v, <<>>, Always, v.SwitchCases)
<1>1. v \in WorkingVisitors /\ v.SwitchCases \in SUBSET Asking /\ Always \in Conditions
      /\ Len(v.Statements) \in Nat
  BY AlwaysType, LenProperties DEF IsSound, WorkingVisitors, Visitors
<1>2. p \in Nat /\ (p + 1) - 1 = p /\ 1 \in 1 .. p
  BY <1>1
<1>3. ~NoBreak(v, 1, p)
  BY <1>2 DEF NoBreak
<1>4. PICK i \in 1 .. p : Enters(v, i, env) /\ NoBreak(v, i, p)
  BY <1>2, <1>3 DEF IsLive
<1>5. i # 1 /\ i \in Nat
  BY <1>2, <1>3, <1>4
<1>6. i - 1 \in 1 .. p - 1 /\ i - 1 \in 1 .. Len(v.Statements) - 1 /\ (i - 1) + 1 = i
      /\ i - 1 \in 1 .. p /\ i - 1 >= i - 1
  BY <1>1, <1>2, <1>5
<1>7. Enters(w, i - 1, env)
  BY <1>1, <1>4, <1>6, EntersBehind
<1>8. NoBreak(w, i - 1, p - 1)
  BY <1>1, <1>4, <1>6, NoBreakBehind
<1> QED BY <1>6, <1>7, <1>8 DEF IsLive

\* A label adds one more way to be inside of the switch.
LEMMA LabelStaysLive ==
    ASSUME NEW v, IsSound(v), v.Statements # <<>>, v.Statements[1].Kind \in Labels,
           NEW condition \in Conditions, NEW cases \in SUBSET Asking, NEW env,
           IsInside(v, env) \/ Enters(v, 1, env) =>
                IsInside(GoneOn(v, <<>>, condition, cases), env),
           \A i \in 1 .. Len(v.Statements) - 1 : Enters(v, i + 1, env) =>
                Enters(GoneOn(v, <<>>, condition, cases), i, env),
           NEW p \in 1 .. Len(v.Statements) - 1, IsLive(v, p + 1, env)
    PROVE  IsLive(GoneOn(v, <<>>, condition, cases), p, env)
<1> DEFINE w == GoneOn(v, <<>>, condition, cases)
<1>1. v \in WorkingVisitors /\ Len(v.Statements) \in Nat
  BY LenProperties DEF IsSound, WorkingVisitors, Visitors
<1>2. p \in Nat /\ (p + 1) - 1 = p /\ 1 \in 1 .. p /\ 1 >= 1 - 1
  BY <1>1
<1>3. ASSUME IsInside(w, env), NoBreak(v, 1, p) PROVE IsLive(w, p, env)
  <2>1. NoBreak(w, 1, p - 1)
    BY <1>1, <1>2, <1>3, NoBreakBehind
  <2> QED BY <1>3, <2>1 DEF IsLive
<1>4. CASE IsInside(v, env) /\ NoBreak(v, 1, p)
  BY <1>3, <1>4
<1>5. CASE \E i \in 1 .. p : Enters(v, i, env) /\ NoBreak(v, i, p)
  <2>1. PICK i \in 1 .. p : Enters(v, i, env) /\ NoBreak(v, i, p)
    BY <1>5
  <2>2. CASE i = 1
    BY <1>3, <2>1, <2>2
  <2>3. CASE i # 1
    <3>1. i - 1 \in 1 .. p - 1 /\ i - 1 \in 1 .. Len(v.Statements) - 1 /\ (i - 1) + 1 = i
          /\ i - 1 \in 1 .. p /\ i - 1 >= i - 1
      BY <1>1, <1>2, <2>3
    <3>2. Enters(w, i - 1, env)
      BY <2>1, <3>1
    <3>3. NoBreak(w, i - 1, p - 1)
      BY <1>1, <2>1, <3>1, NoBreakBehind
    <3> QED BY <3>1, <3>2, <3>3 DEF IsLive
  <2> QED BY <2>2, <2>3
<1> QED BY <1>2, <1>4, <1>5 DEF IsLive

\* The visitor of a switch behind each of them.
LEMMA BehindBreak ==
    ASSUME NEW v, IsSound(v), v.Type = "Case", v.Statements # <<>>,
           v.Statements[1].Kind = "BreakStmt"
    PROVE  LET w == GoneOn(v, <<>>, Always, v.SwitchCases) IN
           /\ IsSound(w)
           /\ \A env, T : Expects(v, env, T) => Expects(w, env, T)
<1>1. v.SwitchCases \in SUBSET Asking /\ Always \in Conditions
  BY AlwaysType DEF IsSound, WorkingVisitors
<1>2. \A c \in v.SwitchCases : \E value \in Primitives : c = MatchesCase(v.Subject, value)
  BY DEF IsSound, IsInSwitch
<1> QED BY <1>1, <1>2, NothingFits, GoneOnSound, BreakStaysLive, LabelExpects

LEMMA BehindCase ==
    ASSUME NEW v, IsSound(v), v.Type = "Case", v.Statements # <<>>,
           v.Statements[1].Kind = "CaseStmt"
    PROVE  LET c == MatchesCase(v.Subject, v.Statements[1].Value)
               w == GoneOn(v, <<>>, OrSwitchCondition(v.CurrentSwitchCondition, c),
                           v.SwitchCases \cup {c})
           IN /\ v.Statements[1].Value # Unknown
              /\ IsSound(w)
              /\ \A env \in Environments : \A T : Expects(v, env, T) => Expects(w, env, T)
<1> DEFINE value == v.Statements[1].Value
           c == MatchesCase(v.Subject, value)
           condition == OrSwitchCondition(v.CurrentSwitchCondition, c)
           cases == v.SwitchCases \cup {c}
           w == GoneOn(v, <<>>, condition, cases)
<1>1. /\ v \in WorkingVisitors /\ v.SwitchCases \in SUBSET Asking
      /\ v.CurrentSwitchCondition \in Conditions
      /\ v.Subject \in Copies \cup Primitives
      /\ v.Statements \in Seq(Statements)
  BY DEF IsSound, WorkingVisitors, Visitors
<1>2. 1 \in DOMAIN v.Statements /\ v.Statements[1] \in Statements
  BY <1>1, EmptySeq, LenProperties, ElementOfSeq
<1>3. value \in Primitives /\ value # Unknown
  <2>1. value # Unknown
    BY <1>2 DEF IsSound, IsInSwitch
  <2> QED BY <1>2, <2>1, StatementParts DEF Literals
<1>4. c \in Asking /\ c.Tautology = FALSE
  <2>1. Leaf(v.Subject, ComparedConstant("EQUAL", value)) \in Leaves
    BY <1>1, <1>3 DEF Leaf, Leaves, ComparedConstant, ValueRanges, Literals, COMPARISON
  <2>2. c \in Asking
    BY <2>1, WhenType DEF MatchesCase
  <2> QED BY <2>2, AskingParts
<1>5. condition \in Conditions /\ cases \in SUBSET Asking
  BY <1>1, <1>4, OrSwitchConditionType DEF Asking
<1>6. \A d \in cases : \E x \in Primitives : d = MatchesCase(v.Subject, x)
  BY <1>3 DEF IsSound, IsInSwitch
<1> HIDE DEF value, c, condition, cases, w
<1>7. IsSound(w)
  BY <1>5, <1>6, NothingFits, GoneOnSound DEF w
<1>8. ASSUME NEW env \in Environments, NEW T, Expects(v, env, T) PROVE Expects(w, env, T)
  <2>1. Evaluate(c, env) <=> value = Resolve(env, v.Subject)
    BY <1>1, <1>3, MatchesHolds DEF c
  <2>2. IsInside(v, env) \/ Enters(v, 1, env) => IsInside(w, env)
    <3> SUFFICES ASSUME IsInside(v, env) \/ Enters(v, 1, env) PROVE IsInside(w, env)
      OBVIOUS
    <3>1. w.CurrentSwitchCondition = condition
      BY <1>1, <1>5, BehindLabel DEF w
    <3>2. CASE v.CurrentSwitchCondition.Tautology
      <4>1. ~IsInside(v, env)
        BY <1>2, <3>2 DEF IsInside, Labels
      <4>2. Evaluate(c, env)
        BY <2>1, <4>1 DEF Enters, value
      <4>3. condition = c
        BY <3>2 DEF condition, OrSwitchCondition
      <4> QED BY <1>4, <3>1, <4>2, <4>3 DEF IsInside
    <3>3. CASE ~v.CurrentSwitchCondition.Tautology
      <4>1. condition = Or(v.CurrentSwitchCondition, c) /\ condition.Tautology = FALSE
        BY <1>4, <3>3 DEF condition, OrSwitchCondition, Or
      <4>2. Evaluate(v.CurrentSwitchCondition, env) \/ Evaluate(c, env)
        BY <2>1 DEF IsInside, Enters, value
      <4>3. Evaluate(condition, env)
        BY <4>1, <4>2, OrHolds
      <4> QED BY <3>1, <4>1, <4>3 DEF IsInside
    <3> QED BY <3>2, <3>3
  <2>3. \A i \in 1 .. Len(v.Statements) - 1 : Enters(v, i + 1, env) => Enters(w, i, env)
    <3>1. \A d \in cases : Evaluate(d, env) =>
                \/ \E e \in v.SwitchCases : Evaluate(e, env)
                \/ v.Statements[1].Kind = "CaseStmt" /\ v.Statements[1].Value = Resolve(env, v.Subject)
      BY <2>1 DEF cases, value
    <3> QED BY <1>1, <1>5, <3>1, EntersBehind DEF w
  <2>4. v.Statements[1].Kind \in Labels
    BY DEF Labels
  <2>5. \A p \in 1 .. Len(v.Statements) - 1 : IsLive(v, p + 1, env) => IsLive(w, p, env)
    BY <1>5, <2>2, <2>3, <2>4, LabelStaysLive DEF w
  <2> QED BY <1>5, <1>8, <2>5, LabelExpects DEF w
<1> QED BY <1>3, <1>7, <1>8 DEF value, c, condition, cases, w

LEMMA BehindDefault ==
    ASSUME NEW v, IsSound(v), v.Type = "Case", v.Statements # <<>>,
           v.Statements[1].Kind = "DefaultStmt"
    PROVE  LET w == GoneOn(v, <<>>, OrSwitchCondition(v.CurrentSwitchCondition,
                                                      NoneOf(v.SwitchCases)), v.SwitchCases)
           IN /\ IsSound(w)
              /\ \A env \in Environments : \A T : Expects(v, env, T) => Expects(w, env, T)
<1> DEFINE c == NoneOf(v.SwitchCases)
           condition == OrSwitchCondition(v.CurrentSwitchCondition, c)
           w == GoneOn(v, <<>>, condition, v.SwitchCases)
<1>1. /\ v \in WorkingVisitors /\ v.SwitchCases \in SUBSET Asking
      /\ v.CurrentSwitchCondition \in Conditions
      /\ v.Subject \in Copies \cup Primitives
      /\ v.Statements \in Seq(Statements)
  BY DEF IsSound, WorkingVisitors, Visitors
<1>2. 1 \in DOMAIN v.Statements /\ v.Statements[1] \in Statements
  BY <1>1, EmptySeq, LenProperties, ElementOfSeq
<1>3. condition \in Conditions
  BY <1>1, NoneOfType, OrSwitchConditionType
<1>4. \A d \in v.SwitchCases : \E x \in Primitives : d = MatchesCase(v.Subject, x)
  BY DEF IsSound, IsInSwitch
<1>5. \A j \in DOMAIN v.Statements : 1 < j => v.Statements[j].Kind \notin Labels
  BY <1>2 DEF IsSound, IsInSwitch
<1> HIDE DEF c, condition, w
<1>6. IsSound(w)
  BY <1>1, <1>3, <1>4, NothingFits, GoneOnSound DEF w
<1>7. ASSUME NEW env \in Environments, NEW T, Expects(v, env, T) PROVE Expects(w, env, T)
  <2>1. /\ w.CurrentSwitchCondition = condition
        /\ Len(v.Statements) \in Nat
        /\ DOMAIN v.Statements = 1 .. Len(v.Statements)
        /\ DOMAIN w.Statements = 1 .. Len(v.Statements) - 1
        /\ \A p \in 1 .. Len(v.Statements) - 1 : w.Statements[p] = v.Statements[p + 1]
    BY <1>1, <1>3, BehindLabel DEF w
  <2>2. \A i \in DOMAIN w.Statements : w.Statements[i].Kind \notin Labels
    <3> SUFFICES ASSUME NEW i \in 1 .. Len(v.Statements) - 1
                 PROVE  w.Statements[i].Kind \notin Labels
      BY <2>1
    <3>1. i + 1 \in DOMAIN v.Statements /\ 1 < i + 1
      BY <2>1
    <3> QED BY <1>5, <2>1, <3>1
  <2>3. IsInside(v, env) \/ Enters(v, 1, env) => IsInside(w, env)
    <3> SUFFICES ASSUME IsInside(v, env) \/ Enters(v, 1, env) PROVE Evaluate(condition, env)
      BY <2>1, <2>2 DEF IsInside
    <3>1. ASSUME Enters(v, 1, env) PROVE Evaluate(c, env)
      <4>1. \A d \in v.SwitchCases : ~Evaluate(d, env)
        BY <3>1 DEF Enters
      <4> QED BY <1>1, <1>4, <4>1, NoneOfHolds DEF c
    <3>2. CASE v.CurrentSwitchCondition.Tautology
      <4>1. ~IsInside(v, env)
        BY <1>2, <3>2 DEF IsInside, Labels
      <4> QED BY <3>1, <3>2, <4>1 DEF condition, OrSwitchCondition
    <3>3. CASE ~v.CurrentSwitchCondition.Tautology
      <4>1. Evaluate(v.CurrentSwitchCondition, env) \/ Evaluate(c, env)
        BY <3>1 DEF IsInside
      <4> QED BY <3>3, <4>1, OrHolds DEF condition, OrSwitchCondition
    <3> QED BY <3>2, <3>3
  <2>4. \A i \in 1 .. Len(v.Statements) - 1 : Enters(v, i + 1, env) => Enters(w, i, env)
    BY <1>1, <1>3, EntersBehind DEF w
  <2>5. v.Statements[1].Kind \in Labels
    BY DEF Labels
  <2>6. \A p \in 1 .. Len(v.Statements) - 1 : IsLive(v, p + 1, env) => IsLive(w, p, env)
    BY <1>1, <1>3, <2>3, <2>4, <2>5, LabelStaysLive DEF w
  <2> QED BY <1>1, <1>3, <1>7, <2>6, LabelExpects DEF w
<1> QED BY <1>6, <1>7 DEF c, condition, w

\* Any visitor behind any other statement.
LEMMA BehindOther ==
    ASSUME NEW v, IsSound(v), v.Statements # <<>>,
           v.Type = "Case" => v.Statements[1].Kind \notin Labels \cup {"BreakStmt"}
    PROVE  LET w == GoneOn(v, <<>>, v.CurrentSwitchCondition, v.SwitchCases) IN
           /\ IsSound(w)
           /\ \A env, T : Expects(v, env, T) => Expects(w, env, T)
<1>1. v.SwitchCases \in SUBSET Asking /\ v.CurrentSwitchCondition \in Conditions
  BY DEF IsSound, WorkingVisitors, Visitors
<1>2. v.Type = "Case" =>
            \A c \in v.SwitchCases : \E value \in Primitives : c = MatchesCase(v.Subject, value)
  BY DEF IsSound, IsInSwitch
<1>3. IsSound(GoneOn(v, <<>>, v.CurrentSwitchCondition, v.SwitchCases))
  BY <1>1, <1>2, NothingFits, GoneOnSound
<1>4. \A p \in 1 .. Len(<<>>) : FALSE
  BY NothingFits
<1> QED BY <1>3, <1>4, NothingFits, GoneOnExpects

----------------------------------------------------------------------------
(* What is in branches, switches and loops.                                *)

LEMMA PartsAreFollowable ==
    ASSUME NEW s, IsFollowable(s), NEW part \in ToSet(Parts(s))
    PROVE  /\ part \in Seq(Statements) /\ AreDistinct(part)
           /\ DOMAIN part = 1 .. Len(part) /\ Len(part) \in Nat
           /\ \A p \in 1 .. Len(part) : IsFollowable(part[p])
           /\ \A p \in 1 .. Len(part) : LocationsIn(<<part[p]>>) \subseteq LocationsIn(<<s>>)
<1>1. part \in Seq(Statements)
  BY PartsType DEF IsFollowable
<1>2. AreDistinct(part)
  BY InItself DEF IsOrdinary
<1>3. \A p \in 1 .. Len(part) : /\ IsFollowable(part[p])
                                /\ LocationsIn(<<part[p]>>) \subseteq LocationsIn(<<s>>)
  BY PartIsFollowable
<1> QED BY <1>1, <1>2, <1>3, LenProperties

LEMMA FromThePart ==
    ASSUME NEW s, IsFollowable(s), NEW part \in ToSet(Parts(s)), NEW i \in Nat \ {0}, NEW env,
           NEW n \in Nat, NEW at, ReachesFrom(part, i, env, n, at)
    PROVE  at \in LocationsIn(part)
<1>1. PICK m \in Nat : n = m + 1 /\ \E q \in i .. Len(part) :
            /\ Reaches(part[q], env, m, at)
            /\ \A r \in i .. q - 1 : part[r].Kind # "BreakStmt"
  BY DEF ReachesFrom
<1>2. PICK q \in i .. Len(part) : Reaches(part[q], env, m, at)
  BY <1>1
<1>3. q \in 1 .. Len(part)
  BY PartsAreFollowable
<1>4. IsFollowable(part[q]) /\ LocationsIn(<<part[q]>>) \subseteq LocationsIn(part)
  BY <1>3, PartIsFollowable
<1>5. at \in LocationsIn(<<part[q]>>)
  BY <1>2, <1>4, ReachedIsInside DEF IsFollowable
<1> QED BY <1>4, <1>5

LEMMA BranchReached ==
    ASSUME NEW s, IsFollowable(s), s.Kind = "IfStmt", NEW env, NEW at, Reached(s, env, at)
    PROVE  /\ at \in LocationsIn(s.Then) /\ s.Condition # NotParsed => LeafHolds(s.Condition, env)
           /\ at \in LocationsIn(s.Else) /\ s.Condition # NotParsed => ~LeafHolds(s.Condition, env)
           /\ \A part \in {s.Then, s.Else} : \A p \in 1 .. Len(part) :
                at \in LocationsIn(<<part[p]>>) => Reached(part[p], env, at)
<1>1. PICK n \in Nat : Reaches(s, env, n, at)
  BY DEF Reached
<1>2. BranchLeads(s, env, n, at)
  <2>1. s \in Statements /\ ~Recorded(s)
    BY DEF IsFollowable, Recorded
  <2> QED BY <1>1, <2>1, ReachesInside DEF SwitchLeads, LoopLeads
<1>3. PICK led \in {s.Then, s.Else} :
            /\ s.Condition # NotParsed =>
                    led = IF LeafHolds(s.Condition, env) THEN s.Then ELSE s.Else
            /\ ReachesFrom(led, 1, env, n, at)
  BY <1>2 DEF BranchLeads
<1>4. ToSet(Parts(s)) = {s.Then, s.Else} /\ 1 \in Nat \ {0}
  BY PartsType DEF IsFollowable
<1>5. at \in LocationsIn(led)
  BY <1>3, <1>4, FromThePart
<1>6. LocationsIn(s.Then) \cap LocationsIn(s.Else) = {}
  BY InItself DEF IsOrdinary
<1>7. ASSUME NEW part \in {s.Then, s.Else}, NEW p \in 1 .. Len(part),
             at \in LocationsIn(<<part[p]>>)
      PROVE  Reached(part[p], env, at)
  <2>1. at \in LocationsIn(part)
    BY <1>4, <1>7, PartIsFollowable
  <2>2. part = led
    BY <1>3, <1>5, <1>6, <1>7, <2>1
  <2>3. ReachesFrom(part, 1, env, n, at)
    BY <1>3, <2>2
  <2>4. /\ part \in Seq(Statements) /\ AreDistinct(part)
        /\ \A q \in 1 .. Len(part) : IsFollowable(part[q])
    BY <1>4, PartsAreFollowable
  <2> QED BY <1>4, <1>7, <2>3, <2>4, ReachedThere
<1> QED BY <1>3, <1>5, <1>6, <1>7

LEMMA LoopReached ==
    ASSUME NEW s, IsFollowable(s), s.Kind = "WhileStmt", NEW env, NEW at, Reached(s, env, at),
           NEW p \in 1 .. Len(s.Body), at \in LocationsIn(<<s.Body[p]>>)
    PROVE  Reached(s.Body[p], env, at)
<1>1. PICK n \in Nat : Reaches(s, env, n, at)
  BY DEF Reached
<1>2. ReachesFrom(s.Body, 1, env, n, at)
  <2>1. s \in Statements /\ ~Recorded(s)
    BY DEF IsFollowable, Recorded
  <2> QED BY <1>1, <2>1, ReachesInside DEF SwitchLeads, LoopLeads, BranchLeads
<1>3. s.Body \in ToSet(Parts(s)) /\ 1 \in Nat \ {0}
  BY PartsType DEF IsFollowable
<1>4. /\ s.Body \in Seq(Statements) /\ AreDistinct(s.Body)
      /\ \A q \in 1 .. Len(s.Body) : IsFollowable(s.Body[q])
  BY <1>3, PartsAreFollowable
<1> QED BY <1>2, <1>3, <1>4, ReachedThere

\* A switch begins at the label of its value or, when it has none, at the default.
LEMMA EntryEnters ==
    ASSUME NEW s, IsFollowable(s), s.Kind = "SwitchStmt", s.Subject # NotParsed,
           NEW env, NEW v, v.Statements = s.Body, v.Subject = s.Subject, v.SwitchCases = {},
           NEW i \in Entries(s.Body, s.Subject, env), i \in DOMAIN s.Body
    PROVE  Enters(v, i, env) /\ s.Body[i].Kind \in Labels
<1> DEFINE cases == {j \in DOMAIN s.Body : s.Body[j].Kind = "CaseStmt"}
           default == {j \in DOMAIN s.Body : s.Body[j].Kind = "DefaultStmt"}
           otherwise == IF default = {} THEN {Len(s.Body) + 1} ELSE default
           matching == {j \in cases : s.Body[j].Value = Resolve(env, s.Subject)}
<1>1. s.Body \in ToSet(Parts(s))
  BY PartsType DEF IsFollowable
<1>2. s.Body \in Seq(Statements) /\ DOMAIN s.Body = 1 .. Len(s.Body) /\ Len(s.Body) \in Nat
  BY <1>1, PartsAreFollowable
<1>3. \A j \in cases : s.Body[j].Value # Unknown
  <2>1. \A j \in DOMAIN s.Body : s.Body[j] \in ToSet(s.Body)
    BY <1>2, ElementsType
  <2> QED BY <2>1, InItself DEF IsOrdinary, OfKind
<1>4. i \in IF matching # {} THEN matching
            ELSE {j \in cases : s.Body[j].Value = Unknown} \cup otherwise
  BY DEF Entries
<1>5. CASE matching # {}
  BY <1>4, <1>5 DEF Enters, Labels
<1>6. CASE matching = {}
  <2>1. i \in otherwise
    BY <1>3, <1>4, <1>6
  <2>2. i # Len(s.Body) + 1
    BY <1>2
  <2>3. i \in default
    BY <2>1, <2>2
  <2>4. \A j \in DOMAIN s.Body :
            s.Body[j].Kind = "CaseStmt" => s.Body[j].Value # Resolve(env, s.Subject)
    BY <1>6
  <2> QED BY <2>3, <2>4 DEF Enters, Labels
<1> QED BY <1>5, <1>6

LEMMA LabelHasNoLocations ==
    ASSUME NEW s, IsFollowable(s), s.Kind \in Labels
    PROVE  LocationsIn(<<s>>) = {}
<1>1. ASSUME NEW t \in StatementsIn(<<s>>) PROVE t = s
  <2>1. <<s>> \in Seq(Statements) /\ IsNested(<<s>>) /\ ToSet(<<s>>) = {s}
    BY DEF IsFollowable, ToSet
  <2>2. ToSet(Parts(s)) = {}
    BY PartsType DEF IsFollowable, Labels
  <2>3. StatementsAt(<<s>>)[0] = {s} /\ StatementsAt(<<s>>)[1] = {}
    <3>1. 0 \in Nat /\ 0 + 1 = 1
      OBVIOUS
    <3>2. PartsOf({s}) = {}
      BY <2>2 DEF PartsOf
    <3> QED BY <2>1, <3>1, <3>2, LevelSteps
  <2> DEFINE Nothing == {n \in Nat : StatementsAt(<<s>>)[n + 1] = {}}
  <2>4. 0 \in Nothing
    BY <2>3
  <2>5. ASSUME NEW n \in Nat, n \in Nothing PROVE n + 1 \in Nothing
    <3>1. n + 1 \in Nat
      OBVIOUS
    <3>2. StatementsAt(<<s>>)[(n + 1) + 1] = PartsOf(StatementsAt(<<s>>)[n + 1])
      BY <2>1, <3>1, LevelSteps
    <3>3. PartsOf({}) = {}
      BY DEF PartsOf
    <3> QED BY <2>5, <3>1, <3>2, <3>3
  <2> HIDE DEF Nothing
  <2>6. Nat \subseteq Nothing
    BY <2>4, <2>5, Induction
  <2>7. PICK n \in Nat : t \in StatementsAt(<<s>>)[n]
    BY <2>1, StatementsInMeaning
  <2>8. CASE n = 0
    BY <2>3, <2>7, <2>8
  <2>9. CASE n # 0
    <3>1. n - 1 \in Nat /\ (n - 1) + 1 = n
      BY <2>9
    <3> QED BY <2>6, <2>7, <3>1 DEF Nothing
  <2> QED BY <2>8, <2>9
<1>2. ~Recorded(s)
  BY DEF Recorded, Labels
<1> QED BY <1>1, <1>2 DEF LocationsIn

LEMMA SwitchReached ==
    ASSUME NEW s, IsFollowable(s), s.Kind = "SwitchStmt", s.Subject # NotParsed,
           NEW env, NEW at, Reached(s, env, at),
           NEW v, v.Statements = s.Body, v.Subject = s.Subject, v.SwitchCases = {},
           NEW p \in 1 .. Len(s.Body), at \in LocationsIn(<<s.Body[p]>>)
    PROVE  Reached(s.Body[p], env, at) /\ IsLive(v, p, env)
<1>1. PICK n \in Nat : Reaches(s, env, n, at)
  BY DEF Reached
<1>2. SwitchLeads(s, env, n, at)
  <2>1. s \in Statements /\ ~Recorded(s)
    BY DEF IsFollowable, Recorded
  <2> QED BY <1>1, <2>1, ReachesInside DEF LoopLeads, BranchLeads
<1>3. PICK i \in Entries(s.Body, s.Subject, env) : ReachesFrom(s.Body, i, env, n, at)
  BY <1>2 DEF SwitchLeads
<1>4. s.Body \in ToSet(Parts(s))
  BY PartsType DEF IsFollowable
<1>5. /\ s.Body \in Seq(Statements) /\ AreDistinct(s.Body)
      /\ DOMAIN s.Body = 1 .. Len(s.Body) /\ Len(s.Body) \in Nat
      /\ \A q \in 1 .. Len(s.Body) : IsFollowable(s.Body[q])
  BY <1>4, PartsAreFollowable
<1>6. i \in 1 .. Len(s.Body) + 1
  BY <1>5, EntriesType
<1>7. i \in Nat \ {0}
  BY <1>5, <1>6
<1>8. /\ i <= p /\ Reached(s.Body[p], env, at)
      /\ \A q \in i .. p - 1 : s.Body[q].Kind # "BreakStmt"
  BY <1>3, <1>5, <1>7, ReachedThere
<1>9. i \in DOMAIN s.Body
  BY <1>5, <1>6, <1>8
<1>10. Enters(v, i, env) /\ s.Body[i].Kind \in Labels
  BY <1>9, EntryEnters
<1>11. i # p
  BY <1>5, <1>9, <1>10, LabelHasNoLocations
<1>12. i \in 1 .. p - 1
  BY <1>5, <1>7, <1>8, <1>11
<1>13. NoBreak(v, i, p - 1)
  BY <1>8 DEF NoBreak
<1> QED BY <1>8, <1>10, <1>12, <1>13 DEF IsLive

\* What a visitor asks for where it is, as GetCurrentCondition does.
CurrentConditionOf(v) ==
    IF v.Type = "Case" THEN And(v.Condition, v.CurrentSwitchCondition) ELSE v.Condition

LEMMA AtTheFirst ==
    ASSUME NEW v, IsSound(v), v.Statements # <<>>
    PROVE  /\ 1 \in DOMAIN v.Statements /\ Head(v.Statements) = v.Statements[1]
           /\ IsFollowable(v.Statements[1])
           /\ CurrentConditionOf(v) \in Conditions
           /\ \A env, T : Expects(v, env, T) => \A at \in T \cap LocationsIn(<<v.Statements[1]>>) :
                Reached(v.Statements[1], env, at) /\ Evaluate(CurrentConditionOf(v), env)
<1>1. /\ v.Statements \in Seq(Statements)
      /\ v.Condition \in Conditions /\ v.CurrentSwitchCondition \in Conditions
  BY DEF IsSound, WorkingVisitors, Visitors
<1>2. Len(v.Statements) \in Nat \ {0} /\ DOMAIN v.Statements = 1 .. Len(v.Statements)
  BY <1>1, EmptySeq, LenProperties
<1>3. 1 \in DOMAIN v.Statements /\ Head(v.Statements) = v.Statements[1]
  BY <1>1, <1>2
<1>4. ASSUME NEW env, NEW T, Expects(v, env, T), NEW at \in T \cap LocationsIn(<<v.Statements[1]>>)
      PROVE  Reached(v.Statements[1], env, at) /\ Evaluate(CurrentConditionOf(v), env)
  <2>1. Reached(v.Statements[1], env, at) /\ Guards(v, 1, env)
    BY <1>3, <1>4 DEF Expects
  <2>2. ASSUME v.Type = "Case" PROVE Evaluate(v.CurrentSwitchCondition, env)
    <3>1. IsLive(v, 1, env)
      BY <2>1, <2>2 DEF Guards
    <3> QED BY <3>1 DEF IsLive, IsInside
  <2> QED BY <2>1, <2>2, AndHolds DEF Guards, CurrentConditionOf
<1> QED BY <1>1, <1>3, <1>4, AndType DEF IsSound, CurrentConditionOf

\* Behind a loop, what is in it is visited by the same visitor.
LEMMA BehindLoop ==
    ASSUME NEW v, IsSound(v), v.Statements # <<>>, v.Statements[1].Kind = "WhileStmt"
    PROVE  LET w == GoneOn(v, v.Statements[1].Body, v.CurrentSwitchCondition, v.SwitchCases) IN
           /\ IsSound(w)
           /\ \A env, T : Expects(v, env, T) => Expects(w, env, T)
<1> DEFINE s == v.Statements[1]
           inner == s.Body
<1>1. IsFollowable(s) /\ s.Kind = "WhileStmt" /\ 1 \in DOMAIN v.Statements
  BY AtTheFirst
<1>2. inner \in ToSet(Parts(s))
  BY <1>1, PartsType DEF IsFollowable
<1>3. /\ inner \in Seq(Statements) /\ DOMAIN inner = 1 .. Len(inner)
      /\ \A p \in 1 .. Len(inner) : /\ IsFollowable(inner[p])
                                    /\ LocationsIn(<<inner[p]>>) \subseteq LocationsIn(<<s>>)
                                    /\ inner[p] \in ToSet(inner)
                                    /\ StatementsIn(<<inner[p]>>) \subseteq StatementsIn(inner)
  BY <1>1, <1>2, PartsAreFollowable, PartIsFollowable, ElementsType
<1>4. OfKind(Labels, ToSet(inner)) = {}
  BY <1>1, <1>2, InItself DEF IsOrdinary
<1>5. v.Type = "Case" => OfKind({"BreakStmt"}, StatementsIn(inner)) = {}
  BY <1>1 DEF IsSound, IsInSwitch
<1>6. FitsIn(v, inner)
  <2> SUFFICES ASSUME NEW p \in 1 .. Len(inner), v.Type = "Case"
               PROVE  /\ inner[p].Kind \notin Labels \cup {"BreakStmt"}
                      /\ inner[p].Kind = "WhileStmt" =>
                            OfKind({"BreakStmt"}, StatementsIn(inner[p].Body)) = {}
    BY <1>3 DEF FitsIn
  <2>1. inner[p] \in StatementsIn(<<inner[p]>>)
    BY <1>3, InItself
  <2>2. inner[p] \in StatementsIn(inner) /\ inner[p] \in ToSet(inner)
    BY <1>3, <2>1
  <2>3. inner[p].Kind # "BreakStmt" /\ inner[p].Kind \notin Labels
    BY <1>4, <1>5, <2>2 DEF OfKind
  <2>4. ASSUME inner[p].Kind = "WhileStmt" PROVE StatementsIn(inner[p].Body) \subseteq StatementsIn(inner)
    <3>1. inner[p].Body \in ToSet(Parts(inner[p]))
      BY <1>3, <2>4, PartsType DEF IsFollowable
    <3>2. StatementsIn(inner[p].Body) \subseteq StatementsIn(<<inner[p]>>)
      BY <1>3, <2>1, <3>1, StatementNested DEF IsFollowable
    <3> QED BY <1>3, <3>2
  <2> QED BY <1>5, <2>3, <2>4 DEF OfKind
<1>7. v.SwitchCases \in SUBSET Asking /\ v.CurrentSwitchCondition \in Conditions
  BY DEF IsSound, WorkingVisitors, Visitors
<1>8. v.Type = "Case" =>
            \A c \in v.SwitchCases : \E value \in Primitives : c = MatchesCase(v.Subject, value)
  BY DEF IsSound, IsInSwitch
<1> DEFINE w == GoneOn(v, inner, v.CurrentSwitchCondition, v.SwitchCases)
<1>9. IsSound(w)
  BY <1>3, <1>6, <1>7, <1>8, GoneOnSound
<1>10. ASSUME NEW env, NEW T, Expects(v, env, T) PROVE Expects(w, env, T)
  <2>1. ASSUME NEW p \in 1 .. Len(inner), NEW at \in T \cap LocationsIn(<<inner[p]>>)
        PROVE  Reached(inner[p], env, at) /\ at \in LocationsIn(<<s>>)
    <3>1. at \in LocationsIn(<<s>>)
      BY <1>3, <2>1
    <3>2. Reached(s, env, at)
      BY <1>10, <2>1, <3>1, AtTheFirst
    <3> QED BY <1>1, <2>1, <3>1, <3>2, LoopReached
  <2>2. v.Type = "Case" => s.Kind \notin Labels \cup {"BreakStmt"}
    BY <1>1 DEF Labels
  <2> HIDE DEF inner, s
  <2> QED BY <1>3, <1>6, <1>10, <2>1, <2>2, GoneOnExpects DEF s
<1> QED BY <1>9, <1>10

\* The visitors that are made of a branch and of a switch.
LEMMA BranchVisitor ==
    ASSUME NEW s, IsFollowable(s), s.Kind = "IfStmt", NEW part \in {s.Then, s.Else},
           NEW condition \in Conditions
    PROVE  LET v == ConditionalContentVisitor(condition, part) IN
           /\ IsSound(v)
           /\ \A env, T :
                (\A at \in T \cap LocationsIn(<<s>>) :
                    /\ Reached(s, env, at)
                    /\ at \in LocationsIn(part) => Evaluate(condition, env))
                => Expects(v, env, T)
<1> DEFINE v == ConditionalContentVisitor(condition, part)
<1>1. v.Type = "Conditional" /\ v.Condition = condition /\ v.Statements = part
  BY DEF ConditionalContentVisitor, Visitor
<1>2. part \in ToSet(Parts(s))
  BY PartsType DEF IsFollowable
<1>3. /\ part \in Seq(Statements) /\ DOMAIN part = 1 .. Len(part)
      /\ \A p \in 1 .. Len(part) : /\ IsFollowable(part[p])
                                   /\ LocationsIn(<<part[p]>>) \subseteq LocationsIn(<<s>>)
                                   /\ LocationsIn(<<part[p]>>) \subseteq LocationsIn(part)
  BY <1>2, PartsAreFollowable, PartIsFollowable
<1>4. v \in WorkingVisitors
  BY <1>3, NewVisitorType DEF ConditionalContentVisitor
<1> HIDE DEF v
<1>5. IsSound(v)
  BY <1>1, <1>3, <1>4 DEF IsSound
<1>6. ASSUME NEW env, NEW T,
             \A at \in T \cap LocationsIn(<<s>>) :
                    /\ Reached(s, env, at)
                    /\ at \in LocationsIn(part) => Evaluate(condition, env)
      PROVE  Expects(v, env, T)
  <2> SUFFICES ASSUME NEW p \in 1 .. Len(part), NEW at \in T \cap LocationsIn(<<part[p]>>)
               PROVE  Reached(part[p], env, at) /\ Guards(v, p, env)
    BY <1>1, <1>3 DEF Expects
  <2>1. Reached(s, env, at) /\ Evaluate(condition, env)
    BY <1>3, <1>6
  <2>2. Reached(part[p], env, at)
    BY <2>1, BranchReached
  <2> QED BY <1>1, <2>1, <2>2 DEF Guards
<1> QED BY <1>5, <1>6 DEF v

LEMMA SwitchVisitor ==
    ASSUME NEW s, IsFollowable(s), s.Kind = "SwitchStmt", s.Subject # NotParsed,
           NEW condition \in Conditions
    PROVE  LET v == CaseConditionalVisitor(condition, s.Subject, s.Body) IN
           /\ IsSound(v)
           /\ \A env, T :
                (\A at \in T \cap LocationsIn(<<s>>) : Reached(s, env, at) /\ Evaluate(condition, env))
                => Expects(v, env, T)
<1> DEFINE v == CaseConditionalVisitor(condition, s.Subject, s.Body)
<1>1. /\ v.Type = "Case" /\ v.Condition = condition /\ v.Statements = s.Body
      /\ v.Subject = s.Subject /\ v.SwitchCases = {}
  BY DEF CaseConditionalVisitor, Visitor
<1>2. s.Body \in ToSet(Parts(s)) /\ s.Subject \in Copies \cup Primitives \cup {NotParsed}
  BY PartsType, StatementParts DEF IsFollowable
<1>3. /\ s.Body \in Seq(Statements) /\ DOMAIN s.Body = 1 .. Len(s.Body)
      /\ \A p \in 1 .. Len(s.Body) : /\ IsFollowable(s.Body[p])
                                     /\ LocationsIn(<<s.Body[p]>>) \subseteq LocationsIn(<<s>>)
                                     /\ s.Body[p] \in ToSet(s.Body)
                                     /\ StatementsIn(<<s.Body[p]>>) \subseteq StatementsIn(s.Body)
  BY <1>2, PartsAreFollowable, PartIsFollowable, ElementsType
<1>4. v \in WorkingVisitors
  BY <1>2, <1>3, NewVisitorType DEF CaseConditionalVisitor
<1>5. IsOrdinary(s)
  BY InItself
<1> HIDE DEF v
<1>6. IsInSwitch(v)
  <2>1. ASSUME NEW i \in DOMAIN s.Body
        PROVE  /\ s.Body[i].Kind = "CaseStmt" => s.Body[i].Value # Unknown
               /\ s.Body[i].Kind = "DefaultStmt" =>
                    \A j \in DOMAIN s.Body : i < j => s.Body[j].Kind \notin Labels
               /\ s.Body[i].Kind = "WhileStmt" =>
                    OfKind({"BreakStmt"}, StatementsIn(s.Body[i].Body)) = {}
    <3>1. s.Body[i] \in StatementsIn(s.Body)
      BY <1>3, InItself
    <3> QED BY <1>3, <1>5, <3>1 DEF IsOrdinary, OfKind
  <2> QED BY <1>1, <2>1 DEF IsInSwitch
<1>7. IsSound(v)
  BY <1>1, <1>3, <1>4, <1>6 DEF IsSound
<1>8. ASSUME NEW env, NEW T,
             \A at \in T \cap LocationsIn(<<s>>) : Reached(s, env, at) /\ Evaluate(condition, env)
      PROVE  Expects(v, env, T)
  <2> SUFFICES ASSUME NEW p \in 1 .. Len(s.Body), NEW at \in T \cap LocationsIn(<<s.Body[p]>>)
               PROVE  Reached(s.Body[p], env, at) /\ Guards(v, p, env)
    BY <1>1, <1>3 DEF Expects
  <2>1. Reached(s, env, at) /\ Evaluate(condition, env)
    BY <1>3, <1>8
  <2>2. Reached(s.Body[p], env, at) /\ IsLive(v, p, env)
    BY <1>1, <2>1, SwitchReached
  <2> QED BY <1>1, <2>1, <2>2 DEF Guards
<1> QED BY <1>7, <1>8 DEF v

----------------------------------------------------------------------------
(* The steps.                                                              *)

Touched(body, env) == UNION {ToSet(run.Trace) : run \in RunsOf(body, env)}

\* The actions hold where the function has been visited, and the visitors at work
\* keep to it that those that are still to be added will.
IsCovered(env) ==
    \A i \in DOMAIN Target.Actions : Target.Locations[i] \in Touched(Body, env) => TakenIn(i, env)
CoverInv ==
    /\ unit \in Units
    /\ Len(Target.Locations) = Len(Target.Actions)
    /\ visitors # <<>> /\ IsFollowed(Body) =>
        /\ \A v \in ToSet(visitors) : IsSound(v)
        /\ \A env \in Environments :
            /\ IsCovered(env)
            /\ \A v \in ToSet(visitors) : Expects(v, env, Touched(Body, env))

LEMMA TheVisitors ==
    ASSUME TraversalInv, visitors # <<>>
    PROVE  /\ Top \in ToSet(visitors) /\ ToSet(Tail(visitors)) \subseteq ToSet(visitors)
           /\ Tail(visitors) \in Seq(WorkingVisitors)
<1>1. visitors \in Seq(WorkingVisitors) /\ Tail(visitors) \in Seq(WorkingVisitors)
  BY VisitedType DEF TraversalInv
<1>2. /\ Len(visitors) \in Nat \ {0} /\ DOMAIN visitors = 1 .. Len(visitors)
      /\ Len(Tail(visitors)) = Len(visitors) - 1
      /\ \A i \in 1 .. Len(visitors) - 1 : Tail(visitors)[i] = visitors[i + 1]
  BY <1>1, EmptySeq, LenProperties, HeadTailProperties
<1>3. Top \in ToSet(visitors)
  <2>1. Top = visitors[1] /\ 1 \in DOMAIN visitors
    BY <1>1, <1>2 DEF Top
  <2> QED BY <1>1, <2>1, ElementsType
<1>4. ASSUME NEW v \in ToSet(Tail(visitors)) PROVE v \in ToSet(visitors)
  <2>1. PICK i \in DOMAIN Tail(visitors) : v = Tail(visitors)[i]
    BY <1>1, ElementsType
  <2>2. DOMAIN Tail(visitors) = 1 .. Len(visitors) - 1
    BY <1>1, <1>2, LenProperties
  <2>3. i + 1 \in DOMAIN visitors /\ v = visitors[i + 1]
    BY <1>2, <2>1, <2>2
  <2> QED BY <1>1, <2>3, ElementsType
<1> QED BY <1>1, <1>3, <1>4

\* The visitors on the stack after a step are those that were below, the one that
\* was on top, and new ones.
LEMMA VisitorsGoOn ==
    ASSUME TraversalInv, CoverInv, visitors # <<>>, UNCHANGED <<unit, next>>,
           NEW parts \in Seq(WorkingVisitors), NEW w \in WorkingVisitors,
           visitors' = parts \o <<w>> \o Tail(visitors),
           Len(Target.Locations)' = Len(Target.Actions)',
           IsFollowed(Body) =>
                /\ \A v \in ToSet(parts) \cup {w} : IsSound(v)
                /\ \A env \in Environments :
                    /\ IsCovered(env)'
                    /\ \A v \in ToSet(parts) \cup {w} : Expects(v, env, Touched(Body, env))
    PROVE  CoverInv'
<1>1. Body' = Body
  BY DEF Body
<1>2. /\ Tail(visitors) \in Seq(WorkingVisitors)
      /\ ToSet(Tail(visitors)) \subseteq ToSet(visitors)
  BY TheVisitors
<1>3. ToSet(visitors') = ToSet(parts) \cup {w} \cup ToSet(Tail(visitors))
  <2> DEFINE one == <<w>>
             below == Tail(visitors)
  <2>1. one \in Seq(WorkingVisitors) /\ ToSet(one) = {w} /\ below \in Seq(WorkingVisitors)
    BY <1>2, Singleton DEF ToSet
  <2>2. visitors' = (parts \o one) \o below
    OBVIOUS
  <2> HIDE DEF one, below
  <2>3. parts \o one \in Seq(WorkingVisitors)
    BY <2>1, ConcatProperties
  <2>4. ToSet(parts \o one) = ToSet(parts) \cup ToSet(one)
    BY <2>1, ElementsOfConcat
  <2> DEFINE above == parts \o one
  <2> HIDE DEF above
  <2>6. above \in Seq(WorkingVisitors)
    BY <2>3 DEF above
  <2>5. ToSet(above \o below) = ToSet(above) \cup ToSet(below)
    BY <2>1, <2>6, ElementsOfConcat
  <2> QED BY <2>1, <2>2, <2>4, <2>5 DEF below, above
<1>4. ASSUME IsFollowed(Body), NEW v \in ToSet(visitors')
      PROVE  IsSound(v) /\ \A env \in Environments : Expects(v, env, Touched(Body, env))
  BY <1>2, <1>3, <1>4 DEF CoverInv
<1>5. unit' \in Units /\ (IsFollowed(Body) => \A env \in Environments : IsCovered(env)')
  BY DEF CoverInv
<1> QED BY <1>1, <1>4, <1>5 DEF CoverInv

LEMMA CoverStays ==
    ASSUME CoverInv, visitors # <<>>, IsFollowed(Body), UNCHANGED <<unit, next>>,
           Target.Actions' = Target.Actions, Target.Locations' = Target.Locations
    PROVE  \A env \in Environments : IsCovered(env)'
BY DEF CoverInv, IsCovered, Body, TakenIn

\* The visitor on top goes on, and nothing is added to the block.
LEMMA TopGoesOn ==
    ASSUME TraversalInv, CoverInv, visitors # <<>>, UNCHANGED <<unit, next>>,
           Target.Actions' = Target.Actions, Target.Locations' = Target.Locations,
           NEW parts \in Seq(WorkingVisitors), NEW w,
           visitors' = parts \o <<w>> \o Tail(visitors),
           IsSound(Top) => /\ IsSound(w)
                           /\ \A env \in Environments : \A T : Expects(Top, env, T) => Expects(w, env, T),
           w \in WorkingVisitors,
           IsFollowed(Body) => \A v \in ToSet(parts) :
                IsSound(v) /\ \A env \in Environments : Expects(v, env, Touched(Body, env))
    PROVE  CoverInv'
<1>1. Top \in ToSet(visitors)
  BY TheVisitors
<1>2. ASSUME IsFollowed(Body)
      PROVE  /\ IsSound(w) /\ \A env \in Environments : Expects(w, env, Touched(Body, env))
             /\ \A env \in Environments : IsCovered(env)'
  <2>1. IsSound(Top) /\ \A env \in Environments : Expects(Top, env, Touched(Body, env))
    BY <1>1, <1>2 DEF CoverInv
  <2> QED BY <1>2, <2>1, CoverStays
<1>3. Len(Target.Locations)' = Len(Target.Actions)' /\ UNCHANGED <<unit, next>>
  BY DEF CoverInv
<1>4. IsFollowed(Body) =>
        /\ \A v \in ToSet(parts) \cup {w} : IsSound(v)
        /\ \A env \in Environments :
            /\ IsCovered(env)'
            /\ \A v \in ToSet(parts) \cup {w} : Expects(v, env, Touched(Body, env))
  BY <1>2
<1> QED BY <1>3, <1>4, VisitorsGoOn

\* What the visitor is when it goes on.
LEMMA NextVisitor ==
    ASSUME NEW v \in WorkingVisitors
    PROVE  [v EXCEPT !.Statements = Tail(@)]
                = GoneOn(v, <<>>, v.CurrentSwitchCondition, v.SwitchCases)
<1>1. v.Statements \in Seq(Statements) /\ v \in Visitors
  BY DEF WorkingVisitors, Visitors
<1>2. <<>> \o Tail(v.Statements) = Tail(v.Statements)
  OBVIOUS
<1> QED BY <1>1, <1>2 DEF GoneOn, Visitors

LEMMA NothingNew ==
    /\ <<>> \in Seq(WorkingVisitors) /\ ToSet(<<>>) = {}
    /\ <<>> \in Seq(Statements)
BY EmptySeq DEF ToSet

\* Behind anything that is neither a label nor a break, with what is in it on top.
LEMMA PassStatement ==
    ASSUME TraversalInv, CoverInv, visitors # <<>>, Top.Statements # <<>>,
           UNCHANGED <<unit, next>>,
           Target.Actions' = Target.Actions, Target.Locations' = Target.Locations,
           Top.Type = "Case" => Statement.Kind \notin Labels \cup {"BreakStmt"},
           NEW parts \in Seq(WorkingVisitors), GoOn(Top, parts),
           IsFollowed(Body) => \A v \in ToSet(parts) :
                IsSound(v) /\ \A env \in Environments : Expects(v, env, Touched(Body, env))
    PROVE  CoverInv'
<1> DEFINE w == GoneOn(Top, <<>>, Top.CurrentSwitchCondition, Top.SwitchCases)
<1>1. /\ Top \in WorkingVisitors /\ Top.SwitchCases \in SUBSET Asking
      /\ Top.CurrentSwitchCondition \in Conditions
  BY VisitedType DEF WorkingVisitors, Visitors
<1>2. w \in WorkingVisitors
  BY <1>1, NothingNew, GoneOnType
<1>3. visitors' = parts \o <<w>> \o Tail(visitors)
  BY <1>1, NextVisitor DEF GoOn
<1>4. IsSound(Top) => /\ IsSound(w)
                      /\ \A env \in Environments : \A T : Expects(Top, env, T) => Expects(w, env, T)
  BY AtTheFirst, BehindOther DEF Statement
<1> HIDE DEF w
<1> QED BY <1>2, <1>3, <1>4, TopGoesOn

\* What the visitor on top says of the statement it is at.
LEMMA AtTheStatement ==
    ASSUME TraversalInv, CoverInv, visitors # <<>>, Top.Statements # <<>>, IsFollowed(Body)
    PROVE  /\ IsSound(Top) /\ IsFollowable(Statement) /\ Statement \in Statements
           /\ Statement = Top.Statements[1]
           /\ GetCurrentCondition \in Conditions
           /\ \A env \in Environments :
                /\ IsCovered(env)
                /\ \A at \in Touched(Body, env) \cap LocationsIn(<<Statement>>) :
                    Reached(Statement, env, at) /\ Evaluate(GetCurrentCondition, env)
<1>1. Top \in ToSet(visitors)
  BY TheVisitors
<1>2. /\ IsSound(Top)
      /\ \A env \in Environments : IsCovered(env) /\ Expects(Top, env, Touched(Body, env))
  BY <1>1 DEF CoverInv
<1>3. Statement = Top.Statements[1] /\ IsFollowable(Statement) /\ Statement \in Statements
  BY <1>2, AtTheFirst DEF Statement, IsFollowable
<1>4. GetCurrentCondition = CurrentConditionOf(Top)
  BY DEF GetCurrentCondition, CurrentConditionOf
<1>5. GetCurrentCondition \in Conditions
  BY <1>2, <1>4, AtTheFirst
<1>6. ASSUME NEW env \in Environments, NEW at \in Touched(Body, env) \cap LocationsIn(<<Statement>>)
      PROVE  Reached(Statement, env, at) /\ Evaluate(GetCurrentCondition, env)
  BY <1>2, <1>3, <1>4, AtTheFirst
<1> QED BY <1>2, <1>3, <1>5, <1>6

\* The visitor on top goes on behind the statement, and is as it was.
LEMMA GoneOnBehind ==
    ASSUME TraversalInv, visitors # <<>>, Top.Statements # <<>>,
           NEW parts \in Seq(WorkingVisitors), GoOn(Top, parts)
    PROVE  LET w == GoneOn(Top, <<>>, Top.CurrentSwitchCondition, Top.SwitchCases) IN
           w \in WorkingVisitors /\ visitors' = parts \o <<w>> \o Tail(visitors)
<1>1. /\ Top \in WorkingVisitors /\ Top.SwitchCases \in SUBSET Asking
      /\ Top.CurrentSwitchCondition \in Conditions
  BY VisitedType DEF WorkingVisitors, Visitors
<1>2. GoneOn(Top, <<>>, Top.CurrentSwitchCondition, Top.SwitchCases) \in WorkingVisitors
  BY <1>1, NothingNew, GoneOnType
<1> QED BY <1>1, <1>2, NextVisitor DEF GoOn

LEMMA Appended ==
    ASSUME NEW S, NEW s \in Seq(S), NEW x
    PROVE  /\ Len(s) \in Nat /\ DOMAIN s = 1 .. Len(s)
           /\ Len(Append(s, x)) = Len(s) + 1 /\ DOMAIN Append(s, x) = 1 .. Len(s) + 1
           /\ \A i \in 1 .. Len(s) : Append(s, x)[i] = s[i]
           /\ Append(s, x)[Len(s) + 1] = x
<1>1. s \in Seq(S \cup {x})
  BY SeqMonotonic
<1> QED BY <1>1, AppendProperties, LenProperties

\* A new action has the condition of the visitor on top, which holds where its
\* statement runs.
LEMMA AddedIsCovered ==
    ASSUME TraversalInv, CoverInv, visitors # <<>>, Top.Statements # <<>>, IsFollowed(Body),
           UNCHANGED <<unit, next>>, Recorded(Statement),
           NEW action, action.If = GetCurrentCondition, AddProcessedAction(action),
           NEW env \in Environments
    PROVE  IsCovered(env)'
<1>1. Target \in Blocks /\ Len(Target.Locations) = Len(Target.Actions)
  BY DEF TraversalInv, TraversalTypeOK, CoverInv
<1>2. Target.Actions \in Seq(ProcessedActions) /\ Target.Locations \in Seq(Nat)
  BY <1>1 DEF Blocks
<1>3. /\ Target'.Actions = Append(Target.Actions, action)
      /\ Target'.Locations = Append(Target.Locations, Statement.At)
  BY <1>1 DEF AddProcessedAction, Blocks
<1>4. Body' = Body
  BY DEF Body
<1> DEFINE n == Len(Target.Actions)
<1>5. /\ n \in Nat /\ DOMAIN Target.Actions = 1 .. n /\ DOMAIN Target'.Actions = 1 .. n + 1
      /\ \A i \in 1 .. n : /\ Target'.Actions[i] = Target.Actions[i]
                           /\ Target'.Locations[i] = Target.Locations[i]
      /\ Target'.Actions[n + 1] = action /\ Target'.Locations[n + 1] = Statement.At
  BY <1>1, <1>2, <1>3, Appended
<1> HIDE DEF n
<1>6. SUFFICES ASSUME NEW i \in 1 .. n + 1, Target'.Locations[i] \in Touched(Body, env)
               PROVE  Evaluate(Target'.Actions[i].If, env)
  BY <1>4, <1>5 DEF IsCovered, TakenIn
<1>7. CASE i \in 1 .. n
  BY <1>5, <1>6, <1>7, AtTheStatement DEF IsCovered, TakenIn
<1>8. CASE i = n + 1
  <2>1. Statement.At \in Touched(Body, env)
    BY <1>5, <1>6, <1>8
  <2>2. IsFollowable(Statement)
    BY AtTheStatement
  <2>3. Statement \in StatementsIn(<<Statement>>)
    BY <2>2, InItself
  <2>4. Statement.At \in LocationsIn(<<Statement>>)
    BY <2>3 DEF LocationsIn
  <2>5. Evaluate(GetCurrentCondition, env)
    BY <2>1, <2>4, AtTheStatement
  <2> QED BY <1>5, <1>8, <2>5
<1> QED BY <1>5, <1>7, <1>8

LEMMA ActionCovers ==
    ASSUME TraversalInv, CoverInv,
           VisitVarDecl \/ VisitBinaryOperator \/ VisitArraySubscriptExpr \/ TraverseCallExpr
    PROVE  CoverInv'
<1>1. /\ visitors # <<>> /\ Top.Statements # <<>> /\ GoOn(Top, <<>>)
      /\ UNCHANGED <<unit, next>>
      /\ Statement.Kind \in {"VarDecl", "Assign", "ArraySubscriptExpr", "CallExpr"}
  BY DEF VisitVarDecl, VisitBinaryOperator, VisitArraySubscriptExpr, TraverseCallExpr, Visits
<1>2. Statement.Kind \notin Labels \cup {"BreakStmt"}
  BY <1>1 DEF Labels
<1>3. \/ UNCHANGED Target
      \/ /\ Recorded(Statement)
         /\ \E action : action.If = GetCurrentCondition /\ AddProcessedAction(action)
  <2>1. CASE VisitVarDecl
    <3> DEFINE action == [Kind |-> "VarDeclared", If |-> GetCurrentCondition,
                          Variable |-> Statement.Variable, State |-> Statement.State]
    <3>1. action.If = GetCurrentCondition /\ AddProcessedAction(action) /\ Recorded(Statement)
      BY <2>1 DEF VisitVarDecl, Visits, Recorded
    <3> QED BY <3>1
  <2>2. CASE VisitBinaryOperator
    <3> DEFINE action == [Kind |-> "VarAssigned", If |-> GetCurrentCondition,
                          Variable |-> Statement.Variable, State |-> Statement.State]
    <3>1. UNCHANGED Target \/ (AddProcessedAction(action) /\ Recorded(Statement))
      BY <2>2 DEF VisitBinaryOperator, Visits, Recorded
    <3>2. action.If = GetCurrentCondition
      OBVIOUS
    <3> QED BY <3>1, <3>2
  <2>3. CASE VisitArraySubscriptExpr
    <3> DEFINE action == [Kind |-> "ArrayIndexAccess", If |-> GetCurrentCondition,
                          Array |-> Statement.Array, Index |-> Statement.Index]
    <3>1. UNCHANGED Target \/ (AddProcessedAction(action) /\ Recorded(Statement))
      BY <2>3 DEF VisitArraySubscriptExpr, Visits, Recorded
    <3>2. action.If = GetCurrentCondition
      OBVIOUS
    <3> QED BY <3>1, <3>2
  <2>4. CASE TraverseCallExpr
    <3> DEFINE action == [Kind |-> "FunctionCall", If |-> GetCurrentCondition,
                          Function |-> Statement.Function, Params |-> Statement.Params]
    <3>1. UNCHANGED Target \/ (AddProcessedAction(action) /\ Recorded(Statement))
      BY <2>4 DEF TraverseCallExpr, Visits, Recorded
    <3>2. action.If = GetCurrentCondition
      OBVIOUS
    <3> QED BY <3>1, <3>2
  <2> QED BY <2>1, <2>2, <2>3, <2>4
<1> DEFINE none == <<>>
<1>4. none \in Seq(WorkingVisitors) /\ ToSet(none) = {} /\ GoOn(Top, none)
  BY <1>1, NothingNew
<1> HIDE DEF none
<1>5. CASE UNCHANGED Target
  BY <1>1, <1>2, <1>4, <1>5, PassStatement
<1>6. CASE /\ Recorded(Statement)
           /\ \E action : action.If = GetCurrentCondition /\ AddProcessedAction(action)
  <2>1. PICK action : action.If = GetCurrentCondition /\ AddProcessedAction(action)
    BY <1>6
  <2> DEFINE w == GoneOn(Top, <<>>, Top.CurrentSwitchCondition, Top.SwitchCases)
  <2>2. w \in WorkingVisitors /\ visitors' = none \o <<w>> \o Tail(visitors)
    BY <1>1, <1>4, GoneOnBehind
  <2>3. Len(Target.Locations)' = Len(Target.Actions)'
    <3>1. Target \in Blocks /\ Len(Target.Locations) = Len(Target.Actions)
      BY DEF TraversalInv, TraversalTypeOK, CoverInv
    <3>2. Target.Actions \in Seq(ProcessedActions) /\ Target.Locations \in Seq(Nat)
      BY <3>1 DEF Blocks
    <3>3. /\ Target'.Actions = Append(Target.Actions, action)
          /\ Target'.Locations = Append(Target.Locations, Statement.At)
      BY <2>1, <3>1 DEF AddProcessedAction, Blocks
    <3> QED BY <3>1, <3>2, <3>3, Appended
  <2>4. ASSUME IsFollowed(Body)
        PROVE  /\ IsSound(w)
               /\ \A env \in Environments : IsCovered(env)' /\ Expects(w, env, Touched(Body, env))
    <3>1. IsSound(Top) /\ Statement = Top.Statements[1]
      BY <1>1, <2>4, AtTheStatement
    <3>2. Top \in ToSet(visitors)
      BY <1>1, TheVisitors
    <3>3. \A env \in Environments : Expects(Top, env, Touched(Body, env))
      BY <1>1, <2>4, <3>2 DEF CoverInv
    <3>4. IsSound(w) /\ \A env, T : Expects(Top, env, T) => Expects(w, env, T)
      BY <1>1, <1>2, <3>1, BehindOther
    <3>5. \A env \in Environments : IsCovered(env)'
      BY <1>1, <1>6, <2>1, <2>4, AddedIsCovered
    <3> QED BY <3>3, <3>4, <3>5
  <2> HIDE DEF w
  <2>5. IsFollowed(Body) =>
            /\ \A v \in ToSet(none) \cup {w} : IsSound(v)
            /\ \A env \in Environments :
                /\ IsCovered(env)'
                /\ \A v \in ToSet(none) \cup {w} : Expects(v, env, Touched(Body, env))
    BY <1>4, <2>4
  <2> QED BY <1>1, <1>4, <2>2, <2>3, <2>5, VisitorsGoOn
<1> QED BY <1>3, <1>5, <1>6

LEMMA PassCovers ==
    ASSUME TraversalInv, CoverInv, PassOver \/ VisitParmVarDecl
    PROVE  CoverInv'
<1>1. /\ visitors # <<>> /\ Top.Statements # <<>> /\ GoOn(Top, <<>>)
      /\ UNCHANGED <<unit, next>>
      /\ Top.Type = "Case" => Statement.Kind \notin Labels \cup {"BreakStmt"}
  BY DEF PassOver, VisitParmVarDecl, Visits, Labels
<1>2. Target.Actions' = Target.Actions /\ Target.Locations' = Target.Locations
  <2>1. CASE PassOver
    BY <2>1 DEF PassOver
  <2>2. CASE VisitParmVarDecl
    BY <2>2 DEF VisitParmVarDecl, TraversalInv, TraversalTypeOK, Blocks
  <2> QED BY <2>1, <2>2
<1> DEFINE none == <<>>
<1>3. none \in Seq(WorkingVisitors) /\ ToSet(none) = {} /\ GoOn(Top, none)
  BY <1>1, NothingNew
<1> HIDE DEF none
<1> QED BY <1>1, <1>2, <1>3, PassStatement

LEMMA WhileCovers ==
    ASSUME TraversalInv, CoverInv, TraverseWhileStmt
    PROVE  CoverInv'
<1> DEFINE none == <<>>
           w == GoneOn(Top, Statement.Body, Top.CurrentSwitchCondition, Top.SwitchCases)
<1>1. /\ visitors # <<>> /\ Top.Statements # <<>> /\ Statement.Kind = "WhileStmt"
      /\ visitors' = <<[Top EXCEPT !.Statements = Statement.Body \o Tail(@)]>> \o Tail(visitors)
      /\ UNCHANGED <<unit, next, Target>>
  BY DEF TraverseWhileStmt, Visits
<1>2. /\ Top \in WorkingVisitors /\ Statement \in Statements /\ Statement.Body \in Seq(Statements)
      /\ Tail(visitors) \in Seq(WorkingVisitors)
  BY <1>1, VisitedType, StatementParts
<1>3. Top.CurrentSwitchCondition \in Conditions /\ Top.SwitchCases \in SUBSET Asking
  BY <1>2 DEF WorkingVisitors, Visitors
<1>4. w = [Top EXCEPT !.Statements = Statement.Body \o Tail(@)]
  BY <1>2 DEF GoneOn, WorkingVisitors, Visitors
<1>5. w \in WorkingVisitors
  BY <1>1, <1>2, <1>3, GoneOnType
<1>6. IsSound(Top) => /\ IsSound(w)
                      /\ \A env \in Environments : \A T : Expects(Top, env, T) => Expects(w, env, T)
  BY <1>1, AtTheFirst, BehindLoop DEF Statement
<1> HIDE DEF w
<1>7. <<w>> \in Seq(WorkingVisitors)
  BY <1>5, Singleton
<1>8. none \in Seq(WorkingVisitors) /\ ToSet(none) = {} /\ none \o <<w>> = <<w>>
  BY <1>7, NothingNew
<1> HIDE DEF none
<1>9. visitors' = none \o <<w>> \o Tail(visitors)
  BY <1>1, <1>4, <1>8
<1> QED BY <1>1, <1>5, <1>6, <1>8, <1>9, TopGoesOn

\* A label or a break, behind which the visitor has another condition.
LEMMA LabelCovers ==
    ASSUME TraversalInv, CoverInv, visitors # <<>>, Top.Statements # <<>>,
           UNCHANGED <<unit, next, Target>>,
           NEW condition \in Conditions, NEW cases \in SUBSET Asking,
           GoOn([Top EXCEPT !.SwitchCases = cases, !.CurrentSwitchCondition = condition], <<>>),
           IsSound(Top) =>
                LET w == GoneOn(Top, <<>>, condition, cases) IN
                /\ IsSound(w)
                /\ \A env \in Environments : \A T : Expects(Top, env, T) => Expects(w, env, T)
    PROVE  CoverInv'
<1> DEFINE none == <<>>
           w == GoneOn(Top, <<>>, condition, cases)
<1>1. Top \in WorkingVisitors /\ Tail(visitors) \in Seq(WorkingVisitors)
  BY VisitedType
<1>2. w \in WorkingVisitors
  BY <1>1, NothingNew, GoneOnType
<1> DEFINE visitor == [Top EXCEPT !.SwitchCases = cases, !.CurrentSwitchCondition = condition]
<1>3. visitors' = none \o <<w>> \o Tail(visitors)
  <2>1. [visitor EXCEPT !.Statements = Tail(@)] = w
    <3>1. Top.Statements \in Seq(Statements) /\ Top \in Visitors
      BY <1>1 DEF WorkingVisitors, Visitors
    <3>2. <<>> \o Tail(Top.Statements) = Tail(Top.Statements)
      BY <3>1
    <3>3. w = [Top EXCEPT !.Statements = Tail(Top.Statements),
                          !.CurrentSwitchCondition = condition, !.SwitchCases = cases]
      BY <3>2 DEF GoneOn
    <3> QED BY <3>1, <3>3 DEF Visitors
  <2>2. GoOn(visitor, none)
    OBVIOUS
  <2> HIDE DEF visitor, w, none
  <2> QED BY <2>1, <2>2 DEF GoOn
<1>4. none \in Seq(WorkingVisitors) /\ ToSet(none) = {}
  BY NothingNew
<1>5. IsSound(Top) => /\ IsSound(w)
                      /\ \A env \in Environments : \A T : Expects(Top, env, T) => Expects(w, env, T)
  OBVIOUS
<1> HIDE DEF none, w
<1> QED BY <1>2, <1>3, <1>4, <1>5, TopGoesOn

LEMMA CaseCovers ==
    ASSUME TraversalInv, CoverInv, VisitCaseStmt
    PROVE  CoverInv'
<1> DEFINE c == MatchesCase(Top.Subject, Statement.Value)
           current == Top.CurrentSwitchCondition
<1>1. /\ visitors # <<>> /\ Top.Statements # <<>>
      /\ GoOn(IF Statement.Value = Unknown THEN Top
              ELSE [Top EXCEPT !.SwitchCases = @ \cup {c},
                               !.CurrentSwitchCondition = OrSwitchCondition(@, c)], <<>>)
      /\ UNCHANGED <<unit, next, Target>>
      /\ Statement.Kind = "CaseStmt" /\ Top.Type = "Case"
  BY DEF VisitCaseStmt, Visits, MatchesCase
<1>2. /\ Top \in WorkingVisitors /\ Top \in Visitors /\ Statement.Value \in Literals
      /\ Top.Subject \in Copies \cup Primitives
      /\ current \in Conditions /\ Top.SwitchCases \in SUBSET Asking
  BY <1>1, VisitedType, StatementParts DEF WorkingVisitors, Visitors
<1>3. c \in Asking /\ c \in Conditions
  <2>1. Leaf(Top.Subject, ComparedConstant("EQUAL", Statement.Value)) \in Leaves
    BY <1>2 DEF Leaf, Leaves, ComparedConstant, ValueRanges, COMPARISON, Literals
  <2> QED BY <2>1, WhenType DEF MatchesCase, Asking
<1>4. OrSwitchCondition(current, c) \in Conditions /\ Top.SwitchCases \cup {c} \in SUBSET Asking
  BY <1>2, <1>3, OrSwitchConditionType
<1>5. IsSound(Top) =>
        LET w == GoneOn(Top, <<>>, OrSwitchCondition(current, c), Top.SwitchCases \cup {c})
        IN /\ Statement.Value # Unknown
           /\ IsSound(w)
           /\ \A env \in Environments : \A T : Expects(Top, env, T) => Expects(w, env, T)
  BY <1>1, AtTheFirst, BehindCase DEF Statement
<1>6. CASE Statement.Value # Unknown
  <2>1. GoOn([Top EXCEPT !.SwitchCases = Top.SwitchCases \cup {c},
                         !.CurrentSwitchCondition = OrSwitchCondition(current, c)], <<>>)
    BY <1>1, <1>2, <1>6 DEF Visitors
  <2> HIDE DEF c, current
  <2> QED BY <1>1, <1>4, <1>5, <2>1, LabelCovers
<1>7. CASE Statement.Value = Unknown
  <2>1. [Top EXCEPT !.SwitchCases = Top.SwitchCases, !.CurrentSwitchCondition = current] = Top
    BY <1>2 DEF Visitors
  <2>2. GoOn([Top EXCEPT !.SwitchCases = Top.SwitchCases, !.CurrentSwitchCondition = current], <<>>)
    BY <1>1, <1>7, <2>1
  <2>3. ~IsSound(Top)
    BY <1>5, <1>7
  <2> HIDE DEF c, current
  <2> QED BY <1>1, <1>2, <2>2, <2>3, LabelCovers
<1> QED BY <1>6, <1>7

LEMMA BreakCovers ==
    ASSUME TraversalInv, CoverInv, VisitBreakStmt
    PROVE  CoverInv'
<1>1. /\ visitors # <<>> /\ Top.Statements # <<>>
      /\ GoOn([Top EXCEPT !.CurrentSwitchCondition = Always], <<>>)
      /\ UNCHANGED <<unit, next, Target>>
      /\ Statement.Kind = "BreakStmt" /\ Top.Type = "Case"
  BY DEF VisitBreakStmt, Visits
<1>2. Top \in WorkingVisitors /\ Top \in Visitors /\ Top.SwitchCases \in SUBSET Asking
  BY <1>1, VisitedType DEF WorkingVisitors, Visitors
<1>3. GoOn([Top EXCEPT !.SwitchCases = Top.SwitchCases, !.CurrentSwitchCondition = Always], <<>>)
  <2>1. [Top EXCEPT !.SwitchCases = Top.SwitchCases, !.CurrentSwitchCondition = Always]
            = [Top EXCEPT !.CurrentSwitchCondition = Always]
    BY <1>2 DEF Visitors
  <2> QED BY <1>1, <2>1
<1>4. IsSound(Top) =>
        LET w == GoneOn(Top, <<>>, Always, Top.SwitchCases) IN
        /\ IsSound(w)
        /\ \A env \in Environments : \A T : Expects(Top, env, T) => Expects(w, env, T)
  BY <1>1, AtTheFirst, BehindBreak DEF Statement
<1> QED BY <1>1, <1>2, <1>3, <1>4, AlwaysType, LabelCovers

LEMMA DefaultCovers ==
    ASSUME TraversalInv, CoverInv, VisitDefaultStmt
    PROVE  CoverInv'
<1> DEFINE condition == OrSwitchCondition(Top.CurrentSwitchCondition, NoneOf(Top.SwitchCases))
<1>1. /\ visitors # <<>> /\ Top.Statements # <<>>
      /\ GoOn([Top EXCEPT !.CurrentSwitchCondition =
                            OrSwitchCondition(@, NoneOf(Top.SwitchCases))], <<>>)
      /\ UNCHANGED <<unit, next, Target>>
      /\ Statement.Kind = "DefaultStmt" /\ Top.Type = "Case"
  BY DEF VisitDefaultStmt, Visits
<1>2. /\ Top \in WorkingVisitors /\ Top \in Visitors /\ Top.SwitchCases \in SUBSET Asking
      /\ Top.CurrentSwitchCondition \in Conditions
  BY <1>1, VisitedType DEF WorkingVisitors, Visitors
<1>3. condition \in Conditions
  BY <1>2, NoneOfType, OrSwitchConditionType
<1>4. GoOn([Top EXCEPT !.SwitchCases = Top.SwitchCases, !.CurrentSwitchCondition = condition], <<>>)
  <2>1. [Top EXCEPT !.SwitchCases = Top.SwitchCases, !.CurrentSwitchCondition = condition]
            = [Top EXCEPT !.CurrentSwitchCondition =
                            OrSwitchCondition(@, NoneOf(Top.SwitchCases))]
    BY <1>2 DEF Visitors
  <2> QED BY <1>1, <2>1
<1>5. IsSound(Top) =>
        LET w == GoneOn(Top, <<>>, condition, Top.SwitchCases) IN
        /\ IsSound(w)
        /\ \A env \in Environments : \A T : Expects(Top, env, T) => Expects(w, env, T)
  BY <1>1, AtTheFirst, BehindDefault DEF Statement
<1> HIDE DEF condition
<1> QED BY <1>1, <1>2, <1>3, <1>4, <1>5, LabelCovers

LEMMA LeaveCovers ==
    ASSUME TraversalInv, CoverInv, LeaveVisitor
    PROVE  CoverInv'
<1>1. /\ visitors # <<>> /\ visitors' = Tail(visitors) /\ UNCHANGED <<unit, next, Target>>
  BY DEF LeaveVisitor
<1>2. ToSet(visitors') \subseteq ToSet(visitors)
  BY <1>1, TheVisitors
<1>3. Body' = Body /\ \A env : IsCovered(env)' <=> IsCovered(env)
  BY <1>1 DEF Body, IsCovered, TakenIn
<1> QED BY <1>1, <1>2, <1>3 DEF CoverInv

LEMMA AddBlockCovers ==
    ASSUME CoverInv, AddBlock
    PROVE  CoverInv'
<1>1. unit' = unit /\ visitors' = <<>> /\ Target' = EmptyBlock
  BY DEF AddBlock
<1> QED BY <1>1 DEF CoverInv, EmptyBlock

\* A function's own visitor expects what its body's runs reach.
LEMMA FunctionCovers ==
    ASSUME TraversalInv, CoverInv, TraverseFunctionDecl
    PROVE  CoverInv'
<1> DEFINE v == FunctionVisitor(Body)
<1>1. /\ visitors' = <<v>> /\ UNCHANGED <<unit, next>> /\ Body' = Body
      /\ Target' = [EmptyBlock EXCEPT !.Parameters = unit[next].Parameters]
      /\ next <= Len(unit)
  BY DEF TraverseFunctionDecl, Body
<1>2. Target'.Actions = <<>> /\ Target'.Locations = <<>>
  BY <1>1 DEF EmptyBlock
<1>3. /\ unit \in Units /\ next \in 1 .. Len(unit) /\ unit \in Seq(Declarations)
      /\ Len(unit) \in Nat /\ next \in DOMAIN unit /\ unit[next] \in Declarations
  <2>1. unit \in Seq(Declarations) /\ next \in 1 .. Len(unit) + 1
    BY DEF TraversalInv, TraversalTypeOK
  <2>2. Len(unit) \in Nat /\ DOMAIN unit = 1 .. Len(unit)
    BY <2>1, LenProperties
  <2> QED BY <1>1, <2>1, <2>2, ElementOfSeq DEF CoverInv
<1>4. /\ Body \in Seq(Statements) /\ IsNested(Body) /\ IsLocated(Body)
      /\ Len(Body) \in Nat /\ DOMAIN Body = 1 .. Len(Body)
  <2>1. Body \in Seq(Statements)
    BY <1>3 DEF Body, Declarations
  <2> QED BY <1>3, <2>1, BodyAssumption, LenProperties DEF Body, IsNested
<1>5. /\ v \in WorkingVisitors /\ v.Statements = Body /\ v.Type = "Function"
      /\ v.Condition = Always
  <2>1. v \in WorkingVisitors
    BY <1>4, AlwaysType, NewVisitorType DEF FunctionVisitor
  <2> QED BY <2>1 DEF FunctionVisitor, Visitor
<1> HIDE DEF v
<1>6. ASSUME IsFollowed(Body)
      PROVE  IsSound(v) /\ \A env \in Environments : Expects(v, env, Touched(Body, env))
  <2>1. \A p \in 1 .. Len(Body) : IsFollowable(Body[p])
    BY <1>4, <1>6, BodyIsFollowable
  <2>2. IsSound(v)
    BY <1>4, <1>5, <2>1 DEF IsSound
  <2>3. ASSUME NEW env \in Environments, NEW p \in 1 .. Len(Body),
               NEW at \in Touched(Body, env) \cap LocationsIn(<<Body[p]>>)
        PROVE  Reached(Body[p], env, at) /\ Guards(v, p, env)
    <3> DEFINE n == MaxNesting + 1
    <3>1. n \in Nat
      BY MaxNestingAssumption
    <3>2. PICK run \in RunsNested(env)[n][Body] : at \in ToSet(run.Trace)
      BY DEF Touched, RunsOf
    <3> HIDE DEF n
    <3>3. ReachesFrom(Body, 1, env, n, at)
      BY <1>4, <3>1, <3>2, WholeReaches
    <3>4. AreDistinct(Body)
      BY <1>4 DEF IsLocated
    <3>5. Reached(Body[p], env, at)
      BY <1>4, <2>1, <3>1, <3>3, <3>4, ReachedThere
    <3>6. Evaluate(v.Condition, env)
      BY <1>5 DEF Evaluate, Always
    <3> QED BY <1>5, <3>5, <3>6 DEF Guards
  <2>4. \A env \in Environments : Expects(v, env, Touched(Body, env))
    BY <1>4, <1>5, <2>3 DEF Expects
  <2> QED BY <2>2, <2>4
<1>7. ToSet(visitors') = {v}
  BY <1>1 DEF ToSet
<1>8. \A env : IsCovered(env)'
  BY <1>2 DEF IsCovered
<1>9. Len(Target.Locations)' = Len(Target.Actions)' /\ unit' \in Units
  BY <1>1, <1>2, <1>3
<1> QED BY <1>1, <1>6, <1>7, <1>8, <1>9 DEF CoverInv

LEMMA SwitchCovers ==
    ASSUME TraversalInv, CoverInv, TraverseSwitchStmt
    PROVE  CoverInv'
<1> DEFINE visitor == CaseConditionalVisitor(GetCurrentCondition, Statement.Subject,
                                             Statement.Body)
           parts == IF Statement.Subject = NotParsed THEN <<>> ELSE <<visitor>>
<1>1. /\ visitors # <<>> /\ Top.Statements # <<>> /\ GoOn(Top, parts)
      /\ UNCHANGED <<unit, next, Target>>
      /\ Statement.Kind = "SwitchStmt"
  BY DEF TraverseSwitchStmt, Visits
<1>2. /\ Statement.Subject \in Copies \cup Primitives \cup {NotParsed}
      /\ Statement.Body \in Seq(Statements)
      /\ GetCurrentCondition \in Conditions
  BY <1>1, VisitedType, StatementParts, GetCurrentConditionType
<1>3. Statement.Subject # NotParsed => visitor \in WorkingVisitors
  BY <1>2, NewVisitorType DEF CaseConditionalVisitor
<1>4. ASSUME IsFollowed(Body), Statement.Subject # NotParsed
      PROVE  IsSound(visitor) /\ \A env \in Environments : Expects(visitor, env, Touched(Body, env))
  BY <1>1, <1>2, <1>4, AtTheStatement, SwitchVisitor
<1> HIDE DEF visitor
<1>5. parts \in Seq(WorkingVisitors)
  BY <1>3, EmptySeq, Singleton
<1>6. ASSUME NEW v \in ToSet(parts) PROVE v = visitor /\ Statement.Subject # NotParsed
  BY NothingNew DEF ToSet
<1> HIDE DEF parts
<1>7. Statement.Kind \notin Labels \cup {"BreakStmt"}
  BY <1>1 DEF Labels
<1>8. IsFollowed(Body) => \A v \in ToSet(parts) :
        IsSound(v) /\ \A env \in Environments : Expects(v, env, Touched(Body, env))
  BY <1>4, <1>6
<1> QED BY <1>1, <1>5, <1>7, <1>8, PassStatement

\* A branch is visited with a condition that holds where it runs.
LEMMA BranchExpects ==
    ASSUME TraversalInv, CoverInv, visitors # <<>>, Top.Statements # <<>>, IsFollowed(Body),
           Statement.Kind = "IfStmt", NEW part \in {Statement.Then, Statement.Else},
           NEW guard \in Conditions,
           \A env \in Environments : \A at \in LocationsIn(part) :
                Reached(Statement, env, at) => Evaluate(guard, env)
    PROVE  LET v == ConditionalContentVisitor(And(GetCurrentCondition, guard), part) IN
           IsSound(v) /\ \A env \in Environments : Expects(v, env, Touched(Body, env))
<1> DEFINE condition == And(GetCurrentCondition, guard)
           v == ConditionalContentVisitor(condition, part)
<1>1. IsFollowable(Statement) /\ GetCurrentCondition \in Conditions
  BY AtTheStatement
<1>2. condition \in Conditions
  BY <1>1, AndType
<1>3. ASSUME NEW env \in Environments,
             NEW at \in Touched(Body, env) \cap LocationsIn(<<Statement>>)
      PROVE  Reached(Statement, env, at) /\ (at \in LocationsIn(part) => Evaluate(condition, env))
  <2>1. Reached(Statement, env, at) /\ Evaluate(GetCurrentCondition, env)
    BY AtTheStatement
  <2> QED BY <2>1, AndHolds
<1> HIDE DEF condition
<1>4. /\ IsSound(v)
      /\ \A env, T :
            (\A at \in T \cap LocationsIn(<<Statement>>) :
                /\ Reached(Statement, env, at)
                /\ at \in LocationsIn(part) => Evaluate(condition, env))
            => Expects(v, env, T)
  BY <1>1, <1>2, BranchVisitor
<1> HIDE DEF v
<1>5. \A env \in Environments : Expects(v, env, Touched(Body, env))
  BY <1>3, <1>4
<1> QED BY <1>4, <1>5 DEF v, condition

LEMMA IfCovers ==
    ASSUME TraversalInv, CoverInv, TraverseIfStmt
    PROVE  CoverInv'
<1> DEFINE condition == IF Statement.Condition = NotParsed
                        THEN Always ELSE When(Statement.Condition)
           negated == Negate(condition)
           Branch(guard, content) == ConditionalContentVisitor(And(GetCurrentCondition, guard), content)
           one == Branch(condition, Statement.Then)
           other == Branch(negated, Statement.Else)
           then == IF negated.Tautology THEN <<>> ELSE <<one>>
           else == IF condition.Tautology THEN <<>> ELSE <<other>>
<1>1. /\ visitors # <<>> /\ Top.Statements # <<>> /\ GoOn(Top, then \o else)
      /\ UNCHANGED <<unit, next, Target>>
      /\ Statement.Kind = "IfStmt"
  BY DEF TraverseIfStmt, Visits
<1>2. /\ Statement.Condition \in ParsedConditions \cup {NotParsed}
      /\ ParsedConditions \subseteq Leaves
      /\ Statement.Then \in Seq(Statements) /\ Statement.Else \in Seq(Statements)
      /\ GetCurrentCondition \in Conditions
  BY <1>1, VisitedType, StatementParts, GetCurrentConditionType DEF ParsedConditions
<1>3. condition \in Conditions
  BY <1>2, AlwaysType, WhenType DEF Asking
<1>4. ~condition.Tautology => Statement.Condition \in ParsedConditions /\ condition = When(Statement.Condition)
  BY <1>2, AlwaysType
<1>5. ~condition.Tautology => negated \in Conditions
  BY <1>3, <1>4, AlwaysType, NegateType DEF Asking
<1>6. ASSUME NEW guard \in Conditions, NEW content \in Seq(Statements)
      PROVE  Branch(guard, content) \in WorkingVisitors
  BY <1>2, AndType, NewVisitorType DEF ConditionalContentVisitor
<1>7. one \in WorkingVisitors /\ (~condition.Tautology => other \in WorkingVisitors)
  BY <1>2, <1>3, <1>5, <1>6
<1>8. ASSUME IsFollowed(Body)
      PROVE  IsSound(one) /\ \A env \in Environments : Expects(one, env, Touched(Body, env))
  <2>1. IsFollowable(Statement)
    BY <1>1, <1>8, AtTheStatement
  <2>2. ASSUME NEW env \in Environments, NEW at \in LocationsIn(Statement.Then),
               Reached(Statement, env, at)
        PROVE  Evaluate(condition, env)
    <3>1. CASE Statement.Condition = NotParsed
      BY <3>1 DEF Evaluate, Always
    <3>2. CASE Statement.Condition # NotParsed
      <4>1. LeafHolds(Statement.Condition, env)
        BY <1>1, <2>1, <2>2, <3>2, BranchReached
      <4> QED BY <3>2, <4>1 DEF Evaluate, When
    <3> QED BY <3>1, <3>2
  <2> HIDE DEF condition
  <2> QED BY <1>1, <1>3, <1>8, <2>2, BranchExpects
<1>9. ASSUME IsFollowed(Body), ~condition.Tautology
      PROVE  IsSound(other) /\ \A env \in Environments : Expects(other, env, Touched(Body, env))
  <2>1. IsFollowable(Statement)
    BY <1>1, <1>9, AtTheStatement
  <2>2. Statement.Condition # NotParsed /\ Statement.Condition \in ParsedConditions
    BY <1>4, <1>9, AlwaysType
  <2>3. ASSUME NEW env \in Environments, NEW at \in LocationsIn(Statement.Else),
               Reached(Statement, env, at)
        PROVE  Evaluate(negated, env)
    <3>1. ~LeafHolds(Statement.Condition, env)
      BY <1>1, <2>1, <2>2, <2>3, BranchReached
    <3>2. Evaluate(Negate(When(Statement.Condition)), env)
      BY <2>2, <3>1, NegatedHolds
    <3> QED BY <2>2, <3>2
  <2> HIDE DEF negated
  <2> QED BY <1>1, <1>5, <1>9, <2>3, BranchExpects
<1> HIDE DEF one, other, condition, negated
<1>10. /\ then \in Seq(WorkingVisitors)
       /\ \A v \in ToSet(then) : v = one
  BY <1>7, NothingNew, Singleton DEF ToSet
<1>11. /\ else \in Seq(WorkingVisitors)
       /\ \A v \in ToSet(else) : v = other /\ ~condition.Tautology
  BY <1>7, NothingNew, Singleton DEF ToSet
<1> HIDE DEF then, else
<1> DEFINE parts == then \o else
<1>12. parts \in Seq(WorkingVisitors) /\ ToSet(parts) = ToSet(then) \cup ToSet(else)
  BY <1>10, <1>11, ConcatProperties, ElementsOfConcat
<1>13. GoOn(Top, parts)
  BY <1>1
<1> HIDE DEF parts
<1>14. Statement.Kind \notin Labels \cup {"BreakStmt"}
  BY <1>1 DEF Labels
<1>15. IsFollowed(Body) => \A v \in ToSet(parts) :
        IsSound(v) /\ \A env \in Environments : Expects(v, env, Touched(Body, env))
  BY <1>8, <1>9, <1>10, <1>11, <1>12
<1> QED BY <1>1, <1>12, <1>13, <1>14, <1>15, PassStatement

LEMMA InitCovers == InitTraversal => CoverInv
BY DEF InitTraversal, Untraversed, EmptyBlock, CoverInv

LEMMA TraverseCovers ==
    ASSUME TraversalInv, CoverInv, [TraverseDecl \/ TraversalOver]_traversalVars
    PROVE  CoverInv'
<1>1. CASE TraverseDecl
  BY <1>1, FunctionCovers, AddBlockCovers, LeaveCovers, ActionCovers, IfCovers, SwitchCovers,
     WhileCovers, CaseCovers, BreakCovers, DefaultCovers, PassCovers DEF TraverseDecl
<1>2. CASE UNCHANGED traversalVars
  <2>1. UNCHANGED <<unit, next, visitors, Target>>
    BY <1>2 DEF traversalVars
  <2> QED BY <2>1 DEF CoverInv, IsCovered, TakenIn, Body
<1> QED BY <1>1, <1>2 DEF TraversalOver

----------------------------------------------------------------------------
(* The theorems.                                                           *)

LEMMA CoverInvariance == Traversal => []CoverInv
<1>1. TraversalInv /\ CoverInv /\ [TraverseDecl \/ TraversalOver]_traversalVars => CoverInv'
  BY TraverseCovers
<1> QED BY <1>1, InitCovers, TraversalInvariance, PTL DEF Traversal

\* However the branches, switches, labels and loops of a function are put together
\* and nested, as long as its labels are where the visitors follow them, whatever
\* values it runs with and whichever way it goes: the condition of every action the
\* visitors have added (CodeBlockBuildingVisitor.cpp) holds wherever the statement
\* it was made of runs, so that the analysis does not pass over it there.
THEOREM BlocksCoverWhatRuns == Traversal => []CoversWhatRuns
<1>1. ASSUME CoverInv PROVE CoversWhatRuns
  <2> SUFFICES ASSUME visitors # <<>>, IsFollowed(Body), NEW env \in Environments,
                      NEW run \in RunsOf(Body, env), NEW i \in DOMAIN Target.Actions,
                      Target.Locations[i] \in ToSet(run.Trace)
               PROVE  TakenIn(i, env)
    BY DEF CoversWhatRuns
  <2>1. Target.Locations[i] \in Touched(Body, env)
    BY DEF Touched
  <2> QED BY <1>1, <2>1 DEF CoverInv, IsCovered
<1> QED BY <1>1, CoverInvariance, PTL

=============================================================================
