------------------------------ MODULE Builder ------------------------------
(***************************************************************************)
(* The walk over a translation unit that leaves a block of actions per     *)
(* function (parse/CodeBlockBuildingVisitor.cpp) in the registry.          *)
(*                                                                         *)
(* The code's recursion over nested statements is a stack of visitors: the *)
(* top one is visiting, those below wait for it to return. One step is one *)
(* statement visited, or one visitor's return.                             *)
(***************************************************************************)
EXTENDS BlockRegistry

CONSTANTS
    Statements,     \* the statements of the functions' bodies
    Units           \* the translation units: sequences of declarations

VARIABLES
    unit,           \* the translation unit
    next,           \* the declaration in it that is visited next, or now
    visitors,       \* the visitors at work, the innermost one first
    Target          \* the block they add to

traversalVars == <<unit, next, visitors, Target, FunctionBlocks>>

----------------------------------------------------------------------------
(* The syntax tree, as the parsers that the visitors call leave it. At is  *)
(* where a statement is.                                                   *)

StatementsOver(S) ==
    [Kind : {"VarDecl"}, At : Nat, Variable : Vars, State : {Unknown} \cup Buffers]
    \cup [Kind : {"Assign"}, At : Nat, Variable : Vars, State : Expressions \cup {NotParsed}]
    \* Index is Unknown unless a variable is accessed at an integer literal.
    \cup [Kind : {"ArraySubscriptExpr"}, At : Nat, Array : Vars, Index : Literals]
    \* A call through a pointer has no direct callee.
    \cup [Kind : {"CallExpr"}, At : Nat, IsDirect : BOOLEAN, Function : FunctionNames,
          Params : ArgumentLists]
    \cup [Kind : {"IfStmt"}, At : Nat, Condition : ParsedConditions \cup {NotParsed},
          Then : Seq(S), Else : Seq(S)]
    \cup [Kind : {"SwitchStmt"}, At : Nat, Subject : Copies \cup Primitives \cup {NotParsed},
          Body : Seq(S)]
    \cup [Kind : {"CaseStmt"}, At : Nat, Value : Literals]
    \cup [Kind : {"DefaultStmt", "BreakStmt", "ReturnStmt"}, At : Nat]
    \cup [Kind : {"WhileStmt"}, At : Nat, Body : Seq(S)]
    \* A function declared inside of another one.
    \cup [Kind : {"FunctionDecl"}, At : Nat, Parameters : Seq(Vars)]

\* A declaration that is no definition is visited too, and has no body.
Declarations ==
    [Name : FunctionNames, IsDefinition : BOOLEAN, Parameters : Seq(Vars),
     Body : Seq(Statements)]

ASSUME BuilderAssumption ==
    /\ Statements \subseteq StatementsOver(Statements)
    /\ Units \subseteq Seq(Declarations)
    /\ ArgumentLists \subseteq Seq(Literals)

----------------------------------------------------------------------------
(* Visitors. Statements is what one has still to visit.                    *)

Visitor(type, condition, subject, statements) ==
    [Type |-> type, Condition |-> condition, Subject |-> subject,
     CurrentSwitchCondition |-> Always, SwitchCases |-> {}, Statements |-> statements]
FunctionVisitor(body) == Visitor("Function", Always, NotParsed, body)
ConditionalContentVisitor(condition, content) ==
    Visitor("Conditional", condition, NotParsed, content)
CaseConditionalVisitor(condition, subject, body) ==
    Visitor("Case", condition, subject, body)

Visitors ==
    [Type : {"Function", "Conditional", "Case"}, Condition : Conditions,
     Subject : Copies \cup Primitives \cup {NotParsed},
     CurrentSwitchCondition : Conditions, SwitchCases : SUBSET Conditions,
     Statements : Seq(Statements)]

Top == Head(visitors)
Statement == Head(Top.Statements)
GetCurrentCondition ==
    IF Top.Type = "Case" THEN And(Top.Condition, Top.CurrentSwitchCondition)
                         ELSE Top.Condition

\* Locations holds the Location of each action.
EmptyBlock == [Parameters |-> <<>>, Actions |-> <<>>, Locations |-> <<>>]
Blocks == [Parameters : Seq(Vars), Actions : Seq(ProcessedActions), Locations : Seq(Nat)]

Untraversed ==
    /\ next = 1
    /\ visitors = <<>>
    /\ Target = EmptyBlock
    /\ FunctionBlocks = <<>>

InitTraversal == unit \in Units /\ Untraversed

----------------------------------------------------------------------------
(* A function, from its parameters to its block in the registry.           *)

TraverseFunctionDecl ==
    /\ visitors = <<>>
    /\ next <= Len(unit)
    /\ Target' = [EmptyBlock EXCEPT !.Parameters = unit[next].Parameters]
    /\ visitors' = <<FunctionVisitor(unit[next].Body)>>
    /\ UNCHANGED <<unit, next, FunctionBlocks>>

AddBlock ==
    /\ Len(visitors) = 1
    /\ Top.Statements = <<>>
    /\ FunctionBlocks' =
            InsertOrAssign(unit[next].Name, [Parameters |-> Target.Parameters,
                                             Actions |-> Target.Actions])
    /\ next' = next + 1
    /\ visitors' = <<>>
    /\ Target' = EmptyBlock
    /\ UNCHANGED unit

\* The visitor of a branch or of a switch returns to the one that made it.
LeaveVisitor ==
    /\ Len(visitors) > 1
    /\ Top.Statements = <<>>
    /\ visitors' = Tail(visitors)
    /\ UNCHANGED <<unit, next, Target, FunctionBlocks>>

----------------------------------------------------------------------------
(* Statements.                                                             *)

Visits(kind) ==
    /\ visitors # <<>>
    /\ Top.Statements # <<>>
    /\ Statement.Kind = kind

\* The visitor goes on behind the statement, with the visitors of its parts,
\* in the order of the source, at work before it.
GoOn(visitor, parts) ==
    visitors' = parts \o <<[visitor EXCEPT !.Statements = Tail(@)]>> \o Tail(visitors)

AddProcessedAction(action) ==
    Target' = [Target EXCEPT !.Actions = Append(@, action),
                             !.Locations = Append(@, Statement.At)]

VisitVarDecl ==
    /\ Visits("VarDecl")
    /\ AddProcessedAction([Kind |-> "VarDeclared", If |-> GetCurrentCondition,
                           Variable |-> Statement.Variable, State |-> Statement.State])
    /\ GoOn(Top, <<>>)
    /\ UNCHANGED <<unit, next, FunctionBlocks>>

VisitBinaryOperator ==
    /\ Visits("Assign")
    /\ IF Statement.State = NotParsed
       THEN UNCHANGED Target
       ELSE AddProcessedAction([Kind |-> "VarAssigned", If |-> GetCurrentCondition,
                                Variable |-> Statement.Variable, State |-> Statement.State])
    /\ GoOn(Top, <<>>)
    /\ UNCHANGED <<unit, next, FunctionBlocks>>

VisitArraySubscriptExpr ==
    /\ Visits("ArraySubscriptExpr")
    /\ IF Statement.Index = Unknown
       THEN UNCHANGED Target
       ELSE AddProcessedAction([Kind |-> "ArrayIndexAccess", If |-> GetCurrentCondition,
                                Array |-> Statement.Array, Index |-> Statement.Index])
    /\ GoOn(Top, <<>>)
    /\ UNCHANGED <<unit, next, FunctionBlocks>>

TraverseCallExpr ==
    /\ Visits("CallExpr")
    /\ IF Statement.IsDirect
       THEN AddProcessedAction([Kind |-> "FunctionCall", If |-> GetCurrentCondition,
                                Function |-> Statement.Function, Params |-> Statement.Params])
       ELSE UNCHANGED Target
    /\ GoOn(Top, <<>>)
    /\ UNCHANGED <<unit, next, FunctionBlocks>>

\* A condition that is not parsed counts as always true, so that the else
\* branch is not visited. What is guarded by it combines to always true as well.
\* (The handler for exceptions has none to catch: a parsed condition is a
\* single leaf.)
TraverseIfStmt ==
    /\ Visits("IfStmt")
    /\ LET condition == IF Statement.Condition = NotParsed
                        THEN Always ELSE When(Statement.Condition)
           negated == Negate(condition)
           Branch(guard, content) ==
               <<ConditionalContentVisitor(And(GetCurrentCondition, guard), content)>>
       IN GoOn(Top, (IF negated.Tautology THEN <<>> ELSE Branch(condition, Statement.Then))
                    \o (IF condition.Tautology THEN <<>> ELSE Branch(negated, Statement.Else)))
    /\ UNCHANGED <<unit, next, Target, FunctionBlocks>>

\* A switch on anything but a variable or a literal is passed over, body and all.
TraverseSwitchStmt ==
    /\ Visits("SwitchStmt")
    /\ GoOn(Top, IF Statement.Subject = NotParsed THEN <<>>
                 ELSE <<CaseConditionalVisitor(GetCurrentCondition, Statement.Subject,
                                               Statement.Body)>>)
    /\ UNCHANGED <<unit, next, Target, FunctionBlocks>>

\* A loop has no visitor: its body is visited once, by the one that is visiting.
TraverseWhileStmt ==
    /\ Visits("WhileStmt")
    /\ visitors' = <<[Top EXCEPT !.Statements = Statement.Body \o Tail(@)]>> \o Tail(visitors)
    /\ UNCHANGED <<unit, next, Target, FunctionBlocks>>

----------------------------------------------------------------------------
(* The labels of a switch, and what leaves it.                             *)

\* Mutant: what falls through to a label is forgotten.
ForgetSwitchCondition(current, condition) == condition

\* The current condition when one more way leads to the code behind a label.
OrSwitchCondition(current, condition) ==
    IF current.Tautology THEN condition ELSE Or(current, condition)

VisitCaseStmt ==
    /\ Visits("CaseStmt")
    /\ Top.Type = "Case"
    /\ LET newCondition == When(Leaf(Top.Subject, ComparedConstant("EQUAL", Statement.Value)))
       IN GoOn(IF Statement.Value = Unknown THEN Top
               ELSE [Top EXCEPT
                        !.SwitchCases = @ \cup {newCondition},
                        !.CurrentSwitchCondition = OrSwitchCondition(@, newCondition)],
               <<>>)
    /\ UNCHANGED <<unit, next, Target, FunctionBlocks>>

\* Mutant: the cases that a break ends are not forgotten.
VisitBreakStmtKeepsCases ==
    /\ Visits("BreakStmt")
    /\ Top.Type = "Case"
    /\ GoOn(Top, <<>>)
    /\ UNCHANGED <<unit, next, Target, FunctionBlocks>>

\* Whichever statement the break leaves.
VisitBreakStmt ==
    /\ Visits("BreakStmt")
    /\ Top.Type = "Case"
    /\ GoOn([Top EXCEPT !.CurrentSwitchCondition = Always], <<>>)
    /\ UNCHANGED <<unit, next, Target, FunctionBlocks>>

\* Mutant: that there is no case before the default is not considered.
NoneOfSome(cases) ==
    [Tautology |-> FALSE,
     VariableConditions |-> {{TheLeaf(Negate(condition)) : condition \in cases}}]

\* All the cases before the default are negated and joined with And.
NoneOf(cases) ==
    IF cases = {} THEN Always
    ELSE [Tautology |-> FALSE,
          VariableConditions |-> {{TheLeaf(Negate(condition)) : condition \in cases}}]

VisitDefaultStmt ==
    /\ Visits("DefaultStmt")
    /\ Top.Type = "Case"
    /\ GoOn([Top EXCEPT !.CurrentSwitchCondition =
                            OrSwitchCondition(@, NoneOf(Top.SwitchCases))], <<>>)
    /\ UNCHANGED <<unit, next, Target, FunctionBlocks>>

\* A visitor that has no handler for a statement visits what is behind it.
PassOver ==
    /\ \/ Visits("ReturnStmt")
       \/ \E kind \in {"CaseStmt", "DefaultStmt", "BreakStmt"} :
                Visits(kind) /\ Top.Type # "Case"
       \/ Visits("FunctionDecl") /\ Top.Type # "Function"
    /\ GoOn(Top, <<>>)
    /\ UNCHANGED <<unit, next, Target, FunctionBlocks>>

\* The parameters of a function declared in the body become parameters of the
\* function the body is of.
VisitParmVarDecl ==
    /\ Visits("FunctionDecl")
    /\ Top.Type = "Function"
    /\ Target' = [Target EXCEPT !.Parameters = @ \o Statement.Parameters]
    /\ GoOn(Top, <<>>)
    /\ UNCHANGED <<unit, next, FunctionBlocks>>

TraverseDecl ==
    \/ TraverseFunctionDecl
    \/ AddBlock
    \/ LeaveVisitor
    \/ VisitVarDecl
    \/ VisitBinaryOperator
    \/ VisitArraySubscriptExpr
    \/ TraverseCallExpr
    \/ TraverseIfStmt
    \/ TraverseSwitchStmt
    \/ TraverseWhileStmt
    \/ VisitCaseStmt
    \/ VisitBreakStmt
    \/ VisitDefaultStmt
    \/ PassOver
    \/ VisitParmVarDecl

\* The traversal of the translation unit is over, and nothing more happens.
Traversed == visitors = <<>> /\ next > Len(unit)
TraversalOver == Traversed /\ UNCHANGED traversalVars

Traversal == InitTraversal /\ [][TraverseDecl \/ TraversalOver]_traversalVars

----------------------------------------------------------------------------
(* Properties.                                                             *)

TraversalTypeOK ==
    /\ unit \in Seq(Declarations)
    /\ next \in 1 .. Len(unit) + 1
    /\ visitors \in Seq(Visitors)
    /\ Target \in Blocks
    /\ IsRegistry(FunctionBlocks)
=============================================================================
