------------------------- MODULE ExpressionParsers -------------------------
(***************************************************************************)
(* What the visitors make of an expression of the analysed program: a      *)
(* literal (parse/LiteralStateVisitor.h), a variable                       *)
(* (VariableRefOrArrayVisitor in parse/CodeBlockBuildingVisitor.cpp), the  *)
(* state an assignment leaves (parse/ComplexExpressionParser.h), or the    *)
(* leaf of a condition (ConditionParseVisitor in parse/Condition.cpp).     *)
(*                                                                         *)
(* Each parser is handed the nodes of the expression from its root down,   *)
(* left to right, until one of its handlers returns false: that ends the   *)
(* whole visit. Casts that are not to bool, and parentheses, are left out, *)
(* for no parser has a handler for them.                                   *)
(***************************************************************************)
EXTENDS Condition, Sequences, SequencesExt

CONSTANT MaxNodes       \* the most nodes of an expression

ASSUME MaxNodesAssumption == MaxNodes \in Nat

----------------------------------------------------------------------------
(* Expressions. A literal has the bits of its own type, whose half is      *)
(* HalfRange; a reference is to a variable or to a function.               *)

Node(kind, children) == [Kind |-> kind, Children |-> children]
DeclRefExpr(name) ==
    [Kind |-> "DeclRefExpr", Name |-> name, Children |-> <<>>]
IntegerLiteral(bits, half) ==
    [Kind |-> "IntegerLiteral", Bits |-> bits, HalfRange |-> half, Children |-> <<>>]
Operator(kind, opcode, operands) ==
    [Kind |-> kind, Opcode |-> opcode, Children |-> operands]
UnaryOperator(opcode, e) == Operator("UnaryOperator", opcode, <<e>>)
BinaryOperator(lhs, opcode, rhs) == Operator("BinaryOperator", opcode, <<lhs, rhs>>)
ToBoolean(e) == Node("ImplicitCastToBoolean", <<e>>)
ArraySubscriptExpr(base, index) == Node("ArraySubscriptExpr", <<base, index>>)
CallExpr(callee, arguments) == Node("CallExpr", <<callee>> \o arguments)

\* A visit: the nodes that the visitor was handed, and the expressions that are next.
HandNext(visit) ==
    IF visit.Left = <<>> THEN visit
    ELSE [Nodes |-> Append(visit.Nodes, Head(visit.Left)),
          Left |-> Head(visit.Left).Children \o Tail(visit.Left)]

\* The visit of an expression after n nodes.
Visit(e) ==
    LET after[n \in Nat] ==
            IF n = 0 THEN [Nodes |-> <<>>, Left |-> <<e>>] ELSE HandNext(after[n - 1])
    IN after

\* The nodes in the order in which a visitor is handed them.
Preorder(e) == Visit(e)[MaxNodes].Nodes
IsWithinNodes(e) == Visit(e)[MaxNodes].Left = <<>>

\* An expression and those inside of it.
Within(e) == ToSet(Preorder(e))

IsOfKind(node, kind) == node.Kind = kind
IsVariable(node) == node.Kind = "DeclRefExpr" /\ node.Name \in Vars

\* What is handed to a visitor before the first node of this kind.
NodesBefore(e, kind) ==
    LET nodes == Preorder(e)
        found == {i \in DOMAIN nodes : IsOfKind(nodes[i], kind)}
    IN IF found = {} THEN nodes ELSE SubSeq(nodes, 1, Min(found) - 1)

\* A reference to a variable replaces what an earlier one has left.
LastVariable(nodes) ==
    LET found == {i \in DOMAIN nodes : IsVariable(nodes[i])}
    IN IF found = {} THEN NotParsed ELSE CopyVar(nodes[Max(found)].Name)

----------------------------------------------------------------------------
(* LiteralStateVisitor.                                                    *)

\* getSExtValue: the top bit of the literal's own type is taken for a sign.
SignExtended(literal) ==
    IF literal.Bits < literal.HalfRange THEN literal.Bits
                                        ELSE literal.Bits - 2 * literal.HalfRange

\* Mutant: a minus is not considered.
LiteralStatePositive(e) ==
    LET before == NodesBefore(e, "IntegerLiteral")
        nodes == Preorder(e)
    IN IF before = nodes THEN NotParsed
       ELSE Primitive(SignExtended(nodes[Len(before) + 1]))

\* The first literal, negated once for each minus before it, whether that is
\* the minus of the literal or of another operand.
LiteralState(e) ==
    LET before == NodesBefore(e, "IntegerLiteral")
        nodes == Preorder(e)
        minuses == {i \in DOMAIN before :
                        IsOfKind(before[i], "UnaryOperator") /\ before[i].Opcode = "-"}
    IN
    IF before = nodes THEN NotParsed
    ELSE LET value == SignExtended(nodes[Len(before) + 1])
         IN Primitive(IF Cardinality(minuses) % 2 = 1 THEN Wrap(-value) ELSE value)

----------------------------------------------------------------------------
(* VariableRefOrArrayVisitor: the last variable before an element access.  *)

VariableRef(e) == LastVariable(NodesBefore(e, "ArraySubscriptExpr"))

----------------------------------------------------------------------------
(* ComplexExpressionParser. The first binary operator ends the visit.      *)

OperatorOf(opcode) ==
    CASE opcode = "+" -> "Add" [] opcode = "*" -> "Multiply" [] opcode = "-" -> "Subtract"

FirstParsed(value, otherwise) == IF value # NotParsed THEN value ELSE otherwise

\* Mutant: one side that was parsed is enough.
CombineEither(opcode, lhs, rhs) ==
    IF opcode \in {"+", "*", "-"} /\ {lhs, rhs} # {NotParsed}
    THEN Compute(lhs, OperatorOf(opcode), rhs) ELSE NotParsed

Combine(opcode, lhs, rhs) ==
    IF opcode \in {"+", "*", "-"} /\ lhs # NotParsed /\ rhs # NotParsed
    THEN Compute(lhs, OperatorOf(opcode), rhs) ELSE NotParsed

\* An expression, when states are what the parsers of the two sides make of them.
ParseExpression(states, e) ==
    LET before == NodesBefore(e, "BinaryOperator")
        nodes == Preorder(e)
        Side(operand) == FirstParsed(states[operand], LiteralState(operand))
    IN
    IF before = nodes THEN LastVariable(nodes)
    ELSE LET op == nodes[Len(before) + 1]
         IN FirstParsed(Combine(op.Opcode, Side(op.Children[1]), Side(op.Children[2])),
                        LastVariable(before))

\* The states of all that is within an expression, operators nested less than n deep.
StatesWithin(root) ==
    LET nested[n \in Nat] ==
            [e \in Within(root) |->
                IF n = 0 THEN NotParsed ELSE ParseExpression(nested[n - 1], e)]
    IN nested
ComplexExpression(e) == StatesWithin(e)[MaxNodes][e]

\* What an assignment leaves: what is no computation and no variable may be a
\* literal, or contain one.
Assigned(e) == FirstParsed(ComplexExpression(e), LiteralState(e))

\* What a switch asks about.
SwitchSubject(e) == FirstParsed(VariableRef(e), LiteralState(e))

\* What a call passes.
Argument(e) == LET literal == LiteralState(e)
               IN IF literal = NotParsed THEN Unknown ELSE literal

----------------------------------------------------------------------------
(* ConditionParseVisitor.                                                  *)

ComparisonOf(opcode) ==
    CASE opcode = "<" -> "LESS_THAN" [] opcode = "<=" -> "LESS_THAN_EQUAL"
      [] opcode = ">" -> "GREATER_THAN" [] opcode = ">=" -> "GREATER_THAN_EQUAL"
      [] opcode = "==" -> "EQUAL" [] opcode = "!=" -> "NOT_EQUAL"
Comparisons == {"<", "<=", ">", ">=", "==", "!="}

ConditionVisitor == [Variable |-> NotParsed, Parts |-> NotParsed, Done |-> FALSE]

\* Mutant: the sides are exchanged.
ComparisonLeafExchanged(opcode, lhs, rhs, constant) ==
    CASE rhs # NotParsed -> Leaf(rhs, ComparedTo(ComparisonOf(opcode), lhs.Source))
      [] OTHER -> Leaf(lhs, ComparedConstant(ComparisonOf(opcode), constant))

\* What is made of a comparison whose sides have been visited on their own.
ComparisonLeaf(opcode, lhs, rhs, constant) ==
    IF rhs # NotParsed THEN Leaf(lhs, ComparedTo(ComparisonOf(opcode), rhs.Source))
                       ELSE Leaf(lhs, ComparedConstant(ComparisonOf(opcode), constant))

\* A comparison of two sides that are each a variable or contain a literal ends the
\* visit, with a leaf when a variable is on the left; so does any other operator on
\* such sides, with none, except that the sides of && are visited in turn. Each side
\* has a visitor of its own.
VisitConditionOperator(visitor, op, visitors) ==
    LET lhs == visitors[op.Children[1]].Variable
        rhs == visitors[op.Children[2]].Variable
        lhsConstant == LiteralState(op.Children[1])
        rhsConstant == LiteralState(op.Children[2])
        combined == {lhs, lhsConstant} # {NotParsed} /\ {rhs, rhsConstant} # {NotParsed}
    IN
    IF ~combined \/ op.Opcode = "&&" THEN visitor
    ELSE IF op.Opcode \notin Comparisons \/ lhs = NotParsed
         THEN [visitor EXCEPT !.Done = TRUE]
         ELSE [visitor EXCEPT !.Done = TRUE,
                    !.Parts = ComparisonLeaf(op.Opcode, lhs, rhs, rhsConstant)]

\* A cast to bool always ends the visit.
VisitConditionCast(visitor, variable) ==
    [visitor EXCEPT !.Done = TRUE,
                    !.Parts = IF variable = NotParsed THEN @ ELSE Leaf(variable, NotZero)]

VisitConditionNode(visitor, node, visitors) ==
    IF visitor.Done THEN visitor
    ELSE IF IsOfKind(node, "BinaryOperator") THEN VisitConditionOperator(visitor, node, visitors)
    ELSE IF IsOfKind(node, "ImplicitCastToBoolean")
         THEN VisitConditionCast(visitor, visitors[node.Children[1]].Variable)
    ELSE IF IsVariable(node) THEN [visitor EXCEPT !.Variable = CopyVar(node.Name)]
    ELSE visitor

\* The visitor after each node.
ConditionVisitors(nodes, visitors) ==
    LET upTo[i \in 0 .. Len(nodes)] ==
            IF i = 0 THEN ConditionVisitor
            ELSE VisitConditionNode(upTo[i - 1], nodes[i], visitors)
    IN upTo
VisitCondition(e, visitors) ==
    ConditionVisitors(Preorder(e), visitors)[Len(Preorder(e))]

\* The visitors of all that is within an expression, nested less than n deep.
VisitorsWithin(root) ==
    LET nested[n \in Nat] ==
            [e \in Within(root) |->
                IF n = 0 THEN ConditionVisitor ELSE VisitCondition(e, nested[n - 1])]
    IN nested

\* The leaf of an if statement's condition; the last variable on its own when
\* nothing else was made of it (CheckIfOnlyVariable).
ParsedCondition(e) ==
    LET visitor == VisitorsWithin(e)[MaxNodes][e] IN
    IF visitor.Parts # NotParsed THEN visitor.Parts
    ELSE IF visitor.Variable # NotParsed THEN Leaf(visitor.Variable, NotZero)
    ELSE NotParsed
=============================================================================
