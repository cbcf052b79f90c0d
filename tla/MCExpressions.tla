--------------------------- MODULE MCExpressions ---------------------------
(***************************************************************************)
(* Expressions grown from variables, literals of two widths, a call and an *)
(* element access, by an operator at a time.                               *)
(***************************************************************************)
EXTENDS ExpressionReference

CONSTANT IntHalf        \* an int is -IntHalf .. IntHalf - 1

Literal(bits) == IntegerLiteral(bits, IntHalf)

\* 3u has the top bit of its type set; 3l is as wide as a long long.
Operands == {
    DeclRefExpr("x"),
    DeclRefExpr("y"),
    Literal(1),
    Literal(3),
    IntegerLiteral(3, Half),
    UnaryOperator("-", Literal(1)),
    ArraySubscriptExpr(DeclRefExpr("x"), Literal(1)),
    CallExpr(DeclRefExpr("f"), <<DeclRefExpr("y")>>)
}

ASSUME OperandAssumption == AreExpressions(UNION {Within(e) : e \in Operands})

Opcodes == Comparisons \cup {"+", "-", "*", "/", "&&", "||", "="}

AddUnaryOperator(opcode) == expression' = UnaryOperator(opcode, expression)
AddCast == expression' = ToBoolean(expression)
AddRightOperand(opcode) ==
    \E e \in Operands : expression' = BinaryOperator(expression, opcode, e)
AddLeftOperand(opcode) ==
    \E e \in Operands : expression' = BinaryOperator(e, opcode, expression)

MCInit == expression \in Operands
MCNext ==
    /\ \/ \E opcode \in {"-", "!"} : AddUnaryOperator(opcode)
       \/ AddCast
       \/ \E opcode \in Opcodes : AddRightOperand(opcode) \/ AddLeftOperand(opcode)
    /\ IsWithinNodes(expression')
MCSpec == MCInit /\ [][MCNext]_expression

\* x and its negation.
NegatedInit == expression = DeclRefExpr("x")
NegatedNext == expression.Kind = "DeclRefExpr" /\ AddUnaryOperator("!")
NegatedSpec == NegatedInit /\ [][NegatedNext]_expression

\* The ends of the range, and the values around those of the literals.
MCEnvironments ==
    {[v \in Vars |-> Primitive(IF v = "x" THEN n ELSE m)] :
        n \in {-Half, -1, 0, 1, 2, Half - 1}, m \in {-1, 1, Half - 1}}
=============================================================================
