------------------------- MODULE ExpressionMeaning -------------------------
(***************************************************************************)
(* What an expression is worth in C, and the expressions that the parsers  *)
(* are meant for.                                                          *)
(***************************************************************************)
EXTENDS ExpressionParsers

Truth(b) == IF b THEN 1 ELSE 0

\* Division rounds towards zero.
Quotient(a, b) ==
    LET Magnitude(n) == IF n < 0 THEN -n ELSE n
        q == Magnitude(a) \div Magnitude(b)
    IN IF (a < 0) = (b < 0) THEN q ELSE -q

\* The value of what does not fit is left undefined by the language. It is what the
\* instructions of a machine of this width leave, said without the analyzer's own
\* operators.
Arithmetic(opcode, a, b) ==
    Wrap(CASE opcode = "+" -> a + b
           [] opcode = "-" -> a - b
           [] opcode = "*" -> a * b)

\* An operator, with OperandValue for the values of its operands.
ValueOf(OperandValue(_, _), e, env) ==
    LET Operand(i) == OperandValue(e.Children[i], env) IN
    CASE e.Kind = "DeclRefExpr" -> env[e.Name].Value
      [] e.Kind = "IntegerLiteral" -> e.Bits
      [] e.Kind = "ImplicitCastToBoolean" -> Truth(Operand(1) # 0)
      [] e.Kind = "UnaryOperator" ->
            IF e.Opcode = "-" THEN Wrap(-Operand(1)) ELSE Truth(Operand(1) = 0)
      [] e.Kind = "BinaryOperator" ->
            CASE e.Opcode \in {"+", "-", "*"} ->
                    Arithmetic(e.Opcode, Operand(1), Operand(2))
              [] e.Opcode \in Comparisons ->
                    Truth(CompareValues(ComparisonOf(e.Opcode), Operand(1), Operand(2)))
              [] e.Opcode = "/" -> Wrap(Quotient(Operand(1), Operand(2)))
              [] e.Opcode = "&&" -> Truth(Operand(1) # 0 /\ Operand(2) # 0)
              [] e.Opcode = "||" -> Truth(Operand(1) # 0 \/ Operand(2) # 0)

\* Operators are nested to a depth of two, as in states, with a minus or a cast inside.
ValueOfAtom(e, env) == IF e.Kind = "DeclRefExpr" THEN env[e.Name].Value ELSE e.Bits
ValueOfFactor(e, env) == ValueOf(ValueOfAtom, e, env)
ValueOfSum(e, env) == ValueOf(ValueOfFactor, e, env)
Value(e, env) == ValueOf(ValueOfSum, e, env)

\* Whether a value is defined: no element is accessed, nothing called or
\* assigned, and nothing divided by zero.
IsDefined(e, env) ==
    \A i \in DOMAIN Preorder(e) :
        LET n == Preorder(e)[i] IN
        /\ \/ n.Kind \in {"IntegerLiteral", "ImplicitCastToBoolean"}
           \/ n.Kind = "UnaryOperator" /\ n.Opcode \in {"-", "!"}
           \/ n.Kind = "BinaryOperator" /\ n.Opcode # "="
           \/ IsVariable(n)
        /\ n.Kind = "BinaryOperator" /\ n.Opcode = "/" => Value(n.Children[2], env) # 0

----------------------------------------------------------------------------
(* What the parsers are meant for.                                         *)

\* A literal whose own top bit is not set, with a minus or without.
IsPlainLiteral(e) ==
    \/ e.Kind = "IntegerLiteral" /\ e.Bits < e.HalfRange
    \/ /\ e.Kind = "UnaryOperator" /\ e.Opcode = "-"
       /\ e.Children[1].Kind = "IntegerLiteral"
       /\ e.Children[1].Bits < e.Children[1].HalfRange

\* Sums, differences and products of variables and literals.
IsOperator(e) == e.Kind = "BinaryOperator" /\ e.Opcode \in {"+", "-", "*"}
IsAtom(e) == IsVariable(e) \/ IsPlainLiteral(e)
IsSum(e) ==
    \/ IsAtom(e)
    \/ IsOperator(e) /\ IsAtom(e.Children[1]) /\ IsAtom(e.Children[2])
IsArithmetic(e) ==
    \/ IsAtom(e)
    \/ IsOperator(e) /\ IsSum(e.Children[1]) /\ IsSum(e.Children[2])

\* A variable, in C or as C++ casts it, or one compared with a variable or a
\* literal on its right.
IsSimpleCondition(e) ==
    \/ IsVariable(e)
    \/ e.Kind = "ImplicitCastToBoolean" /\ IsVariable(e.Children[1])
    \/ /\ e.Kind = "BinaryOperator" /\ e.Opcode \in Comparisons
       /\ IsVariable(e.Children[1])
       /\ IsVariable(e.Children[2]) \/ IsPlainLiteral(e.Children[2])
=============================================================================
