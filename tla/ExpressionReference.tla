------------------------ MODULE ExpressionReference ------------------------
(***************************************************************************)
(* What the parsers make of an expression, compared with what it is worth. *)
(***************************************************************************)
EXTENDS ExpressionMeaning

CONSTANT Environments   \* the values to evaluate with

ASSUME EnvironmentAssumption == Environments \subseteq [Vars -> Primitives]

VARIABLE expression

----------------------------------------------------------------------------
(* The trees that a compiler makes of expressions. A literal fits its own  *)
(* type, which is no wider than a long long.                               *)

IsExpressionOver(e, operands) ==
    \/ e.Kind = "DeclRefExpr" /\ e = DeclRefExpr(e.Name)
    \/ /\ e.Kind = "IntegerLiteral" /\ e = IntegerLiteral(e.Bits, e.HalfRange)
       /\ e.HalfRange \in 1 .. Half /\ e.Bits \in 0 .. 2 * e.HalfRange - 1
    \/ \E operand \in operands :
            \/ e = ToBoolean(operand)
            \/ e.Kind = "UnaryOperator" /\ e = UnaryOperator(e.Opcode, operand)
    \/ \E lhs, rhs \in operands :
            \/ e = ArraySubscriptExpr(lhs, rhs)
            \/ e.Kind = "BinaryOperator" /\ e = BinaryOperator(lhs, e.Opcode, rhs)
    \/ e.Children \in Seq(operands) /\ e = Node("CallExpr", e.Children)

\* With each expression, the set holds those inside of it.
AreExpressions(expressions) == \A e \in expressions : IsExpressionOver(e, expressions)

----------------------------------------------------------------------------
(* Properties.                                                             *)

\* Whatever is written, what the parsers return is what the visitors and the
\* analyzer take: a state without a value inside of it, a single leaf that
\* asks a variable and compares it with one or with a number, a variable or a number
\* to switch on, a literal.
ResultsAreAccepted ==
    /\ Assigned(expression) \in (Expressions \ {Unknown}) \cup {NotParsed}
    /\ ParsedCondition(expression) \in ParsedConditions \cup {NotParsed}
    /\ SwitchSubject(expression) \in Copies \cup Primitives \cup {NotParsed}
    /\ Argument(expression) \in Literals

\* The state that an assignment leaves resolves to what the right-hand side is
\* worth, minus signs, nesting and overflow included.
AssignedAsWritten ==
    IsArithmetic(expression) =>
        LET state == Assigned(expression) IN
        \A env \in Environments :
            Resolve(env, state) = Primitive(Value(expression, env))

\* A simple condition is parsed, and its leaf holds where it is not zero; the
\* negated leaf, which guards the else branch, holds everywhere else.
ConditionsAsWritten ==
    IsSimpleCondition(expression) =>
        \E leaf \in {ParsedCondition(expression)} \ {NotParsed} :
            \A env \in Environments :
                /\ LeafHolds(leaf, env) <=> Value(expression, env) # 0
                /\ LeafHolds(NegateLeaf(leaf), env) <=> Value(expression, env) = 0

\* What is guarded by a condition that was parsed is taken when the condition is
\* true, and only then ("Action is taken when this condition is true").
TakenWhenConditionHolds ==
    \A leaf \in {ParsedCondition(expression)} \ {NotParsed} :
        \A env \in Environments :
            IsDefined(expression, env) =>
                (LeafHolds(leaf, env) <=> Value(expression, env) # 0)
=============================================================================
