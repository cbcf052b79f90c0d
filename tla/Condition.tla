----------------------------- MODULE Condition -----------------------------
(***************************************************************************)
(* The condition under which a piece of the analysed program runs          *)
(* (parse/Condition.h and Condition.cpp).                                  *)
(*                                                                         *)
(* The code keeps a tree of And and Or parts over leaves. The tree is kept *)
(* here as the set of its ways to be true: a set of conjunctions, each a   *)
(* set of leaves. Evaluating a leaf neither throws nor changes anything,   *)
(* so the order and the short circuits of the tree's evaluation cannot be  *)
(* observed.                                                               *)
(***************************************************************************)
EXTENDS VariableState

----------------------------------------------------------------------------
(* Leaves: a subject and the range its value must be in.                   *)

NotZero == [Type |-> "NotZero"]
Zero == [Type |-> "Zero"]
ComparedTo(op, x) == [Type |-> "Comparison", Comparison |-> op, ComparedTo |-> x]
ComparedConstant(op, s) ==
    [Type |-> "Constant", Comparison |-> op, ComparedConstant |-> s]

ValueRanges ==
    {NotZero, Zero}
        \cup [Type : {"Comparison"}, Comparison : COMPARISON, ComparedTo : Vars]
        \cup [Type : {"Constant"}, Comparison : COMPARISON, ComparedConstant : Literals]

\* A VariableValueCondition has a variable as its subject, which evaluates as
\* a copy of it does; the subject of a VariableStateCondition (a switch on a
\* constant) is a state.
Leaf(subject, range) == [Subject |-> subject, Value |-> range]
Leaves == [Subject : Copies \cup Literals, Value : ValueRanges]

\* What the condition of an if statement is parsed as: it asks a variable, and what
\* it compares with is a variable or a number.
ParsedConditions ==
    {leaf \in Leaves :
        /\ leaf.Subject \in Copies
        /\ leaf.Value.Type = "Constant" => leaf.Value.ComparedConstant \in Primitives}

RangeMatches(range, env, s) ==
    \/ range.Type = "NotZero" /\ ToZeroOrNonZero(s) # 0
    \/ range.Type = "Zero" /\ ToZeroOrNonZero(s) = 0
    \/ /\ range.Type = "Comparison"
       /\ CompareTo(range.Comparison, s, GetVariableValue(env, range.ComparedTo))
    \/ /\ range.Type = "Constant"
       /\ CompareTo(range.Comparison, s, range.ComparedConstant)

NegateRange(range) ==
    CASE range.Type = "NotZero" -> Zero
      [] range.Type = "Zero" -> NotZero
      [] range.Type = "Comparison" ->
            ComparedTo(NegateComparison(range.Comparison), range.ComparedTo)
      [] range.Type = "Constant" ->
            ComparedConstant(NegateComparison(range.Comparison), range.ComparedConstant)

\* An unknown subject makes a leaf false, whatever its range.
LeafHolds(leaf, env) ==
    LET value == Resolve(env, leaf.Subject) IN
    /\ value.State # "Unknown"
    /\ RangeMatches(leaf.Value, env, value)

NegateLeaf(leaf) == Leaf(leaf.Subject, NegateRange(leaf.Value))

----------------------------------------------------------------------------
(* Conditions. One that is no tautology and has no parts is what negating  *)
(* a tautology leaves ("invalid" in its Dump); the code must not evaluate  *)
(* it, for there is no part to evaluate.                                   *)

Always == [Tautology |-> TRUE, VariableConditions |-> {}]
Invalid == [Tautology |-> FALSE, VariableConditions |-> {}]
When(leaf) == [Tautology |-> FALSE, VariableConditions |-> {{leaf}}]

Conditions ==
    {Always} \cup [Tautology : {FALSE},
                   VariableConditions : (SUBSET ((SUBSET Leaves) \ {{}})) \ {{}}]

Evaluate(condition, env) ==
    \/ condition.Tautology
    \/ \E conjunction \in condition.VariableConditions :
            \A leaf \in conjunction : LeafHolds(leaf, env)

\* The leaf of a condition of a single part: the only ones Part::Negate can
\* negate, since it tests the wrong variable for a combined part and throws.
IsSingle(condition) ==
    \E conjunction \in condition.VariableConditions :
        \E leaf \in conjunction : condition = When(leaf)
TheLeaf(condition) ==
    CHOOSE leaf \in UNION condition.VariableConditions : TRUE

Negate(condition) ==
    IF condition.Tautology THEN Invalid ELSE When(NegateLeaf(TheLeaf(condition)))

\* The second operand's being always true makes the result always true,
\* whatever the first one asks.
And(condition, other) ==
    IF other.Tautology THEN Always
    ELSE IF condition.Tautology THEN other
    ELSE [Tautology |-> FALSE,
          VariableConditions |->
            UNION {{left \cup right : right \in other.VariableConditions} :
                        left \in condition.VariableConditions}]

Or(condition, other) ==
    IF condition.Tautology \/ other.Tautology THEN Always
    ELSE [Tautology |-> FALSE,
          VariableConditions |->
            condition.VariableConditions \cup other.VariableConditions]
=============================================================================
