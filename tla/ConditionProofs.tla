--------------------------- MODULE ConditionProofs ---------------------------
(***************************************************************************)
(* Facts about values and conditions, for every set of variables and every *)
(* integer width. The analyzer's theorems rest on them.                    *)
(***************************************************************************)
EXTENDS Condition, TLAPS

----------------------------------------------------------------------------
(* Machine integers.                                                       *)

\* A remainder by the number of machine integers is one of their bit patterns.
LEMMA ModRange ==
    ASSUME NEW n \in Int
    PROVE  n % (2 * Half) \in Sizes
<1>1. Half \in Nat /\ Half > 0
  BY HalfAssumption
<1>2. DEFINE m == 2 * Half
<1>3. m \in Nat /\ m > 0
  BY <1>1
<1>4. n % m \in 0 .. m - 1
  <2> HIDE DEF m
  <2> QED BY <1>3
<1> QED BY <1>1, <1>4 DEF Sizes

\* The result of an operator on two machine integers is one.
LEMMA WrapType ==
    ASSUME NEW n \in Int
    PROVE  Wrap(n) \in Ints
<1>1. Half \in Nat /\ Half > 0
  BY HalfAssumption
<1>2. (n + Half) % (2 * Half) \in 0 .. 2 * Half - 1
  BY <1>1, ModRange DEF Sizes
<1> DEFINE r == (n + Half) % (2 * Half)
<1>3. r \in Int /\ 0 <= r /\ r <= 2 * Half - 1
  BY <1>1, <1>2
<1>4. Wrap(n) = r - Half
  BY DEF Wrap
<1> HIDE DEF r
<1> QED BY <1>1, <1>3, <1>4 DEF Ints

\* The comparison of Analyzer.cpp, line 176: although the index is converted to
\* an unsigned type, an access to an object, which is never larger than half of
\* the address space, is found to be outside exactly when it is.
THEOREM OverflowCheckIsExact ==
    ASSUME NEW size \in ObjectSizes, NEW index \in Ints
    PROVE  OutsideBuffer(size, index) <=> index \notin 0 .. size - 1
<1>1. Half \in Nat /\ Half > 0 /\ index \in Int
  BY HalfAssumption DEF Ints
<1>2. CASE index >= 0
  <2>1. index % (2 * Half) = index
    BY <1>1, <1>2 DEF Ints
  <2> QED BY <1>1, <1>2, <2>1 DEF OutsideBuffer, Unsigned, ObjectSizes
<1>3. CASE index < 0
  <2>1. index % (2 * Half) = index + 2 * Half
    BY <1>1, <1>3 DEF Ints
  <2>2. index + 2 * Half >= Half
    BY <1>1 DEF Ints
  <2> QED BY <1>1, <1>3, <2>1, <2>2 DEF OutsideBuffer, Unsigned, ObjectSizes
<1> QED BY <1>1, <1>2, <1>3

----------------------------------------------------------------------------
(* Resolving.                                                              *)

Values == [Vars -> ResolvedStates]

\* Where nothing is a copy, a chain of copies ends where it starts.
LEMMA ChainEndsAtOnce ==
    ASSUME NEW env \in Values, NEW x \in Vars
    PROVE  ChainEnd(env, x) = x
<1>1. \A y \in Vars : env[y].State # "CopyVar"
  BY DEF Values, ResolvedStates, Unknown, Primitives, Buffers
<1>2. CopyChain(env, x) = {x}
  <2>1. x \in CopyChain(env, x)
    BY DEF CopyChain
  <2>2. ASSUME NEW y \in CopyChain(env, x) PROVE y = x
    <3>1. {x} \in SUBSET Vars /\ x \in {x}
      OBVIOUS
    <3>2. \A v \in {x} : env[v].State = "CopyVar" => env[v].Source \in {x}
      BY <1>1
    <3> QED BY <2>2, <3>1, <3>2 DEF CopyChain
  <2> QED BY <2>1, <2>2
<1> QED BY <1>1, <1>2 DEF ChainEnd

LEMMA FollowCopiesType ==
    ASSUME NEW env \in Values, NEW s \in Atoms
    PROVE  FollowCopies(env, s) \in ResolvedStates
<1>1. CASE s \in Copies
  <2>1. s.State = "CopyVar" /\ s.Source \in Vars
    BY <1>1 DEF Copies
  <2>2. FollowCopies(env, s) = env[s.Source]
    BY <2>1, ChainEndsAtOnce DEF FollowCopies
  <2> QED BY <2>1, <2>2 DEF Values
<1>2. CASE s \in ResolvedStates
  <2>1. s.State # "CopyVar"
    BY <1>2 DEF ResolvedStates, Unknown, Primitives, Buffers
  <2> QED BY <1>2, <2>1 DEF FollowCopies
<1> QED BY <1>1, <1>2 DEF Atoms

\* An operator's result refers to no variable.
LEMMA PerformComputationType ==
    ASSUME NEW op \in OPERATOR, NEW lhs \in ResolvedStates, NEW rhs \in ResolvedStates
    PROVE  PerformComputation(op, lhs, rhs) \in ResolvedStates
<1>1. CASE lhs.State = "Primitive" /\ rhs.State = "Primitive"
  <2>1. lhs.Value \in Int /\ rhs.Value \in Int
    BY <1>1, HalfAssumption DEF ResolvedStates, Unknown, Primitives, Buffers, Ints
  <2>2. ApplyOperator(op, lhs.Value, rhs.Value) \in Ints
    BY <2>1, WrapType DEF ApplyOperator, OPERATOR
  <2>3. PerformComputation(op, lhs, rhs)
            = Primitive(ApplyOperator(op, lhs.Value, rhs.Value))
    BY <1>1 DEF PerformComputation
  <2> QED BY <2>2, <2>3 DEF ResolvedStates, Primitives, Primitive
<1>2. CASE ~(lhs.State = "Primitive" /\ rhs.State = "Primitive")
  <2>1. PerformComputation(op, lhs, rhs) \in {Unknown, NullBuffer}
    BY <1>2 DEF PerformComputation
  <2>2. NullBuffer \in Buffers
    BY HalfAssumption DEF NullBuffer, Buffers, ObjectSizes
  <2> QED BY <2>1, <2>2 DEF ResolvedStates
<1> QED BY <1>1, <1>2

LEMMA ResolveSumType ==
    ASSUME NEW env \in Values, NEW s \in Sums
    PROVE  ResolveSum(env, s) \in ResolvedStates
<1>1. CASE s \in Atoms
  <2>1. FollowCopies(env, s) \in ResolvedStates
    BY <1>1, FollowCopiesType
  <2>2. FollowCopies(env, s).State # "Compute"
    BY <2>1 DEF ResolvedStates, Unknown, Primitives, Buffers
  <2> QED BY <2>1, <2>2 DEF ResolveSum, ResolveValue
<1>2. CASE s \in ComputesOver(Atoms)
  <2>1. s.State = "Compute" /\ s.Operation \in OPERATOR
            /\ s.LHS \in Atoms /\ s.RHS \in Atoms
    BY <1>2 DEF ComputesOver
  <2>2. ResolveSum(env, s) = PerformComputation(s.Operation, FollowCopies(env, s.LHS),
                                                FollowCopies(env, s.RHS))
    BY <2>1 DEF ResolveSum, ResolveValue, ResolveAtom, FollowCopies
  <2> QED BY <2>1, <2>2, FollowCopiesType, PerformComputationType
<1> QED BY <1>1, <1>2 DEF Sums

\* In values that refer to no variable, whatever the parser builds resolves to
\* a state that refers to none: no copy is left over, no computation, and
\* nothing to throw UnknownVariableStateException for.
THEOREM ResolveType ==
    ASSUME NEW env \in Values, NEW s \in Expressions
    PROVE  Resolve(env, s) \in ResolvedStates
<1>1. CASE s \in Atoms
  <2>1. FollowCopies(env, s) \in ResolvedStates
    BY <1>1, FollowCopiesType
  <2>2. FollowCopies(env, s).State # "Compute"
    BY <2>1 DEF ResolvedStates, Unknown, Primitives, Buffers
  <2> QED BY <2>1, <2>2 DEF Resolve, ResolveValue
<1>2. CASE s \in ComputesOver(Sums) \/ s \in ComputesOver(Atoms)
  <2>1. s.State = "Compute" /\ s.Operation \in OPERATOR
            /\ s.LHS \in Sums /\ s.RHS \in Sums
    BY <1>2 DEF ComputesOver, Sums
  <2>2. Resolve(env, s) = PerformComputation(s.Operation, ResolveSum(env, s.LHS),
                                             ResolveSum(env, s.RHS))
    BY <2>1 DEF Resolve, ResolveValue, FollowCopies
  <2> QED BY <2>1, <2>2, ResolveSumType, PerformComputationType
<1> QED BY <1>1, <1>2 DEF Expressions, Sums

\* Values that refer to no variable cannot refer to each other in a circle.
LEMMA ResolvedIsAcyclic ==
    ASSUME NEW env \in Values
    PROVE  Acyclic(env)
<1>1. \A x \in Vars : Sources(env[x]) = {}
  BY DEF Values, ResolvedStates, Unknown, Primitives, Buffers,
         Sources, SidesOf, SourcesOf
<1> QED BY <1>1 DEF Acyclic

----------------------------------------------------------------------------
(* Conditions.                                                             *)

\* Every value a leaf can ask about is resolved, and so are those it compares
\* with.
LEMMA SubjectType ==
    ASSUME NEW env \in Values, NEW leaf \in Leaves
    PROVE  /\ Resolve(env, leaf.Subject) \in ResolvedStates
           /\ leaf.Value \in ValueRanges
<1>1. leaf.Subject \in Expressions /\ leaf.Value \in ValueRanges
  BY DEF Leaves, Literals, Expressions, Sums, Atoms, ResolvedStates
<1> QED BY <1>1, ResolveType

LEMMA GetVariableValueType ==
    ASSUME NEW env \in Values, NEW x \in Vars
    PROVE  GetVariableValue(env, x) \in ResolvedStates
<1>1. env[x] \in Expressions
  BY DEF Values, Expressions, Sums, Atoms
<1> QED BY <1>1, ResolveType DEF GetVariableValue

\* Of a comparison of numbers and the negated one, exactly one is true.
LEMMA NegatedComparison ==
    ASSUME NEW op \in COMPARISON, NEW s \in ResolvedStates, NEW other \in ResolvedStates
    PROVE  /\ NegateComparison(op) \in COMPARISON
           /\ ~(CompareTo(op, s, other) /\ CompareTo(NegateComparison(op), s, other))
           /\ s.State = "Primitive" /\ other.State = "Primitive" =>
                CompareTo(op, s, other) \/ CompareTo(NegateComparison(op), s, other)
<1>1. NegateComparison(op) \in COMPARISON
  BY DEF COMPARISON, NegateComparison
<1>2. ASSUME s.State = "Primitive", other.State = "Primitive"
      PROVE  CompareValues(NegateComparison(op), s.Value, other.Value)
                <=> ~CompareValues(op, s.Value, other.Value)
  <2>1. s.Value \in Int /\ other.Value \in Int
    BY <1>2, HalfAssumption DEF ResolvedStates, Unknown, Primitives, Buffers, Ints
  <2> QED BY <2>1 DEF COMPARISON, NegateComparison, CompareValues
<1> QED BY <1>1, <1>2 DEF CompareTo

\* A condition of a single leaf holds when its leaf does, and so does the
\* condition that negates it.
LEMMA SingleCondition ==
    ASSUME NEW leaf, NEW env
    PROVE  /\ TheLeaf(When(leaf)) = leaf
           /\ Evaluate(When(leaf), env) <=> LeafHolds(leaf, env)
           /\ Evaluate(Negate(When(leaf)), env) <=> LeafHolds(NegateLeaf(leaf), env)
<1>1. ASSUME NEW one PROVE Evaluate(When(one), env) <=> LeafHolds(one, env)
  <2>1. /\ When(one).Tautology = FALSE
        /\ When(one).VariableConditions = {{one}}
    BY DEF When
  <2> QED BY <2>1 DEF Evaluate
<1>2. TheLeaf(When(leaf)) = leaf
  <2>1. UNION When(leaf).VariableConditions = {leaf}
    BY DEF When
  <2> QED BY <2>1 DEF TheLeaf
<1>3. Negate(When(leaf)) = When(NegateLeaf(leaf))
  <2>1. When(leaf).Tautology = FALSE
    BY DEF When
  <2> QED BY <1>2, <2>1 DEF Negate
<1> QED BY <1>1, <1>2, <1>3

\* No state satisfies both the condition of an if statement and the negated one
\* of its else branch, and one of the two holds of a known subject when the
\* range does not compare things that do not compare.
THEOREM NegatedLeaf ==
    ASSUME NEW env \in Values, NEW leaf \in Leaves
    PROVE  LET value == Resolve(env, leaf.Subject) IN
           /\ ~(LeafHolds(leaf, env) /\ LeafHolds(NegateLeaf(leaf), env))
           /\ value.State # "Unknown" /\ leaf.Value.Type \in {"Zero", "NotZero"} =>
                LeafHolds(leaf, env) \/ LeafHolds(NegateLeaf(leaf), env)
           /\ (/\ leaf.Value.Type = "Constant"
               /\ value.State = "Primitive"
               /\ leaf.Value.ComparedConstant.State = "Primitive") =>
                LeafHolds(leaf, env) \/ LeafHolds(NegateLeaf(leaf), env)
<1> DEFINE value == Resolve(env, leaf.Subject)
           range == leaf.Value
<1>1. value \in ResolvedStates /\ range \in ValueRanges
  BY SubjectType
<1>2. NegateLeaf(leaf).Subject = leaf.Subject /\ NegateLeaf(leaf).Value = NegateRange(range)
  BY DEF NegateLeaf, Leaf
<1>3. /\ LeafHolds(leaf, env) <=>
            value.State # "Unknown" /\ RangeMatches(range, env, value)
      /\ LeafHolds(NegateLeaf(leaf), env) <=>
            value.State # "Unknown" /\ RangeMatches(NegateRange(range), env, value)
  BY <1>2 DEF LeafHolds
<1>4. CASE range.Type \in {"Zero", "NotZero"}
  <2>1. range \in {Zero, NotZero}
    BY <1>1, <1>4 DEF ValueRanges
  <2>2. RangeMatches(NegateRange(range), env, value) <=> ~RangeMatches(range, env, value)
    BY <2>1 DEF RangeMatches, NegateRange, Zero, NotZero
  <2> QED BY <1>3, <1>4, <2>2
<1>5. CASE range.Type = "Comparison"
  <2>1. range.Comparison \in COMPARISON /\ range.ComparedTo \in Vars
    BY <1>1, <1>5 DEF ValueRanges, Zero, NotZero
  <2> DEFINE other == GetVariableValue(env, range.ComparedTo)
  <2>2. other \in ResolvedStates
    BY <2>1, GetVariableValueType
  <2>3. RangeMatches(range, env, value) <=> CompareTo(range.Comparison, value, other)
    BY <1>5 DEF RangeMatches
  <2>4. RangeMatches(NegateRange(range), env, value)
            <=> CompareTo(NegateComparison(range.Comparison), value, other)
    BY <1>5 DEF RangeMatches, NegateRange, ComparedTo
  <2> HIDE DEF value, range, other
  <2> QED BY <1>1, <1>3, <1>5, <2>1, <2>2, <2>3, <2>4, NegatedComparison DEF value, range
<1>6. CASE range.Type = "Constant"
  <2>1. range.Comparison \in COMPARISON /\ range.ComparedConstant \in Literals
    BY <1>1, <1>6 DEF ValueRanges, Zero, NotZero
  <2> DEFINE other == range.ComparedConstant
  <2>2. other \in ResolvedStates
    BY <2>1 DEF Literals, ResolvedStates
  <2>3. RangeMatches(range, env, value) <=> CompareTo(range.Comparison, value, other)
    BY <1>6 DEF RangeMatches
  <2>4. RangeMatches(NegateRange(range), env, value)
            <=> CompareTo(NegateComparison(range.Comparison), value, other)
    BY <1>6 DEF RangeMatches, NegateRange, ComparedConstant
  <2> HIDE DEF value, range, other
  <2> QED BY <1>1, <1>3, <1>6, <2>1, <2>2, <2>3, <2>4, NegatedComparison
          DEF value, range, other
<1>7. range.Type \in {"Zero", "NotZero", "Comparison", "Constant"}
  BY <1>1 DEF ValueRanges, Zero, NotZero
<1> QED BY <1>4, <1>5, <1>6, <1>7
=============================================================================
