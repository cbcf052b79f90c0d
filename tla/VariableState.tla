--------------------------- MODULE VariableState ---------------------------
(***************************************************************************)
(* What the analyzer knows of a program variable (parse/Variable.h and     *)
(* Variable.cpp): the states a value can be in, how a state that refers to *)
(* other variables is resolved, and how two states compare.                *)
(*                                                                         *)
(* A ProgramState's map from identifiers to states is a total function     *)
(* here: a variable the map has no entry for is Unknown, and no read tells *)
(* the two apart (Analyzer.cpp, lines 54 to 80).                           *)
(***************************************************************************)
EXTENDS Integers

CONSTANTS
    Vars,   \* the variable identifiers of the analysed program
    Half    \* a long long is -Half .. Half - 1; 2^63 in the build

ASSUME HalfAssumption == Half \in Nat \ {0}

----------------------------------------------------------------------------
(* Machine integers.                                                       *)

Ints == -Half .. Half - 1       \* PrimitiveInfo::Integer
Sizes == 0 .. 2 * Half - 1      \* size_t

\* No object is larger than the largest difference of two pointers.
ObjectSizes == 0 .. Half - 1

\* A signed result that does not fit keeps its low bits: what the add, sub and
\* mul instructions of the build leave of an overflow the language leaves
\* undefined.
Wrap(n) == ((n + Half) % (2 * Half)) - Half

\* The conversion of a long long operand to size_t.
Unsigned(n) == n % (2 * Half)

----------------------------------------------------------------------------
(* The five states, as the variant they carry.                             *)

COMPARISON == {"LESS_THAN", "LESS_THAN_EQUAL", "GREATER_THAN",
               "GREATER_THAN_EQUAL", "NOT_EQUAL", "EQUAL"}
OPERATOR == {"Add", "Multiply", "Subtract"}

Unknown == [State |-> "Unknown"]
Primitive(n) == [State |-> "Primitive", Value |-> n]
Buffer(size) == [State |-> "Buffer", NullPtr |-> FALSE, AllocatedSize |-> size]
NullBuffer == [State |-> "Buffer", NullPtr |-> TRUE, AllocatedSize |-> 0]
CopyVar(x) == [State |-> "CopyVar", Source |-> x]
Compute(lhs, op, rhs) ==
    [State |-> "Compute", Operation |-> op, LHS |-> lhs, RHS |-> rhs]

Primitives == [State : {"Primitive"}, Value : Ints]
Buffers == [State : {"Buffer"}, NullPtr : BOOLEAN, AllocatedSize : ObjectSizes]
Copies == [State : {"CopyVar"}, Source : Vars]

\* A state that refers to no variable.
ResolvedStates == {Unknown} \cup Primitives \cup Buffers

\* What LiteralStateVisitor makes of an argument: a literal, or nothing.
Literals == {Unknown} \cup Primitives

\* What a parser leaves that finds nothing it can make a value of: the empty
\* std::optional.
NotParsed == [State |-> "NotParsed"]

\* The states an action can carry: the right-hand sides the expression parser
\* builds, with operators nested to a depth of two (the bound of this model).
Atoms == ResolvedStates \cup Copies
ComputesOver(S) == [State : {"Compute"}, Operation : OPERATOR, LHS : S, RHS : S]
Sums == Atoms \cup ComputesOver(Atoms)
Expressions == Sums \cup ComputesOver(Sums)

----------------------------------------------------------------------------
(* Resolving, in the values env of the other variables.                    *)

\* The variables the loop of ResolveValue reads when it starts at x: the
\* smallest set that holds x and the source of every copy in it.
CopyChain(env, x) ==
    {y \in Vars :
        \A S \in SUBSET Vars :
            (x \in S /\ \A v \in S : env[v].State = "CopyVar" => env[v].Source \in S)
                => y \in S}

\* Where that loop stops. A chain that closes on itself has no such variable:
\* the loop does not end.
ChainEnd(env, x) == CHOOSE y \in CopyChain(env, x) : env[y].State # "CopyVar"

FollowCopies(env, s) ==
    IF s.State = "CopyVar" THEN env[ChainEnd(env, s.Source)] ELSE s

ApplyOperator(op, a, b) ==
    Wrap(CASE op = "Add" -> a + b
           [] op = "Multiply" -> a * b
           [] op = "Subtract" -> a - b)

\* PerformComputation, once its two sides are resolved. Two buffers make a
\* null pointer whatever the operator (BufferInfo::ApplyOperator).
PerformComputation(op, lhs, rhs) ==
    IF lhs.State = "Unknown" \/ rhs.State = "Unknown" \/ lhs.State # rhs.State
    THEN Unknown
    ELSE IF lhs.State = "Primitive"
         THEN Primitive(ApplyOperator(op, lhs.Value, rhs.Value))
         ELSE NullBuffer

\* ResolveValue, with ResolveSide for its recursive calls.
ResolveValue(ResolveSide(_, _), env, s) ==
    LET value == FollowCopies(env, s) IN
    IF value.State = "Compute"
    THEN PerformComputation(value.Operation, ResolveSide(env, value.LHS),
                            ResolveSide(env, value.RHS))
    ELSE value

ResolveAtom(env, s) == FollowCopies(env, s)
ResolveSum(env, s) == ResolveValue(ResolveAtom, env, s)
\* Mutant: the copies are followed, but what they lead to is not computed.
ResolveCopiesOnly(env, s) == FollowCopies(env, s)

Resolve(env, s) == ResolveValue(ResolveSum, env, s)

\* ProgramState::GetVariableValue: the entry of the variable, resolved. Its
\* handler for UnknownVariableStateException has nothing to catch, because
\* resolving never throws.
GetVariableValue(env, x) == Resolve(env, env[x])

\* The variables a state refers to, operators nested as in Expressions.
SourcesOf(s) == IF s.State = "CopyVar" THEN {s.Source} ELSE {}
SidesOf(Sources(_), s) ==
    IF s.State = "Compute" THEN Sources(s.LHS) \cup Sources(s.RHS) ELSE SourcesOf(s)
SourcesOfSum(s) == SidesOf(SourcesOf, s)
Sources(s) == SidesOf(SourcesOfSum, s)

\* No set of variables depends only on itself: what the loop and the recursion
\* of ResolveValue need to end, from whichever variable they start.
Acyclic(env) ==
    \A S \in (SUBSET Vars) \ {{}} : \E x \in S : Sources(env[x]) \cap S = {}

----------------------------------------------------------------------------
(* Comparing resolved states.                                              *)

ToZeroOrNonZero(s) ==
    IF s.State = "Primitive" THEN (IF s.Value # 0 THEN 1 ELSE 0)
                             ELSE (IF s.NullPtr THEN 0 ELSE 1)

CompareValues(op, a, b) ==
    \/ op = "LESS_THAN" /\ a < b
    \/ op = "LESS_THAN_EQUAL" /\ a <= b
    \/ op = "GREATER_THAN" /\ a > b
    \/ op = "GREATER_THAN_EQUAL" /\ a >= b
    \/ op = "NOT_EQUAL" /\ a # b
    \/ op = "EQUAL" /\ a = b

\* Only two numbers compare; anything else is not true, for every operator.
CompareTo(op, s, other) ==
    /\ s.State = "Primitive"
    /\ other.State = "Primitive"
    /\ CompareValues(op, s.Value, other.Value)

\* Mutant: the operator with its sides exchanged, instead of its negation.
MirrorComparison(op) ==
    CASE op = "LESS_THAN" -> "GREATER_THAN"
      [] op = "LESS_THAN_EQUAL" -> "GREATER_THAN_EQUAL"
      [] op = "GREATER_THAN" -> "LESS_THAN"
      [] op = "GREATER_THAN_EQUAL" -> "LESS_THAN_EQUAL"
      [] op \in {"NOT_EQUAL", "EQUAL"} -> op

NegateComparison(op) ==
    CASE op = "LESS_THAN" -> "GREATER_THAN_EQUAL"
      [] op = "LESS_THAN_EQUAL" -> "GREATER_THAN"
      [] op = "GREATER_THAN" -> "LESS_THAN_EQUAL"
      [] op = "GREATER_THAN_EQUAL" -> "LESS_THAN"
      [] op = "NOT_EQUAL" -> "EQUAL"
      [] op = "EQUAL" -> "NOT_EQUAL"

----------------------------------------------------------------------------
(* What the access check compares.                                         *)

\* "buf->AllocatedSize <= indexNumber->AsInteger()": the index is converted to
\* size_t before the comparison.
\* Mutant: the comparison is made before the conversion, so it is a signed one.
OutsideBufferSigned(size, index) == size <= index

OutsideBuffer(size, index) == size <= Unsigned(index)
=============================================================================
