------------------------------ MODULE MCValues ------------------------------
(***************************************************************************)
(* Every program of one function of up to four actions from a small menu:  *)
(* copies, computations that overflow, buffers, null pointers, conditions  *)
(* and accesses.                                                           *)
(***************************************************************************)
EXTENDS AnalyzerReference

If(x, range) == When(Leaf(CopyVar(x), range))

Declare(x, state) ==
    [Kind |-> "VarDeclared", If |-> Always, Variable |-> x, State |-> state]
Assign(condition, x, state) ==
    [Kind |-> "VarAssigned", If |-> condition, Variable |-> x, State |-> state]
Access(condition, x, n) ==
    [Kind |-> "ArrayIndexAccess", If |-> condition, Array |-> x, Index |-> Primitive(n)]

IsOne == If("n", ComparedConstant("EQUAL", Primitive(1)))
IsBelow == If("n", ComparedTo("LESS_THAN", "p"))

\* The actions of "char s[] = ...; n = 1; p = s; if(n == 1) ... else ..." and
\* their like. The condition that joins two is what a nested if leaves.
MCMenu == {
    Declare("s", Buffer(2)),
    Assign(Always, "n", Primitive(1)),
    Assign(Always, "p", CopyVar("n")),
    Assign(Always, "n", CopyVar("p")),
    Assign(Always, "p", CopyVar("s")),
    Assign(Always, "p", Compute(CopyVar("s"), "Subtract", CopyVar("s"))),
    Assign(Always, "n", Compute(Compute(CopyVar("n"), "Multiply", Primitive(3)),
                                "Add", Primitive(1))),
    Assign(Negate(IsOne), "p", Compute(CopyVar("n"), "Add", CopyVar("s"))),
    Assign(IsBelow, "n", Primitive(-2)),
    Access(Always, "p", 2),
    Access(Always, "s", -1),
    Access(And(If("n", NotZero), If("s", NotZero)), "p", 1),
    Access(Or(IsOne, If("p", Zero)), "s", 2)
}

MCBodies == UNION {[1..length -> MCMenu] : length \in 0..4}
MCRegistries == {[main |-> [Parameters |-> <<>>, Actions |-> body]] : body \in MCBodies}
MCArgumentLists == {<<>>, UnknownParams(2), UnknownParams(3)}

\* The programs of this instance, instead of all.
MCInit == FunctionBlocks \in MCRegistries /\ Unstarted
MCSpec == MCInit /\ [][Next]_vars /\ Fairness
=============================================================================
