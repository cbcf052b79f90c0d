----------------------------- MODULE MCPipeline -----------------------------
(***************************************************************************)
(* Programs of main and "void f(int n)": main declares a string and goes   *)
(* on with up to three statements, which set variables, branch on them,    *)
(* access elements and call f.                                             *)
(***************************************************************************)
EXTENDS PipelineReference

Number(n) == IntegerLiteral(n, Half)
Variable(x) == DeclRefExpr(x)
Do(at, e) == [Kind |-> "Expr", At |-> at, Expr |-> e]
Declare(at, x, initialiser) ==
    [Kind |-> "DeclStmt", At |-> at, Variable |-> x, Initialiser |-> initialiser]
Assign(at, x, e) == Do(at, BinaryOperator(Variable(x), "=", e))
Access(at, x, n) == Do(at, ArraySubscriptExpr(Variable(x), Number(n)))
Call(at, name, arguments) == Do(at, CallExpr(DeclRefExpr(name), arguments))
If(at, cond, then, else) ==
    [Kind |-> "IfStmt", At |-> at, Cond |-> cond, Then |-> then, Else |-> else]
Switch(at, cond, body) == [Kind |-> "SwitchStmt", At |-> at, Cond |-> cond, Body |-> body]
Case(at, e) == [Kind |-> "CaseStmt", At |-> at, Value |-> e]
Plain(kind, at) == [Kind |-> kind, At |-> at]
Is(x, n) == BinaryOperator(Variable(x), "==", Number(n))

\* char s[] = "a"; with its terminator.
String == StringLiteral(1, 2)

Menu(at) == <<
    Assign(at, "x", Number(1)),
    Assign(at, "x", BinaryOperator(Variable("x"), "+", UnaryOperator("-", Number(3)))),
    Assign(at, "x", BinaryOperator(Variable("x"), "/", Number(2))),
    Assign(at, "p", Variable("s")),
    Access(at, "s", 1),
    Access(at, "p", 2),
    Call(at, "f", <<Number(1)>>),
    Call(at, "f", <<UnaryOperator("-", Number(2))>>),
    Call(at, "g", <<>>),
    If(at, Is("x", 1), <<Access(at, "s", 3)>>, <<Access(at, "s", 0)>>),
    If(at, Is("x", 1), <<Assign(at, "x", Number(2))>>, <<Access(at, "s", 4)>>),
    If(at, UnaryOperator("!", Variable("x")), <<Access(at, "s", 5)>>, <<>>),
    If(at, Variable("p"), <<If(at, BinaryOperator(Variable("x"), "<", Number(0)),
                               <<Access(at, "p", 5), Assign(at, "y", Number(1))>>,
                               <<Assign(at, "y", Variable("x"))>>)>>, <<>>),
    Switch(at, Variable("x"), <<Case(at, Number(1)), Access(at, "s", 6),
                                Case(at, UnaryOperator("-", Number(2))), Access(at, "p", 7),
                                Plain("BreakStmt", at),
                                Plain("DefaultStmt", at), Access(at, "s", 2)>>)
>>

FBodies == {
    <<Declare(1, "s", String), If(2, Is("n", 1), <<Access(3, "s", 2)>>, <<Access(3, "s", 3)>>)>>,
    <<Assign(1, "n", BinaryOperator(Variable("n"), "*", Number(2))), Declare(2, "s", String),
      Switch(3, Variable("n"), <<Case(4, Number(2)), Access(5, "s", 4), Plain("BreakStmt", 6),
                                 Plain("DefaultStmt", 7),
                                 Call(8, "f", <<UnaryOperator("-", Number(2))>>)>>)>>
}

Define(name, parameters, body) ==
    [Name |-> name, IsDefinition |-> TRUE, Parameters |-> parameters, Body |-> body]
Prototype(name, parameters) ==
    [Name |-> name, IsDefinition |-> FALSE, Parameters |-> parameters, Body |-> <<>>]

\* A third statement comes behind one that sets x.
MainBodies(n) ==
    UNION {{<<Declare(1, "s", String)>> \o [i \in 1..length |-> Menu(10 * i)[choice[i]]] :
                choice \in {c \in [1..length -> DOMAIN Menu(10)] : length = 3 => c[1] <= 3}} :
           length \in 0..n}

MCPrograms ==
    {<<Define("f", <<"n">>, f), Define("main", <<>>, main)>> :
        f \in FBodies, main \in MainBodies(3)}
    \cup {<<Prototype("f", <<"n">>), Define("main", <<>>, main), Define("f", <<"n">>, f)>> :
            f \in FBodies, main \in MainBodies(1)}
    \cup {<<Define("f", <<"n">>, f)>> : f \in FBodies}
    \cup {<<Define("main", parameters, main)>> :
            parameters \in {<<"n">>, <<"n", "y">>}, main \in MainBodies(1)}

\* x = 1; if(x == 1) { x = 2; } else { s[4]; }
StalePrograms ==
    {<<Define("main", <<>>, <<Declare(1, "s", String), Menu(10)[1], Menu(20)[11]>>)>>}

UnitsOf(programs) == {HandedUnit(p) : p \in programs}
StatementsOf(units) ==
    UNION {UNION {StatementsIn(declaration.Body) : declaration \in ToSet(u)} : u \in units}
MCUnits == UnitsOf(MCPrograms)
MCStatements == StatementsOf(MCUnits)
StaleUnits == UnitsOf(StalePrograms)
StaleStatements == StatementsOf(StaleUnits)

MCArgumentLists ==
    {<<>>, UnknownParams(2), UnknownParams(3)} \cup {<<Primitive(n)>> : n \in {1, -2}}
=============================================================================
