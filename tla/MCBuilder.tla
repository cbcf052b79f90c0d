----------------------------- MODULE MCBuilder -----------------------------
(***************************************************************************)
(* Functions of nested branches and switches: every switch body of up to   *)
(* four labels and statements, in the function itself, in a branch and in  *)
(* another switch; and translation units with more than one declaration.   *)
(***************************************************************************)
EXTENDS BuilderReference

Access(at) ==
    [Kind |-> "ArraySubscriptExpr", At |-> at, Array |-> "s", Index |-> Primitive(1)]
If(at, condition, then, else) ==
    [Kind |-> "IfStmt", At |-> at, Condition |-> condition, Then |-> then, Else |-> else]
Switch(at, subject, body) ==
    [Kind |-> "SwitchStmt", At |-> at, Subject |-> subject, Body |-> body]
While(at, body) == [Kind |-> "WhileStmt", At |-> at, Body |-> body]
Case(at, value) == [Kind |-> "CaseStmt", At |-> at, Value |-> value]
Plain(kind, at) == [Kind |-> kind, At |-> at]

Is(n) == Leaf(CopyVar("x"), ComparedConstant("EQUAL", Primitive(n)))
Below(n) == Leaf(CopyVar("x"), ComparedConstant("LESS_THAN", Primitive(n)))

\* The statements of a body, at a position of it.
SwitchMenu(at) == <<
    Case(at, Primitive(0)),
    Case(at, Primitive(1)),
    Case(at, Unknown),
    Plain("DefaultStmt", at),
    Plain("BreakStmt", at),
    Access(at),
    If(at, Below(1), <<Plain("BreakStmt", at)>>, <<Access(at + 1)>>),
    While(at, <<Access(at), Plain("BreakStmt", at)>>)
>>

Menu(at) == <<
    [Kind |-> "VarDecl", At |-> at, Variable |-> "s", State |-> Buffer(1)],
    [Kind |-> "Assign", At |-> at, Variable |-> "s", State |-> CopyVar("x")],
    [Kind |-> "Assign", At |-> at, Variable |-> "s", State |-> NotParsed],
    [Kind |-> "ArraySubscriptExpr", At |-> at, Array |-> "s", Index |-> Unknown],
    [Kind |-> "CallExpr", At |-> at, IsDirect |-> TRUE, Function |-> "f",
     Params |-> <<Unknown>>],
    [Kind |-> "CallExpr", At |-> at, IsDirect |-> FALSE, Function |-> "f", Params |-> <<>>],
    [Kind |-> "FunctionDecl", At |-> at, Parameters |-> <<"x">>],
    Access(at),
    If(at, Is(0), <<Access(at)>>, <<Access(at + 1)>>),
    If(at, NotParsed, <<Access(at)>>, <<Access(at + 1)>>),
    Switch(at, Primitive(1), <<Case(at, Primitive(1)), Access(at)>>),
    Switch(at, NotParsed, <<Plain("DefaultStmt", at), Access(at)>>),
    Switch(at, CopyVar("x"), <<Case(at, Primitive(0)), Access(at), Plain("BreakStmt", at),
                               Plain("DefaultStmt", at), Access(at + 1)>>),
    While(at, <<Access(at), Plain("BreakStmt", at)>>),
    Plain("ReturnStmt", at)
>>

\* Bodies of up to n statements, at positions 10, 20 and so on.
BodiesUpTo(n, menu(_)) ==
    UNION {{[i \in 1..length |-> menu(10 * i)[choice[i]]] :
                choice \in [1..length -> DOMAIN menu(10)]} : length \in 0..n}

\* No two labels of a switch are the same.
SwitchBodies(n) ==
    {body \in BodiesUpTo(n, SwitchMenu) :
        \A i, j \in DOMAIN body :
            (/\ body[i].Kind = body[j].Kind
             /\ \/ body[i].Kind = "DefaultStmt"
                \/ /\ body[i].Kind = "CaseStmt"
                   /\ body[i].Value = body[j].Value
                   /\ body[i].Value # Unknown) => i = j}

Around(body) == {
    <<Access(1), If(2, Below(1), body, <<Access(3)>>), Access(4)>>,
    <<If(2, Below(2), <<If(3, Is(0), <<Access(4)>>, body)>>, <<Access(5)>>)>>,
    <<Switch(2, CopyVar("x"), <<Case(2, Primitive(1)), Case(2, Primitive(0))>> \o body)>>,
    <<Switch(2, CopyVar("x"), <<Case(2, Primitive(1)), Plain("BreakStmt", 2),
                                Plain("DefaultStmt", 2)>> \o body)>>
}

Small == BodiesUpTo(2, Menu)
Large == {<<Switch(1, CopyVar("x"), body), Access(2)>> : body \in SwitchBodies(4)}
Nested == UNION {Around(body) : body \in BodiesUpTo(1, Menu)}
    \cup {<<If(3, Below(1), <<Switch(1, CopyVar("x"), body), Access(2)>>, <<Access(4)>>)>> :
                body \in SwitchBodies(3)}

Define(name, parameters, body) ==
    [Name |-> name, IsDefinition |-> TRUE, Parameters |-> parameters, Body |-> body]
Declare(name, parameters) ==
    [Name |-> name, IsDefinition |-> FALSE, Parameters |-> parameters, Body |-> <<>>]

MCUnits ==
    {<<Define("f", <<"x">>, body)>> : body \in Small \cup Large \cup Nested}
    \cup {<<Declare("f", <<"x">>), Define("main", <<>>, body), Define("f", <<"x">>, body)>> :
                body \in BodiesUpTo(1, Menu)}

\* if(x == 1) { if(g()) { s[1] = 0; } }
UnparsedUnits ==
    {<<Define("f", <<"x">>, <<If(1, Is(1), <<If(2, NotParsed, <<Access(3)>>, <<>>)>>, <<>>)>>)>>}

\* if(g()) { s[1] = 0; } else { s[1] = 0; }
ElseUnits ==
    {<<Define("f", <<"x">>, <<If(1, NotParsed, <<Access(2)>>, <<Access(3)>>)>>)>>}

\* void f(int x) { s[1] = 0; }  void f(int x);
RedeclaredUnits ==
    {<<Define("f", <<"x">>, <<Access(1)>>), Declare("f", <<"x">>)>>}

StatementsOf(units) ==
    UNION {UNION {StatementsIn(declaration.Body) : declaration \in ToSet(u)} : u \in units}
MCStatements == StatementsOf(MCUnits)
UnparsedStatements == StatementsOf(UnparsedUnits)
ElseStatements == StatementsOf(ElseUnits)
RedeclaredStatements == StatementsOf(RedeclaredUnits)

MCArgumentLists == {<<>>, <<Unknown>>}
MCEnvironments == {[v \in {"x", "s"} |-> Primitive(IF v = "x" THEN n ELSE 0)] : n \in 0..2}
=============================================================================
