------------------------------- MODULE MCCalls -------------------------------
(***************************************************************************)
(* Programs of up to three functions that call each other and themselves:  *)
(* with literal and unknown arguments, under conditions on a parameter,    *)
(* with the wrong number of arguments, and into functions that are not in  *)
(* the translation unit.                                                   *)
(***************************************************************************)
EXTENDS AnalyzerReference

If(x, range) == When(Leaf(CopyVar(x), range))

Call(condition, name, params) ==
    [Kind |-> "FunctionCall", If |-> condition, Function |-> name, Params |-> params]
Assign(x, state) ==
    [Kind |-> "VarAssigned", If |-> Always, Variable |-> x, State |-> state]
Declare(x, state) ==
    [Kind |-> "VarDeclared", If |-> Always, Variable |-> x, State |-> state]
Access(condition, x, n) ==
    [Kind |-> "ArrayIndexAccess", If |-> condition, Array |-> x, Index |-> Primitive(n)]

One == <<Primitive(1)>>
Two == <<Primitive(2)>>
IsOne == If("n", ComparedConstant("EQUAL", Primitive(1)))

\* "main" sets the variable that names f's parameter, and calls f.
MainMenu == {
    Assign("n", Primitive(1)),
    Call(Always, "f", One),
    Call(Always, "f", Two),
    Call(IsOne, "f", <<Unknown>>),
    Call(Always, "f", <<>>),
    Call(Always, "g", <<>>),
    Call(Always, "undefined", One)
}

\* "void f(int n)" calls itself, under a condition or not, g, and main again.
FMenu == {
    Declare("s", Buffer(1)),
    Assign("n", Primitive(1)),
    Call(Always, "f", One),
    Call(IsOne, "f", Two),
    Call(Negate(IsOne), "g", <<>>),
    Call(Always, "main", <<>>),
    Access(IsOne, "s", 1)
}

GBodies == {
    <<Call(Always, "f", Two), Call(Always, "f", <<Unknown>>)>>,
    <<Call(Always, "f", One), Call(Always, "g", <<>>)>>
}

BodiesUpTo(n, menu) == UNION {[1..length -> menu] : length \in 0..n}
Block(parameters, actions) == [Parameters |-> parameters, Actions |-> actions]

\* main with no parameters; f and g defined.
ClosedPrograms ==
    {[main |-> Block(<<>>, main), f |-> Block(<<"n">>, f), g |-> Block(<<>>, g)] :
        main \in BodiesUpTo(2, MainMenu), f \in BodiesUpTo(2, FMenu), g \in GBodies}

\* main as it is declared in other programs, and a translation unit without it.
OtherPrograms ==
    {[main |-> Block(parameters, main), f |-> Block(<<"n">>, f)] :
        parameters \in {<<"n">>, <<"n", "s">>, <<"n", "s", "e">>},
        main \in BodiesUpTo(1, MainMenu), f \in BodiesUpTo(1, FMenu)}
    \cup {[f |-> Block(<<"n">>, f)] : f \in BodiesUpTo(1, FMenu)}

MCRegistries == ClosedPrograms \cup OtherPrograms
MCArgumentLists ==
    {<<>>, One, Two, <<Unknown>>, UnknownParams(2), UnknownParams(3)}

\* The programs of this instance, instead of all.
MCInit == FunctionBlocks \in MCRegistries /\ Unstarted
MCSpec == MCInit /\ [][Next]_vars /\ Fairness
=============================================================================
