------------------------- MODULE PipelineReference -------------------------
(***************************************************************************)
(* A program as it is written, and what happens when it runs: the element  *)
(* accesses outside of their arrays, in each call that main leads to. TLC  *)
(* compares what is reported with it.                                      *)
(***************************************************************************)
EXTENDS Pipeline, Frontend, ExpressionMeaning, SyntaxTree

CONSTANT Programs   \* the translation units, as written

VARIABLE program

referenceVars == <<program, pipelineVars>>

\* The traversal is handed the program's statements.
ReferenceInit ==
    /\ program \in Programs
    /\ unit = HandedUnit(program)
    /\ Unhandled
ReferenceNext == HandleTranslationUnit /\ UNCHANGED program
ReferenceSpec ==
    ReferenceInit /\ [][ReferenceNext]_referenceVars /\ WF_referenceVars(ReferenceNext)

----------------------------------------------------------------------------
(* How a program runs. Defined is lost where the comparison ends: with     *)
(* what C leaves undefined other than the accesses in question, with a     *)
(* pointer that is calculated with, and with the terminator of a string,   *)
(* which the visitors do not count.                                        *)

Reads(e) == {n.Name : n \in {m \in ToSet(Preorder(e)) : IsVariable(m)}}

IsReadable(e, env) ==
    /\ \A x \in Reads(e) : env[x] # Unknown
    /\ IsVariable(e) \/ \A x \in Reads(e) : env[x].State = "Primitive"
Worth(e, env) == IF IsVariable(e) THEN env[e.Name] ELSE Primitive(Value(e, env))

Uncast(e) == IF e.Kind = "ImplicitCastToBoolean" THEN e.Children[1] ELSE e
IsTrue(e, env) == ToZeroOrNonZero(Worth(Uncast(e), env)) # 0

\* An array with the size its declaration gives it.
Array(initialiser) ==
    IF initialiser.Kind = "StringLiteral"
    THEN [State |-> "Buffer", NullPtr |-> FALSE, AllocatedSize |-> initialiser.Size,
          Counted |-> initialiser.Length]
    ELSE Unknown

RunAccess(run, e) ==
    LET array == run.Env[e.Children[1].Name]
        index == Worth(e.Children[2], run.Env).Value
    IN
    IF array.State # "Buffer" THEN [run EXCEPT !.Defined = FALSE]
    ELSE IF index \in 0 .. array.AllocatedSize - 1
         THEN [run EXCEPT !.Defined = @ /\ index < array.Counted]
    ELSE [run EXCEPT !.Outside = @ \cup {<<e.Children[1].Name, index>>}]

Defined == {program[i].Name : i \in {j \in DOMAIN program : program[j].IsDefinition}}

\* The body of a function that is not in the unit is left out.
RunExpression(run, e) ==
    CASE e.Kind = "ArraySubscriptExpr" -> RunAccess(run, e)
      [] e.Kind = "CallExpr" ->
            LET name == e.Children[1].Name
                arguments == [i \in 1 .. Len(e.Children) - 1 |->
                                Worth(e.Children[i + 1], run.Env)]
            IN [run EXCEPT !.Calls = @ \cup ({name} \cap Defined) \X {arguments}]
      [] e.Kind = "BinaryOperator" /\ e.Opcode = "=" ->
            IF ~IsReadable(e.Children[2], run.Env) THEN [run EXCEPT !.Defined = FALSE]
            ELSE [run EXCEPT !.Env[e.Children[1].Name] = Worth(e.Children[2], run.Env)]

\* The statement of a switch's body that it jumps to.
Entry(body, value) ==
    LET matching == {i \in DOMAIN body :
                        body[i].Kind = "CaseStmt" /\ Worth(body[i].Value, <<>>) = value}
        default == {i \in DOMAIN body : body[i].Kind = "DefaultStmt"}
    IN Min(matching \cup {i \in default : matching = {}} \cup {Len(body) + 1})

RECURSIVE RunStatements(_, _)
RunStatement(run, s) ==
    LET undefined == [run EXCEPT !.Defined = FALSE] IN
    CASE s.Kind = "DeclStmt" ->
            [run EXCEPT !.Env[s.Variable] = Array(s.Initialiser)]
      [] s.Kind = "Expr" -> RunExpression(run, s.Expr)
      [] s.Kind = "IfStmt" ->
            IF ~IsReadable(Uncast(s.Cond), run.Env) THEN undefined
            ELSE RunStatements(run, IF IsTrue(s.Cond, run.Env) THEN s.Then ELSE s.Else)
      [] s.Kind = "SwitchStmt" ->
            IF ~IsReadable(s.Cond, run.Env) THEN undefined
            ELSE LET at == Entry(s.Body, Worth(s.Cond, run.Env))
                 IN [RunStatements(run, SubSeq(s.Body, at, Len(s.Body)))
                        EXCEPT !.Breaks = FALSE]
      [] s.Kind = "BreakStmt" -> [run EXCEPT !.Breaks = TRUE]
      [] OTHER -> run

RunStatements(run, statements) ==
    IF statements = <<>> \/ run.Breaks THEN run
    ELSE RunStatements(RunStatement(run, Head(statements)), Tail(statements))

----------------------------------------------------------------------------
(* A whole program.                                                        *)

Definition(name) ==
    program[CHOOSE i \in DOMAIN program :
                program[i].Name = name /\ program[i].IsDefinition]

RunCall(call) ==
    LET function == Definition(call[1])
        entry == [x \in Vars |->
                    LET at == {i \in DOMAIN call[2] : function.Parameters[i] = x}
                    IN IF at = {} THEN Unknown ELSE call[2][Max(at)]]
    IN RunStatements([Env |-> entry, Outside |-> {}, Calls |-> {}, Breaks |-> FALSE,
                      Defined |-> TRUE], function.Body)

RECURSIVE CallsFrom(_)
CallsFrom(calls) ==
    LET found == calls \cup UNION {RunCall(call).Calls : call \in calls} IN
    IF found = calls THEN calls ELSE CallsFrom(found)
CallsOfProgram == CallsFrom({<<Main, <<>>>>})

Happens ==
    UNION {{<<call[1], access[1], access[2]>> : access \in RunCall(call).Outside} :
                call \in CallsOfProgram}
RunIsDefined ==
    /\ Main \in Defined
    /\ Len(Definition(Main).Parameters) \in {0, 2, 3}
    /\ \A call \in CallsOfProgram : RunCall(call).Defined

Reported ==
    {LET location == Diagnostics[i].Location
         access == FunctionBlocks[location[1]].Actions[location[2]]
     IN <<location[1], access.Array, access.Index.Value>> : i \in DOMAIN Diagnostics}

----------------------------------------------------------------------------
(* The programs that the analysis follows.                                 *)

AssignedIn(statements) ==
    {s.Variable : s \in OfKind({"DeclStmt"}, statements)}
        \cup {s.Expr.Children[1].Name :
                s \in {t \in OfKind({"Expr"}, statements) :
                            /\ t.Expr.Kind = "BinaryOperator"
                            /\ t.Expr.Children[1].Kind = "DeclRefExpr"}}

\* A variable that an if statement or a switch tests is not assigned inside.
TestsStayTrue(body) ==
    \A s \in OfKind({"IfStmt", "SwitchStmt"}, StatementsIn(body)) :
        Reads(s.Cond) \cap AssignedIn(UNION {StatementsIn(part) : part \in ToSet(Parts(s))}) = {}

\* Expressions that the parsers are meant for.
IsParsed(s) ==
    CASE s.Kind = "DeclStmt" -> s.Initialiser.Kind \in {"StringLiteral", "NoInitialiser"}
      [] s.Kind = "Expr" ->
            CASE s.Expr.Kind = "BinaryOperator" -> IsArithmetic(s.Expr.Children[2])
              [] s.Expr.Kind = "ArraySubscriptExpr" ->
                    s.Expr.Children[2].Kind = "IntegerLiteral" /\ IsPlainLiteral(s.Expr.Children[2])
              [] OTHER -> \A i \in 2 .. Len(s.Expr.Children) : IsPlainLiteral(s.Expr.Children[i])
      [] s.Kind = "IfStmt" -> IsSimpleCondition(s.Cond)
      [] s.Kind = "SwitchStmt" -> IsVariable(s.Cond)
      [] s.Kind = "CaseStmt" -> IsPlainLiteral(s.Value)
      [] OTHER -> TRUE

IsUnderstood ==
    \A i \in DOMAIN program :
        /\ \A s \in StatementsIn(program[i].Body) : IsParsed(s)
        /\ IsFollowedExactly(unit[i].Body)

\* No prototype comes after a definition.
IsDeclaredFirst ==
    \A i, j \in DOMAIN program :
        i < j /\ program[i].Name = program[j].Name => ~program[i].IsDefinition

----------------------------------------------------------------------------
(* Properties.                                                             *)

\* What clang is told of is what happens: in a program whose expressions the
\* parsers are meant for, and whose tests stay true while what they guard runs,
\* exactly the accesses that are outside of their arrays are reported, through
\* assignments, branches, switches and calls.
ReportsWhatHappens ==
    IsHandled /\ IsUnderstood /\ IsDeclaredFirst
        /\ (\A i \in DOMAIN program : TestsStayTrue(program[i].Body)) /\ RunIsDefined
    => Reported = Happens

\* The same of programs whose tests do not stay true: the order of the actions is
\* kept "in order to be able to do symbolic execution correctly".
ReportsOnlyWhatHappens ==
    IsHandled /\ IsUnderstood /\ IsDeclaredFirst /\ RunIsDefined => Reported \subseteq Happens
=============================================================================
