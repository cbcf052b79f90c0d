------------------------------ MODULE Frontend ------------------------------
(***************************************************************************)
(* The syntax tree of a translation unit, and what the visitors see of it: *)
(* the statements of module Builder, in the order in which clang's         *)
(* RecursiveASTVisitor hands them over, with what the parsers make of      *)
(* their expressions (parse/CodeBlockBuildingVisitor.cpp).                 *)
(***************************************************************************)
EXTENDS ExpressionParsers

----------------------------------------------------------------------------
(* Declarations. The literal of a string initialiser has Length bytes, and *)
(* the array that it initialises Size: one more for the terminator, or     *)
(* what its type says.                                                     *)

StringLiteral(length, size) ==
    [Kind |-> "StringLiteral", Length |-> length, Size |-> size, Children |-> <<>>]
NoInitialiser == Node("NoInitialiser", <<>>)

\* The terminator of a string is not counted, and no other initialiser has a
\* value.
DeclaredState(initialiser) ==
    IF initialiser.Kind = "StringLiteral" THEN Buffer(initialiser.Length) ELSE Unknown

----------------------------------------------------------------------------
(* The parts of an expression that the visitors have a handler for.        *)

HandleAssignment(e, at) ==
    LET target == VariableRef(e.Children[1]) IN
    IF target = NotParsed THEN <<>>
    ELSE <<[Kind |-> "Assign", At |-> at, Variable |-> target.Source,
            State |-> Assigned(e.Children[2])]>>

\* Only an index that is itself a literal has a value.
HandleSubscript(e, at) ==
    LET array == VariableRef(e.Children[1])
        index == e.Children[2]
    IN
    IF array = NotParsed THEN <<>>
    ELSE <<[Kind |-> "ArraySubscriptExpr", At |-> at, Array |-> array.Source,
            Index |-> IF index.Kind = "IntegerLiteral" THEN Primitive(SignExtended(index))
                                                       ELSE Unknown]>>

\* The callee of a call through a pointer is a variable.
HandleCall(e, at) ==
    LET callee == e.Children[1]
        arguments == Tail(e.Children)
    IN
    <<[Kind |-> "CallExpr", At |-> at, IsDirect |-> ~IsVariable(callee),
       Function |-> callee.Name,
       Params |-> [i \in DOMAIN arguments |-> Argument(arguments[i])]]>>

HandleNode(e, at) ==
    CASE e.Kind = "BinaryOperator" /\ e.Opcode = "=" -> HandleAssignment(e, at)
      [] e.Kind = "ArraySubscriptExpr" -> HandleSubscript(e, at)
      [] e.Kind = "CallExpr" -> HandleCall(e, at)
      [] OTHER -> <<>>

\* From the root down. The handler of a call does not go on to its arguments.
RECURSIVE HandleNodes(_, _)
HandleNodes(trees, at) ==
    IF trees = <<>> THEN <<>>
    ELSE LET e == Head(trees)
             children == IF e.Kind = "CallExpr" THEN <<>> ELSE e.Children
         IN HandleNode(e, at) \o HandleNodes(children \o Tail(trees), at)
HandleExpression(e, at) == HandleNodes(<<e>>, at)

----------------------------------------------------------------------------
(* Statements.                                                             *)

\* The condition of an if statement and the subject of a switch are parsed, and
\* not visited for what is in them; that of a loop, and what a return returns,
\* are visited.
RECURSIVE Handed(_)
HandStatement(s) ==
    CASE s.Kind = "DeclStmt" ->
            <<[Kind |-> "VarDecl", At |-> s.At, Variable |-> s.Variable,
               State |-> DeclaredState(s.Initialiser)]>>
            \o HandleExpression(s.Initialiser, s.At)
      [] s.Kind = "Expr" -> HandleExpression(s.Expr, s.At)
      [] s.Kind = "IfStmt" ->
            <<[Kind |-> "IfStmt", At |-> s.At, Condition |-> ParsedCondition(s.Cond),
               Then |-> Handed(s.Then), Else |-> Handed(s.Else)]>>
      [] s.Kind = "SwitchStmt" ->
            <<[Kind |-> "SwitchStmt", At |-> s.At, Subject |-> SwitchSubject(s.Cond),
               Body |-> Handed(s.Body)]>>
      [] s.Kind = "CaseStmt" ->
            <<[Kind |-> "CaseStmt", At |-> s.At, Value |-> Argument(s.Value)]>>
      [] s.Kind = "WhileStmt" ->
            HandleExpression(s.Cond, s.At)
            \o <<[Kind |-> "WhileStmt", At |-> s.At, Body |-> Handed(s.Body)]>>
      [] s.Kind = "ReturnStmt" ->
            <<[Kind |-> "ReturnStmt", At |-> s.At]>> \o HandleExpression(s.Expr, s.At)
      [] OTHER -> <<s>>

Handed(statements) ==
    IF statements = <<>> THEN <<>>
    ELSE HandStatement(Head(statements)) \o Handed(Tail(statements))

HandedUnit(declarations) ==
    [i \in DOMAIN declarations |-> [declarations[i] EXCEPT !.Body = Handed(@)]]
=============================================================================
