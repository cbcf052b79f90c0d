----------------------------- MODULE CodeBlock -----------------------------
(***************************************************************************)
(* What the visitors leave of a function for the analyzer: its parameters  *)
(* and its actions, in the order of the source, each with the condition    *)
(* under which it is taken (parse/CodeBlock.h, parse/ProcessedAction.h).   *)
(***************************************************************************)
EXTENDS Condition, Sequences

CONSTANTS
    FunctionNames,  \* names a program can define or call
    ArgumentLists   \* the argument lists its calls pass

FunctionCallActions ==
    [Kind : {"FunctionCall"}, If : Conditions,
     Function : FunctionNames, Params : ArgumentLists]
VarDeclaredActions ==
    [Kind : {"VarDeclared"}, If : Conditions,
     Variable : Vars, State : {Unknown} \cup Buffers]
VarAssignedActions ==
    [Kind : {"VarAssigned"}, If : Conditions, Variable : Vars, State : Expressions]
ArrayIndexAccessActions ==
    [Kind : {"ArrayIndexAccess"}, If : Conditions, Array : Vars, Index : Literals]

ProcessedActions ==
    FunctionCallActions \cup VarDeclaredActions
        \cup VarAssignedActions \cup ArrayIndexAccessActions

CodeBlocks == [Parameters : Seq(Vars), Actions : Seq(ProcessedActions)]

\* A registry maps the names of the functions it holds to their blocks.
IsRegistry(blocks) ==
    \E names \in SUBSET FunctionNames : blocks \in [names -> CodeBlocks]
=============================================================================
