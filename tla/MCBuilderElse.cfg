\* The else branch of a condition that is not parsed.
CONSTANTS
    MaxNesting = 3
    Vars = {"x", "s"}
    Half = 4
    FunctionNames = {"main", "f"}
    ArgumentLists <- MCArgumentLists
    Statements <- ElseStatements
    Units <- ElseUnits
    Environments <- MCEnvironments
SPECIFICATION Traversal
INVARIANT AllActionsAdded
