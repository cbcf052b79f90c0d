\* A condition that is not parsed inside of one that is.
CONSTANTS
    MaxNesting = 3
    Vars = {"x", "s"}
    Half = 4
    FunctionNames = {"main", "f"}
    ArgumentLists <- MCArgumentLists
    Statements <- UnparsedStatements
    Units <- UnparsedUnits
    Environments <- MCEnvironments
SPECIFICATION Traversal
INVARIANT TakenOnlyWhereReached
