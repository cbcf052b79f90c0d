\* Every function of MCBuilder, run with three values of the tested variable.
CONSTANTS
    MaxNesting = 3
    Vars = {"x", "s"}
    Half = 4
    FunctionNames = {"main", "f"}
    ArgumentLists <- MCArgumentLists
    Statements <- MCStatements
    Units <- MCUnits
    Environments <- MCEnvironments
SPECIFICATION Traversal
INVARIANTS
    TraversalTypeOK
    CoversWhatRuns
    TakesWhatRuns
