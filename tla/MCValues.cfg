\* One function, three variables, four-bit integers.
CONSTANTS
    Vars = {"n", "p", "s"}
    Half = 8
    FunctionNames = {"main"}
    Main = "main"
    ArgumentLists <- MCArgumentLists
SPECIFICATION MCSpec
INVARIANTS
    TypeOK
    ResolvingEnds
    BranchesExclusive
PROPERTIES
    ReportsExactly
