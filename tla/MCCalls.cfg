\* Three functions and an undefined one, calls with four kinds of arguments.
CONSTANTS
    Vars = {"n", "s", "e"}
    Half = 4
    FunctionNames = {"main", "f", "g", "undefined"}
    Main = "main"
    ArgumentLists <- MCArgumentLists
SPECIFICATION MCSpec
INVARIANTS
    AnalysedOnce
    NoCallLost
    StartsFresh
    ResultIsComplete
PROPERTIES
    Termination
    ImplementsWorklist
