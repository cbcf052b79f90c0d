\* A branch that assigns the variable that was tested.
CONSTANTS
    MaxNesting = 3
    MaxNodes = 5
    Vars = {"x", "y", "p", "s", "n"}
    Half = 8
    FunctionNames = {"main", "f", "g"}
    Main = "main"
    ArgumentLists <- MCArgumentLists
    Programs <- StalePrograms
    Units <- StaleUnits
    Statements <- StaleStatements
SPECIFICATION ReferenceSpec
INVARIANT ReportsOnlyWhatHappens
