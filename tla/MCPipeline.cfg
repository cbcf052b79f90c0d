\* Programs of up to three statements in main, and one of two functions f.
CONSTANTS
    MaxNesting = 3
    MaxNodes = 5
    Vars = {"x", "y", "p", "s", "n"}
    Half = 8
    FunctionNames = {"main", "f", "g"}
    Main = "main"
    ArgumentLists <- MCArgumentLists
    Programs <- MCPrograms
    Units <- MCUnits
    Statements <- MCStatements
SPECIFICATION ReferenceSpec
INVARIANT ReportsWhatHappens
PROPERTY Handles
