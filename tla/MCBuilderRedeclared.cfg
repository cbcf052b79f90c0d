\* A function declared again after its definition.
CONSTANTS
    MaxNesting = 3
    Vars = {"x", "s"}
    Half = 4
    FunctionNames = {"main", "f"}
    ArgumentLists <- MCArgumentLists
    Statements <- RedeclaredStatements
    Units <- RedeclaredUnits
    Environments <- MCEnvironments
SPECIFICATION Traversal
PROPERTY BlocksComeFromDefinitions
