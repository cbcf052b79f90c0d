\* Expressions of up to five nodes; int has two bits, long long four.
CONSTANTS
    Vars = {"x", "y"}
    Half = 8
    IntHalf = 2
    MaxNodes = 5
    Environments <- MCEnvironments
SPECIFICATION MCSpec
INVARIANTS
    ResultsAreAccepted
    AssignedAsWritten
    ConditionsAsWritten
CHECK_DEADLOCK FALSE
