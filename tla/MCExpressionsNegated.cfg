\* if(x) and if(!x).
CONSTANTS
    Vars = {"x", "y"}
    Half = 8
    IntHalf = 2
    MaxNodes = 5
    Environments <- MCEnvironments
SPECIFICATION NegatedSpec
INVARIANT TakenWhenConditionHolds
CHECK_DEADLOCK FALSE
