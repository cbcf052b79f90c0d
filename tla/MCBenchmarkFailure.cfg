\* The kind of a combined failure.
CONSTANTS
    SMACPP_PATH = "build/src/smacpp"
    WithPlus = {}
    ParentPath <- MCParentPath
    Systems <- MCSystems
    Reports <- MCReports
SPECIFICATION Spec
INVARIANT CombinedFailureIsNamed
\* The script ends.
CHECK_DEADLOCK FALSE
