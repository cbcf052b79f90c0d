\* A case of either suite on fourteen systems.
CONSTANTS
    SMACPP_PATH = "build/src/smacpp"
    WithPlus = {}
    ParentPath <- MCParentPath
    Systems <- MCSystems
    Reports <- MCReports
SPECIFICATION Spec
INVARIANTS CombinedIsJoint ComparesLikeRuns UnlaunchedFindsNothing LoadsPluginFirst
\* The script ends.
CHECK_DEADLOCK FALSE
