SPECIFICATION FrameSpec
CONSTANTS
    NumPhases = 2
    Resources = {}
    TaskKinds <- Kinds
    AutoSettings = {TRUE}
    MaxNodes = 3
    MaxUserEdges = 1
    Workers = 2
    NonCancellable = {}
    MaxDecisions = 2
    MaxDrift = 1
INVARIANTS
    BranchRunsOnlyIfChosen
CHECK_DEADLOCK FALSE
