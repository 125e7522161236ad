SPECIFICATION PlanSpec
CONSTANTS
    NumPhases = 1
    Resources = {}
    TaskKinds <- Kinds
    AutoSettings = {TRUE}
    MaxNodes = 2
    MaxUserEdges = 3
    Workers = 2
    NonCancellable = {}
    MaxDecisions = 2
    MaxDrift = 1
PROPERTIES
    StopEndsRun
CHECK_DEADLOCK FALSE
