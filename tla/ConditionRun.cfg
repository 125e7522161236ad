SPECIFICATION PlanSpec
CONSTANTS
    NumPhases = 1
    Resources = {}
    TaskKinds <- Kinds
    AutoSettings = {TRUE}
    MaxNodes = 3
    MaxUserEdges = 4
    Workers = 2
    NonCancellable = {3}
    MaxDecisions = 3
    MaxDrift = 1
INVARIANTS
    BranchRunsOnlyIfChosen
    ChosenBranchRuns
CHECK_DEADLOCK FALSE
