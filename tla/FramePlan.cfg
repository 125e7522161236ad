SPECIFICATION Spec
CONSTANTS
    r1 = r1
    NumPhases = 3
    Resources <- OneResource
    TaskKinds <- OnlyTasks
    AutoSettings = {FALSE}
    MaxNodes = 3
    MaxUserEdges = 1
    Costs = {0, 1}
INVARIANTS
    TypeOK
    ConflictOrdered
    NoSpuriousEdge
    PhaseOrdered
    BarrierJoinsPhase
    NoAutomaticCycle
    CriticalPathIsPath
    CriticalPathIsLongest
CHECK_DEADLOCK FALSE
