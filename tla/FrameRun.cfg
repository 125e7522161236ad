SPECIFICATION FairRunSpec
CONSTANTS
    r1 = r1
    NumPhases = 2
    Resources <- OneResource
    TaskKinds = {}
    AutoSettings = {TRUE}
    MaxNodes = 3
    MaxUserEdges = 1
    Workers = 2
    NonCancellable = {2}
    MaxDispatches = 2
INVARIANTS
    RunTypeOK
    AllDoneWhenComplete
    NoConcurrentConflict
    CancelCut
PROPERTIES
    ScheduleSpec
    
CHECK_DEADLOCK FALSE
