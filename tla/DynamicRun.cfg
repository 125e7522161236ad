SPECIFICATION Spec
CONSTANTS
    w1 = w1
    w2 = w2
    Workers <- TwoWorkers
    NonCancellable <- TaskAndChild
    MaxNodes = 2
    MaxChildren = 2
    MaxDispatches = 1
INVARIANTS
    CanceledStaysCanceled
    UtilizationBounded
PROPERTIES
    ScheduleSpec
    ReportsNest
    RunCompletes
CHECK_DEADLOCK FALSE
