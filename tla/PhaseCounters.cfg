SPECIFICATION Spec
CONSTANTS
    w1 = w1
    w2 = w2
    Workers <- TwoWorkers
    MaxTasks = 3
    MaxDispatches = 3
    Modulus = 4
SYMMETRY Interchangeable
INVARIANTS
    InFlightExact
    EndsFollowBegins
    QuiescentBalance
PROPERTIES
    BeginOffsetsAdvance
CHECK_DEADLOCK FALSE
