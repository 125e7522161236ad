SPECIFICATION Spec
CONSTANTS
    f1 = f1
    f2 = f2
    p1 = p1
    i1 = i1
    i2 = i2
    w1 = w1
    w2 = w2
    None = None
    Frames <- TwoFrames
    Plans <- OnePlan
    Instances <- TwoSlots
    Workers <- TwoWorkers
    MaxTokens = 2
    MaxHooks = 2
    Tasks = 2
    MaxDispatches = 2
SYMMETRY Interchangeable
INVARIANTS
    WorkerReportExact
    TaskReportExact
    RunSeesItsToken
    EndOncePerRun
    NoCollectorDangles
PROPERTIES
    CanceledRunStaysCanceled
CHECK_DEADLOCK FALSE
