SPECIFICATION WithinTypeSpec
CONSTANTS
    w1 = w1
    w2 = w2
    Workers <- TwoWorkers
    IndexRange = 16
    WideRange = 16
    MaxBound = 7
    MaxSigned = 4
    StepValues = {0, 1, 2, 3}
    BatchSizes = {1, 2, 3, 4}
SYMMETRY Interchangeable
INVARIANTS
    EachIndexOnce
    AllIndicesCalled
    BatchesCutCleanly
    StopTakesHold
CHECK_DEADLOCK FALSE
