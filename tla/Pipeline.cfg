SPECIFICATION Spec
CONSTANTS
    TokenCount = 4
    StageCount = 3
    SerialStages <- SerialParallelSerial
    LineCount = 3
    MaxDispatches = 2
INVARIANTS
    CalledIsPrefix
    OldTokensComplete
    AllStagesCalled
    StopTakesHold
PROPERTIES
    PipelineEnds
CHECK_DEADLOCK FALSE
