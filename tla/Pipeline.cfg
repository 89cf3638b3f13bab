SPECIFICATION PipelineSpec
CONSTANTS
    Size = 2
    Warmup = 1
    SkipInitial = TRUE
    Reading <- MCReading
    MaxUpdates = 20
    QueueSize = 2
    MaxQueue = 3
    Effects = {"none"}
    EarlySubscribe = FALSE
    MaxSamples = 4
INVARIANTS
    PipelineTypeOK
    RecordedInOrder
    EveryPartAccountedFor
    MissedPartsCountTheOpening
    ShownIsCurrent
PROPERTY
    ComesToRest
CHECK_DEADLOCK FALSE
