SPECIFICATION PipelineSpec
CONSTANTS
    Size = 2
    Warmup = 0
    SkipInitial = TRUE
    Reading <- MCReading
    MaxUpdates = 40
    QueueSize = 2
    MaxQueue = 6
    Effects = {"none", "varying"}
    EarlySubscribe = FALSE
    MaxSamples = 4
INVARIANT
    OneRecordPerPart
CHECK_DEADLOCK FALSE
