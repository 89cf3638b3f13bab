SPECIFICATION TwinsSpec
CONSTANTS
    Mean <- MCMean
    StdDev <- MCStdDev
    VibrationStd = 1
    Coupling = 1
    WarmUp <- MCWarmUp
    Lsl = 9
    Usl = 11
    MinCycle = 1
    MaxSamples = 9
    Schedules <- MCSchedules
    Added <- MCAdded
    Stream <- MCStream
    MaxResets = 1
INVARIANTS
    TwinsTypeOK
    TruthIsExplained
    ReadingsAreExplained
    ResetReplays
CHECK_DEADLOCK FALSE
