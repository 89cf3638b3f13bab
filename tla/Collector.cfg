SPECIFICATION CollectorSpec
CONSTANTS
    Size = 3
    Warmup = 1
    SkipInitial = TRUE
    Reading <- MCReading
    MaxUpdates = 9
INVARIANTS
    SubgroupsAreRuns
    EveryPartPlacedOnce
    NoSubgroupBridgesAStop
