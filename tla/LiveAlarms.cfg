SPECIFICATION LiveSpec
CONSTANTS
    Key <- MCKey
    ClearAfter = 1
    MaxIndex = 3
    MaxClicks = 2
INVARIANTS
    LiveTypeOK
    EntriesStand
    SnapshotCatchesUp
    ExactWithoutOverlap
PROPERTIES
    PositionsKept
    WholeCalls
    ThreadsFinish
CHECK_DEADLOCK FALSE
