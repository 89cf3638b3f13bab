SPECIFICATION Spec
CONSTANTS
    Key <- MCKey
    Turn <- MCTurn
    ClearAfter = 2
    Sizes = {4, 5}
    Baseline = 2
    Window = 2
    HasSpecLimits = TRUE
    MaxIndex = 4
    MaxFailures = 2
INVARIANTS
    EngineTypeOK
    LimitsFromBaseline
    TrendRowsLineUp
PROPERTIES
    DrivesTheLog
CHECK_DEADLOCK FALSE
