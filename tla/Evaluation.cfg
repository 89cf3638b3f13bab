SPECIFICATION Spec
CONSTANTS
    None = None
    RelativeRange <- MCRelativeRange
    Noise <- MCNoise
    Specs <- MCSpecs
    Cycles = {3, 4}
    Shift = 3
    BaselineSubgroups = 2
    MonitorSubgroups = 3
    SubgroupSize = 4
    CycleTime = 3
    CapabilityWindow = 2
INVARIANTS
    RuleOneIsTheLimits
    TrendIsRolling
    CpkTellsCentring
    ResultIsConsistent
CHECK_DEADLOCK FALSE
