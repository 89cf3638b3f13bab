SPECIFICATION Spec
CONSTANTS
    s1 = s1
    s2 = s2
    NoSource = NoSource
    Source <- MCSource
    Served <- MCServed
    MaxRuns = 2
    MaxCalls = 4
INVARIANTS
    LiveSourceTypeOK
    EndsDisconnected
    FailuresAreRecorded
    StartedRunsOn
    OneRunOnScreen
PROPERTIES
    StoppedSourcesEnd
CHECK_DEADLOCK FALSE
