SPECIFICATION Spec
CONSTANTS
    Sigma = 2
    Values <- MCValues
    Span <- MCSpan
    Needed <- MCNeeded
    MaxRuleWindow = 4
    Chosen = {1, 2, 3, 4, 5, 6, 7, 8}
    MaxPoints = 6
INVARIANTS
    StreamingIsBatch
    FlatLineIsReported
    NoPreferredSide
