SPECIFICATION Spec
CONSTANTS
    Key <- MCKey
    ClearAfter = 2
    MaxIndex = 6
INVARIANTS
    StandsWhileFiring
    OccurrencesCount
PROPERTIES
    ImplementsConditions
