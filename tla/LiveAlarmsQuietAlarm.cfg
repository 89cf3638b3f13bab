SPECIFICATION LiveSpec
CONSTANTS
    Key <- MCKey
    ClearAfter = 1
    MaxIndex = 3
    MaxClicks = 1
INVARIANT
    QuietAlarmsClear
CHECK_DEADLOCK FALSE
