SPECIFICATION LiveSpec
CONSTANTS
    s1 = s1
    Sources <- OneSource
    MaxSplits = 2
    MaxRestarts = 1
    Scenarios <- MCScenarios
INVARIANTS
    SplitsStartOnce
    FinishedIsComplete
    UpdateIsUnderWay
PROPERTIES
    TaskEnds
    LostTaskIsNoticed
CHECK_DEADLOCK FALSE
