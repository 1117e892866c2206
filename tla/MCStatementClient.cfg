SPECIFICATION LiveSpec
CONSTANTS
    Total = 4
    MaxEmpty = 3
    Null = Null
    Uses = {"tableau", "menu"}
    MaxFailures = 3
INVARIANTS
    NeverRefused
PROPERTIES
    ImplementsRowStream
    EndIsReached
CHECK_DEADLOCK FALSE
