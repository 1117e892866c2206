SPECIFICATION PageSpec
CONSTANTS
    Null = Null
    Delays = {1, 20}
    MaxSilence = 21
INVARIANTS
    PagesAreTrue
    OutageIsAnnounced
PROPERTIES
    ImplementsRefreshLoop
    PagesAreStable
    PagesCatchUp
CHECK_DEADLOCK FALSE
