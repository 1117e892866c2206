SPECIFICATION ClusterSpec
CONSTANTS
    Queries = {"q1", "q2"}
    Drivers = {"d1", "d2", "d3"}
    DriverQuery <- QueryOfDriver
    Tags = {"scan", "join"}
    MOVE_QUERY_TAG = "move"
    GENERAL_POOL = "general"
    RESERVED_POOL = "reserved"
    maxBytes <- BytesOfPool
    Sizes = {0, 1, 2}
    MaxBytesOfQuery = 2
    Null = Null
    NaN = NaN
    Infinity = Infinity
    MinusInfinity = MinusInfinity
    MAX_HISTORY = 2
INVARIANTS
    WaitsOnlyWhenFull
    ReservationsAddUp
    FiguresAreTrue
    ShownCanBeRead
CHECK_DEADLOCK FALSE
