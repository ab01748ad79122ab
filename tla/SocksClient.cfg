SPECIFICATION ReadingSpec
CONSTANTS
    Workers = {w1}
    MaxSends = 2
    None = None
    MaxInFlight = 2
INVARIANTS
    TypeOK
    InOrder
    NoStreamLeftBehind
PROPERTIES
    CompleteBeforeClose
    CloseIsLast
    StopReturns
    RelayEnds
CHECK_DEADLOCK FALSE
