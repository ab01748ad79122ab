SPECIFICATION FairSpec
CONSTANTS
    Workers = {w1}
    MaxSends = 1
    None = None
    MaxInFlight = 1
PROPERTIES
    StopReturns
CHECK_DEADLOCK FALSE
