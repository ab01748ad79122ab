CONSTANTS
    Clients = {c1}
    StreamIds = {i1, i2}
    Streams = {s1, s2}
    FDs = {n1}
    MaxStreams = 1
    None = None
    IdReuse = FALSE
    SlowOpen = FALSE
    FdRace = TRUE
SPECIFICATION FairSpec
CHECK_DEADLOCK FALSE
CONSTRAINT FirstComesFirst
ACTION_CONSTRAINT GraceLasts
INVARIANTS JoinWakes
PROPERTIES IdleEventuallyClosed RequestReturns StopReturns
