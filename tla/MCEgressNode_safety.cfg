CONSTANTS
    Clients = {c1}
    StreamIds = {i1, i2}
    Streams = {s1, s2}
    FDs = {n1, n2}
    MaxStreams = 2
    None = None
    IdReuse = FALSE
    SlowOpen = FALSE
    FdRace = TRUE
SPECIFICATION Spec
SYMMETRY Symmetry
INVARIANTS TypeOK CountExact NoTerminate NoFdLeak CloseNotifiedOnce AckPrecedesClose OnlyDetachingOutlive
CHECK_DEADLOCK FALSE
