CONSTANTS
    Clients = {c1}
    StreamIds = {i1}
    Streams = {s1, s2}
    FDs = {n1, n2}
    MaxStreams = 2
    None = None
    IdReuse = TRUE
    SlowOpen = FALSE
    FdRace = FALSE
SPECIFICATION Spec
SYMMETRY Symmetry
INVARIANTS NoTerminate
CHECK_DEADLOCK FALSE
