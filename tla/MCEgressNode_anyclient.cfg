CONSTANTS
    Clients = {c1}
    StreamIds = {i1, i2}
    Streams = {s1, s2}
    FDs = {n1, n2}
    MaxStreams = 1
    None = None
    IdReuse = TRUE
    SlowOpen = TRUE
    FdRace = TRUE
SPECIFICATION Spec
SYMMETRY Symmetry
INVARIANTS OneCloser RequestsAnswered StreamLimit OwnWhileOpen
CHECK_DEADLOCK FALSE
