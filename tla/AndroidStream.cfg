CONSTANTS
    MaxSession = 1
    MaxPush = 2
    MaxSends = 2
    None = None
SPECIFICATION Spec
INVARIANTS ClosedOnce EveryStreamClosed
PROPERTIES RelayEnds
CHECK_DEADLOCK FALSE
