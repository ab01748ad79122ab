SPECIFICATION Spec
CONSTANTS
    Callers = {c1, c2}
    Senders = {s1, s2}
    Configs <- MCConfigs
    MaxRuntimes = 2
    MaxBox = 4
    MaxQueue = 1
    MaxArrived = 2
    None = None
INVARIANTS
    PeerKnownFirst
    UsesLiveRuntime
    PacketsOfRuntime
    TokenOfPeer
PROPERTIES
    StopEnds
