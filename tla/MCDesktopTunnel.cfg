SPECIFICATION Spec
CONSTANTS
    Ports = {1080, 10801, 9050}
    DefaultPort = 1080
    UserProxies = {u1, u2}
    Lookalikes = {u2}
    None = None
    MaxLives = 3
    MaxStarts = 2
    MaxPackets = 1
CHECK_DEADLOCK FALSE
INVARIANTS
    ProxyHasListener
    RestoredUnlessLost
    PacketsOfThisSession
    BridgeReleased
CONSTRAINT AddressKnown
