CONSTANTS
    Clients = {c1, c2}
    Datagrams <- MCDatagrams
    Ids <- MCIds
    FramesOf <- MCFramesOf
    Queries = {1, 2}
    Relays = {r1}
    MaxMessages = 1
    MaxSends = 2
    None = None
SPECIFICATION MCSpec
INVARIANTS RequestQueriesAnswered FramesKept
PROPERTIES PromisesKept
CHECK_DEADLOCK FALSE
