CONSTANTS
    coordinator = coordinator
    Requests = {r1}
    Consumers = {w1, w2}
    Capacity = 1
    NoRequest = NoRequest
    Stoppers = {coordinator}
    NoStopper = NoStopper
SPECIFICATION FairCoordinatedSpec
INVARIANTS
    QueueClosesBehindItsUsers
    CleanupIsLast
PROPERTIES
    ShutdownEnds
CHECK_DEADLOCK FALSE
