CONSTANTS
    Requests = {r1, r2}
    Consumers = {w1}
    Stoppers = {s1, s2}
    Capacity = 1
    NoRequest = NoRequest
    NoStopper = NoStopper
SPECIFICATION PoolSpec
INVARIANT NilStopMeansQuiet
CHECK_DEADLOCK FALSE
