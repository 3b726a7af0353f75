CONSTANTS
    Requests = {r1, r2}
    Consumers = {w1}
    Stoppers = {s1}
    Capacity = 1
    NoRequest = NoRequest
    NoStopper = NoStopper
SPECIFICATION FairPoolSpec
PROPERTY StopDrains
CHECK_DEADLOCK FALSE
