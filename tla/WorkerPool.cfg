CONSTANTS
    Requests = {r1, r2}
    Consumers = {w1}
    Stoppers = {s1, s2}
    Capacity = 1
    NoRequest = NoRequest
    NoStopper = NoStopper
SPECIFICATION FairPoolSpec
INVARIANTS
    PoolInv
    OneLateScan
PROPERTIES
    AcceptedIsScanned
    WorkersGoHome
    StopReturns
CHECK_DEADLOCK FALSE
