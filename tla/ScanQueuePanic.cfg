CONSTANTS
    r1 = r1
    r2 = r2
    r3 = r3
    c1 = c1
    c2 = c2
    Requests <- MCRequests
    Consumers <- MCConsumers
    Capacity = 2
    NoRequest = NoRequest
SPECIFICATION QueueSpec
INVARIANT EnqueueReturns
