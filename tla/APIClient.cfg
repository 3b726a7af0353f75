CONSTANTS
    NoHeader = NoHeader
    MaxRetries = 3
    StatusCodes <- MCStatusCodes
    RetryAfters <- MCRetryAfters
SPECIFICATION FairClientSpec
INVARIANTS
    ClientInv
    RetriesBackOff
PROPERTIES
    CancelledReturns
CHECK_DEADLOCK FALSE
