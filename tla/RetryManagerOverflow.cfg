CONSTANTS
    j1 = j1
    j2 = j2
    Jobs <- OneJob
    Errors <- TimeoutOnly
    Capacity = 1
    Workers = 1
    MaxRetries = 14
    InitialBackoff = 8
    MaxBackoff = 20
    Numerator = 2
    Denominator = 1
    Width = 16
SPECIFICATION RetrySpec
INVARIANT CappedAlways
CHECK_DEADLOCK FALSE
