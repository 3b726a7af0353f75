CONSTANTS
    j1 = j1
    j2 = j2
    Jobs <- MCJobs
    Errors <- MCErrors
    Capacity = 1
    Workers = 1
    MaxRetries = 3
    InitialBackoff = 7
    MaxBackoff = 12
    Numerator = 3
    Denominator = 2
    Width = 16
SPECIFICATION FairRetrySpec
INVARIANTS
    RetryInv
PROPERTIES
    BackoffGrows
    JobsSettle
CHECK_DEADLOCK FALSE
