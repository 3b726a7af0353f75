CONSTANTS
    NoHeader = NoHeader
    MaxRetries = 3
    StatusCodes <- MCStatusCodes
    RetryAfters <- MCRetryAfters
SPECIFICATION ClientSpec
INVARIANT RetriesSendTheBody
CHECK_DEADLOCK FALSE
