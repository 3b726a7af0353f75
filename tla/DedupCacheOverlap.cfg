CONSTANTS
    d1 = d1
    d2 = d2
    d3 = d3
    sha = sha
    latest = latest
    NoDigest = NoDigest
    Never = Never
    Calls <- TwoCalls
    RequestOf <- SameRequest
    TTL = 2
    MaxTime = 3
SPECIFICATION DedupSpec
INVARIANT OneScanPerWindow
CHECK_DEADLOCK FALSE
