CONSTANTS
    d1 = d1
    d2 = d2
    d3 = d3
    sha = sha
    latest = latest
    NoDigest = NoDigest
    Never = Never
    Calls <- MCCalls
    RequestOf <- SameRequest
    TTL = 2
    MaxTime = 5
SPECIFICATION DedupSpec
SYMMETRY CallSymmetry
INVARIANTS
    DedupInv
    AdmittedApart
    CacheIsTrimmed
CHECK_DEADLOCK FALSE
