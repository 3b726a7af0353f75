CONSTANTS
    r1 = r1
    r2 = r2
    r3 = r3
    i1 = i1
    i2 = i2
    Results <- MCResults
    Images <- MCImages
    Outcomes <- MCOutcomes
    CacheTTL = 1
    MaxTime = 3
    Nothing = Nothing
SYMMETRY Permutations3
SPECIFICATION ResultSpec
INVARIANTS
    ResultInv
    ServedIsFresh
    ServedIsCounted
CHECK_DEADLOCK FALSE
