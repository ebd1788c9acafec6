SPECIFICATION RecoverySpec
CONSTANTS
    o1 = o1  o2 = o2
    s1 = s1  s2 = s2
    OpKey = {o1, o2}
    Pair = {s1, s2}
    PairOf <- Pairs
    MaxEpoch = 2
    RecordLimit = 2
    FenceLimit = 3
    NoOp = NoOp
    MaxAttempts = 2
    Limit = 1
    MaxTime = 1
    MaxReads = 3
INVARIANT ControlWindowNeverEnds
PROPERTIES PromiseKept SpentStaysSpent RevokedReadsNoMore
CHECK_DEADLOCK FALSE
