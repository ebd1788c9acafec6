SPECIFICATION Spec
CONSTANTS
    narrow = narrow  wide = wide  rA = rA  rB = rB
    MaxGen = 3
    Source <- TwoSources
    SourceOf <- NarrowWideNarrow
    Request <- BothRequests
    Allows <- AllowsMore
INVARIANTS UseIsApproved RecordFollowsFence
PROPERTIES KeepsForce OutOfUseForever SourceNeverReturns
CHECK_DEADLOCK FALSE
