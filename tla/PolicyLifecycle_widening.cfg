SPECIFICATION Spec
CONSTANTS
    narrow = narrow  wide = wide  rA = rA  rB = rB
    MaxGen = 3
    Source <- TwoSources
    SourceOf <- NarrowWideNarrow
    Request <- BothRequests
    Allows <- AllowsMore
PROPERTY WideningApproved
CHECK_DEADLOCK FALSE
