SPECIFICATION FairSpec
CONSTANTS
    p1 = p1  p2 = p2
    c1 = c1  c2 = c2  c3 = c3  c4 = c4
    oA = oA  oB = oB  dA = dA  dB = dB
    NoCall = NoCall
    Selection = Selection
    Proc <- MCProc
    Op <- MCOp
    Call <- JoinCall
    CallOp <- JoinOp
    CallProc <- JoinProc
    CallDigest <- JoinDigest
    PlanId = {plan}
    ModelHold = 1
    ModelLimit = 2
    RuntimeLimit = 3
    MaxRequests = 1
PROPERTY CallsEnd
