SPECIFICATION Spec
CONSTANTS
    p1 = p1  p2 = p2
    c1 = c1  c2 = c2  c3 = c3  c4 = c4
    oA = oA  oB = oB  dA = dA  dB = dB
    NoCall = NoCall
    Selection = Selection
    Proc <- MCProc
    Op <- MCOp
    Call <- RetryCall
    CallOp <- RetryOp
    CallProc <- RetryProc
    CallDigest <- RetryDigest
    PlanId = {plan}
    ModelHold = 2
    ModelLimit = 3
    RuntimeLimit = 3
    MaxRequests = 1
INVARIANTS WithinLimits SpentIsCharged DispatchedOnce AnswersAgree
PROPERTIES HoldsOnlySettle KeepsAccount
