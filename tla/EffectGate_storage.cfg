SPECIFICATION Spec
CONSTANTS
    r1 = r1  r2 = r2  r3 = r3  r4 = r4  r5 = r5
    gA = gA  gB = gB  gC = gC  kA = kA  kB = kB
    NoGrant = NoGrant
    Req <- FiveReqs
    Key <- TwoKeys
    Grant <- ThreeGrants
    GrantOf <- MixedReq
    KeyOf <- MixedKey
    KindOf <- MixedKind
    Owned = TRUE
    MaxAttempts = 2
    MaxCrashes = 1
    MaxFaults = 2
    MaxChanges = 0
INVARIANTS PostIsReserved NoUndurableReceipt ReceiptMeansEffect StoreLoads
PROPERTIES PassIsDurable KeepsDispatch
SYMMETRY Approved
CHECK_DEADLOCK FALSE
