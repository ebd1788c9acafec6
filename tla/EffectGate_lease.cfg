SPECIFICATION FairSpec
CONSTANTS
    r1 = r1  r2 = r2  r3 = r3  r4 = r4  r5 = r5
    gA = gA  gB = gB  gC = gC  kA = kA  kB = kB
    NoGrant = NoGrant
    Req <- ThreeReqs
    Key <- OneKey
    Grant <- OneGrant
    GrantOf <- LeaseReq
    KeyOf <- LeaseKey
    KindOf <- LeaseKind
    Owned = TRUE
    MaxAttempts = 1
    MaxCrashes = 1
    MaxFaults = 0
    MaxChanges = 1
INVARIANTS OnePostPerKey ExecutingIsDriven ReadsBounded
PROPERTIES PostUnderAuthority CallsEnd RevokedNeverActs
CHECK_DEADLOCK FALSE
