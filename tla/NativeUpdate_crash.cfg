SPECIFICATION Spec
CONSTANTS
    e1 = e1
    e2 = e2
    r1 = r1
    r2 = r2
    Exec = {e1, e2}
    Root = {r1, r2}
    Nobody = Nobody
    Gone = Gone
    Torn = Torn
    Fence <- Fences
    MaxGrant = 2
    MaxEvents = 2
INVARIANTS EffectOnce ReceiptMeansEffect
PROPERTIES KeepsGuard ControlEndsCommits CommittedIsReceipted
CHECK_DEADLOCK FALSE
