SPECIFICATION Spec
CONSTANTS
    p1 = p1
    p2 = p2
    Proc = {p1, p2}
    Nobody = Nobody
    Gone = Gone
    Stop = Stop
    EventLimit = 3
    MaxHead = 4
    Sound <- SoundCutoffs
    Value <- TwoValues
    MaxCalls = 1
    MaxFaults = 0
PROPERTY RecoveryCompletes
CHECK_DEADLOCK FALSE
