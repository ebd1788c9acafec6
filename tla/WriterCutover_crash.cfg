SPECIFICATION Spec
CONSTANTS
    p1 = p1
    p2 = p2
    Proc = {p1, p2}
    Nobody = Nobody
    Gone = Gone
    Stop = Stop
    EventLimit = 4
    MaxHead = 5
    Sound <- SoundCutoffs
    Value <- TwoValues
    MaxCalls = 1
    MaxFaults = 2
INVARIANTS NothingLost Diagnosable
PROPERTIES HandsOver FenceIsFollowed
CHECK_DEADLOCK FALSE
