SPECIFICATION Spec
CONSTANTS
    d1 = d1  d2 = d2
    Digest = {d1, d2}
    MaxBoot = 3
SYMMETRY Alike
INVARIANT VerdictIsFinal
PROPERTIES RejectedNeverActs
CHECK_DEADLOCK FALSE
