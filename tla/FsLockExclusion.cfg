SPECIFICATION Spec
CONSTANTS
    Process = {p1, p2, p3}
    MaxCrashes = 1
    MayStall = FALSE
SYMMETRY Symmetry
INVARIANT MutualExclusion
CHECK_DEADLOCK FALSE
