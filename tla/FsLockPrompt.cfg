SPECIFICATION Spec
CONSTANTS
    Process = {p1, p2, p3, p4}
    MaxCrashes = 2
    MayStall = FALSE
SYMMETRY Symmetry
INVARIANT OnlyMisfireBreaksExclusion
CHECK_DEADLOCK FALSE
