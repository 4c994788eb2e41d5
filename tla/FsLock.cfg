SPECIFICATION FairSpec
CONSTANTS
    Process = {p1, p2, p3}
    MaxCrashes = 2
    MayStall = TRUE
INVARIANT OnlyMisfireBreaksExclusion
INVARIANT HolderIsOwner
PROPERTY DeadOwnerEvicted
CHECK_DEADLOCK FALSE
