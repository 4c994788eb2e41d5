SPECIFICATION Spec
CONSTANTS
    Drainer = {d1}
    MaxAttempts = 2
    MaxRuns = 2
    MaxTrouble = 3
    LateCalls = {}
    SlowProducer = FALSE
INVARIANT ReleasedUndispatched
CHECK_DEADLOCK FALSE
