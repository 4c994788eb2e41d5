SPECIFICATION Spec
CONSTANTS
    Drainer = {d1, d2}
    MaxAttempts = 2
    MaxRuns = 1
    MaxTrouble = 1
    LateCalls = {}
    SlowProducer = FALSE
INVARIANT DispatchCovered
CHECK_DEADLOCK FALSE
