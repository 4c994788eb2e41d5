SPECIFICATION FairSpec
CONSTANTS
    Drainer = {d1}
    MaxAttempts = 2
    MaxRuns = 2
    MaxTrouble = 3
    LateCalls = {"reserve", "recover", "fallback", "exact"}
    SlowProducer = TRUE
INVARIANT OneDispatch
INVARIANT DispatchCovered
INVARIANT ExactPreserved
INVARIANT PromptReleasedUndispatched
PROPERTY Accounted
CHECK_DEADLOCK FALSE
