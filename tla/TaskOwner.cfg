SPECIFICATION FairSpecFromA1
CONSTANTS
    a1 = a1
    a2 = a2
    w1 = w1
    Worker = {w1, w2}
    Agent = {a1, a2}
    AgentOf <- OneForEach
    Steps = 2
    Models = 1
    MaxAttempts = 3
    MaxRuns = 9
    MaxOps = 2
    Requests = {"retry", "edit", "assign", "redo"}
    MaxFaults = 0
    MaxTrouble = 2
INVARIANT PaidPerDecision
INVARIANT NoStrandedReserve
INVARIANT SequentialExposure
PROPERTY Settles
CHECK_DEADLOCK FALSE
