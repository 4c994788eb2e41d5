SPECIFICATION Spec
CONSTANTS
    a1 = a1
    a2 = a2
    w1 = w1
    Worker = {w1}
    Agent = {a1}
    AgentOf <- AllForOne
    Steps = 2
    Models = 1
    MaxAttempts = 2
    MaxRuns = 9
    MaxOps = 2
    Requests = {"status"}
    MaxFaults = 0
    MaxTrouble = 2
INVARIANT PaidPerDecision
CHECK_DEADLOCK FALSE
