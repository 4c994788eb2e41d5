SPECIFICATION FairSpec
CONSTANTS
    a1 = a1
    a2 = a2
    w1 = w1
    Worker = {w1}
    Agent = {a1}
    AgentOf <- AllForOne
    Steps = 1
    Models = 1
    MaxAttempts = 1
    MaxRuns = 9
    MaxOps = 1
    Requests = {"status"}
    MaxFaults = 0
    MaxTrouble = 1
PROPERTY Settles
CHECK_DEADLOCK FALSE
