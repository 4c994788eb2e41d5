SPECIFICATION Spec
CONSTANTS
    a1 = a1
    a2 = a2
    w1 = w1
    Worker = {w1}
    Agent = {a1}
    AgentOf <- AllForOne
    Steps = 1
    Models = 1
    MaxAttempts = 1
    MaxRuns = 9
    MaxOps = 2
    Requests = {"assign", "status"}
    MaxFaults = 0
    MaxTrouble = 2
INVARIANT TerminalRetainsNothing
CHECK_DEADLOCK FALSE
