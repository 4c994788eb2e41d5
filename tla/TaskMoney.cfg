SPECIFICATION Spec
CONSTANTS
    a1 = a1
    a2 = a2
    w1 = w1
    Worker = {w1, w2}
    Agent = {a1}
    AgentOf <- AllForOne
    Steps = 1
    Models = 2
    MaxAttempts = 2
    MaxRuns = 9
    MaxOps = 2
    Requests = {"status", "retry", "edit"}
    MaxFaults = 2
    MaxTrouble = 2
SYMMETRY Alike
INVARIANT OneWirePerJob
INVARIANT TerminalRetainsNothing
PROPERTY UnknownIsFinal
PROPERTY ImplementsMeteredCalls
CHECK_DEADLOCK FALSE
