SPECIFICATION FairSpec
CONSTANTS
    k1 = k1
    j1 = j1
    j2 = j2
    Request = {k1, j1, j2}
    KeyOn <- MCKeyOn
    Provider = {p1, p2}
    Agent = {"agent"}
    AgentOf <- MCAgentOf
    Cost <- MCCost
    GlobalCap = 1
    AgentCap <- MCAgentCap
    Settlement <- MCSettlement
    Day = {1, 2}
    Tx = {t1, t2}
    MaxCalls = 3
INVARIANT KeysHonoured
PROPERTY ImplementsBudget
PROPERTY AdmissionWithinCap
PROPERTY CircuitHonoured
PROPERTY TransactionsEnd
CHECK_DEADLOCK FALSE
