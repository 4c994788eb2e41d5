SPECIFICATION ContractSpec
CONSTANTS
    Unit = {u1}
    Sweep = {}
    Closer = {}
    Retail = {}
    MaxDay = 0
    MaxClosings = 0
    MaxFaults = 0
    Ordered = {u1}
    Kind = {"prepayment"}
    Worker = {w1, w2}
PROPERTIES LifecycleForward
