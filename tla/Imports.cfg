SPECIFICATION ContractSpec
CONSTANTS
    Unit = {u1, u2}
    Sweep = {}
    Closer = {}
    Retail = {}
    MaxDay = 0
    MaxClosings = 0
    MaxFaults = 0
    Ordered = {u1, u2}
    Kind = {"prepayment"}
    Worker = {w1, w2}
SYMMETRY Alike
INVARIANTS ContractMatchesUnits
PROPERTIES ObligationOnce BackOnlyFromStaleRead
