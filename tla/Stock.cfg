SPECIFICATION Spec
CONSTANTS
    Unit = {u1}
    Sweep = {s1, s2}
    Closer = {c1, c2}
    Retail = {u1}
    MaxDay = 2
    MaxClosings = 2
    MaxFaults = 2
INVARIANTS CommissionPerClosing
PROPERTIES NeverBackwards HoldRespected LapsedReserveFrees
