SPECIFICATION Spec
CONSTANTS
    Unit = {u1}
    Sweep = {s1, s2}
    Closer = {}
    Retail = {u1}
    MaxDay = 1
    MaxClosings = 0
    MaxFaults = 0
PROPERTY FreedOnlyUnheld
