SPECIFICATION Spec
CONSTANTS
    Event <- Transitions
    Overlap = 1
    Lookback = 3
    Page = 2
    Batch = 2
    MemoryLimit = 2
    MaxNow = 2
    MaxFaults = 0
    Scan = {s1}
    MaxScan = 2
    MaxEpisode = 1
    MaxFlips = 1
PROPERTIES EventuallyTold
CHECK_DEADLOCK FALSE
