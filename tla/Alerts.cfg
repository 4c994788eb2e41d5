SPECIFICATION Spec
CONSTANTS
    Event <- Transitions
    Overlap = 1
    Lookback = 1
    Page = 2
    Batch = 2
    MemoryLimit = 2
    MaxNow = 2
    MaxFaults = 1
    Scan = {s1, s2}
    MaxScan = 1
    MaxEpisode = 2
    MaxFlips = 2
INVARIANTS NewestEventIsTrue DeliveredAsTold
PROPERTIES ToldInOrder EventuallyTold
CHECK_DEADLOCK FALSE
