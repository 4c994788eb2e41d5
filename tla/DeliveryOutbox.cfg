SPECIFICATION FairSpec
CONSTANTS
    Delivery = {d1, d2}
    Worker = {w1, w2}
    NoDelivery = NoDelivery
    UnknownAfter = 1
    MaxRateLimitRetries = 1
INVARIANT AtMostOnePage
INVARIANT VerdictMatchesProvider
PROPERTY ImplementsAtMostOnce
PROPERTY EventuallySettled
CHECK_DEADLOCK FALSE
