SPECIFICATION FairSpec
CONSTANTS
    Nets = {n1, n2}
    ASNs = {a1}
    a1 = a1
    ASNOf <- MCASNOf
    WindowSize = 1
    NumWindows = 1
    RequestLimit = 1
    MaxRatio = 3
    Scale = 6
    BlockTTL = 9
    MaxDelay = 1
    LastArrival = 3
    MaxTime = 5
    MaxRequests = 3
INVARIANTS TypeOK WatchedToTheEnd CountsCurrent OverLimitCovered
PROPERTY Forgotten
