SPECIFICATION Spec
CONSTANTS
    Nets = {n1}
    ASNs = {a1}
    a1 = a1
    ASNOf <- MCASNOf
    WindowSize = 1
    NumWindows = 1
    RequestLimit = 1
    MaxRatio = 3
    Scale = 6
    BlockTTL = 2
    MaxDelay = 1
    LastArrival = 3
    MaxTime = 5
    MaxRequests = 3
PROPERTY RemovedIsExpired
