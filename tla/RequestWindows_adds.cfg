SPECIFICATION FairSpec
CONSTANTS
    Adders = {p1, p2}
    Agents = {a1}
    WindowSize = 1
    NumWindows = 1
    KeepRequests = 1
    MaxDelay = 1
    MaxTime = 3
    MaxObjects = 1
    MaxRequests = 2
INVARIANTS TypeOK KindsWithinAll
PROPERTIES LiveBucketsStay AddReturns
