SPECIFICATION Spec
CONSTANTS
    Adders = {p1, p2}
    Agents = {a1}
    WindowSize = 1
    NumWindows = 1
    KeepRequests = 1
    MaxDelay = 0
    MaxTime = 2
    MaxObjects = 1
    MaxRequests = 2
INVARIANT StoredTotalIsCurrent
