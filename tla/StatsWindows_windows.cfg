SPECIFICATION FairSpec
CONSTANTS
    Decisions = {blocked, human}
    NumWindows = 1
    Expirers = {e1, e2}
    MaxDelay = 2
    MaxTime = 3
    MaxRequests = 5
INVARIANTS TypeOK TotalsAreSums
PROPERTIES LiveItemsGrow WindowsEnd
\* The clock and the requests end.
CHECK_DEADLOCK FALSE
