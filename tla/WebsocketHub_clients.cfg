SPECIFICATION FairSpec
CONSTANTS
    Ingesters = {i1}
    Clients = {c1, c2}
    QueueCap = 1
    MaxExpired = 1
INVARIANTS TypeOK WaitersAreKnown
PROPERTIES SendersProgress ListArrives HubStops
\* When the process ends, the senders wait forever.
CHECK_DEADLOCK FALSE
