SPECIFICATION FairSpec
CONSTANTS
    a1 = a1
    IPs = {a1, a2, a3}
    Workers = {w1, w2}
    Tries = 2
    PTR <- MCMixed
    PendingCap = 2
    OutCap = 1
INVARIANTS TypeOK OneLookup OwnNameOrAddress
PROPERTIES LookupsEnd ImplementsLookupService
\* Nothing is left to do when every address has its name.
CHECK_DEADLOCK FALSE
