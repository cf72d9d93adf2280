SPECIFICATION Spec
CONSTANTS
    IPs = {a1}
    Groups = {n1}
    GroupsOf <- MCGroupsOf
    PTR <- AllNamed
    Ingesters = {i1}
    Gens = {g1}
    None = None
    WithNetworks = FALSE
    ClearBlocked = FALSE
    BlockTTL = 2
    Retention = 1
    BlockCap = 1
    SignalCap = 1
    MaxLookups = 1
INVARIANTS TypeOK LookupBeforeBlock
PROPERTIES BlockLasts ImplementsBlockList
SYMMETRY MCSymmetry
