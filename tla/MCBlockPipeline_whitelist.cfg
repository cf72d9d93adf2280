SPECIFICATION StaticSpec
CONSTANTS
    IPs = {a1}
    Groups = {n1}
    GroupsOf <- MCGroupsOf
    PTR <- AllNamed
    Ingesters = {i1}
    Gens = {g1, g2}
    None = None
    WithNetworks = TRUE
    ClearBlocked = FALSE
    BlockTTL = 2
    Retention = 1
    BlockCap = 1
    SignalCap = 1
    MaxLookups = 1
ACTION_CONSTRAINT ByRules
INVARIANTS AddrWhitelistRespected HostWhitelistRespected
SYMMETRY MCSymmetry
