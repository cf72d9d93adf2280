SPECIFICATION LiveSpec
CONSTANTS
    IPs = {a1}
    Groups = {n1}
    GroupsOf <- MCGroupsOf
    PTR <- AllNamed
    Ingesters = {i1}
    Gens = {g1}
    None = None
    WithNetworks = TRUE
    ClearBlocked = FALSE
    BlockTTL = 1
    Retention = 1
    BlockCap = 1
    SignalCap = 1
    MaxLookups = 1
PROPERTIES OrderLeadsToBlock RecheckUnblocks SendersProgress
