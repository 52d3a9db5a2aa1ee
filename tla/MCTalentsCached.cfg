SPECIFICATION TalentsSpec
CONSTANTS
    Accounts = {a1}
    Nodes <- TreeNodes
    Catalogs <- OneCatalog
    Deltas <- Earned
    MaxLedger = 2
    MaxPushes = 1
INVARIANT CachedIsCurrent
