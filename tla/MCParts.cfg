\* The runs of both tools are counted, and when they are used up nothing more
\* happens to the levels; the other parts do not stop.
SPECIFICATION PartsSpec
CONSTANTS
    alien = alien
    pickups = pickups
    explosion = explosion
    directional = directional
    formation = formation
    alien001 = alien001
    bonuses = bonuses
    blast = blast
    unlisted = unlisted
    level1 = level1
    bonus1 = bonus1
    Authors = {w1, w2}
    Concepts = {alien, pickups, explosion}
    Prompts = {p1, p2}
    ShotsOf <- MCShotsOf
    KeysOf <- MCKeysOf
    RetailKeys = {alien001, bonuses, blast}
    Override = Override
    MaxTasks = 2
    MaxRuns = 3
    None = None
    Users = {w1, w2}
    Entries = {level1, bonus1}
    StemOf <- MCStemOf
    Archive <- MCArchive
    Layout <- MCLayout
    SignedSection = "header"
    Signatures = {7}
    RecordSizes = {5}
    MaxNames = 8
    Changes <- MCChanges
    MaxEdits = 1
    MaxStarts = 3
    Missing = Missing
    Torn = Torn
    Refused = Refused
    Accounts = {a1}
    Nodes <- TreeNodes
    Catalogs <- TwoCatalogs
    Deltas <- Granted
    MaxLedger = 4
    MaxPushes = 2
    home = home
    Conns = {w1, w2}
    Addrs = {home}
    AddrOf <- FromHome
    Capacity = 1
    MaxConnections = 2
    MaxPerIp = 2
    Callers = {w1, w2}
    LastDelay = 1
SYMMETRY PartsSymmetry
CHECK_DEADLOCK FALSE
INVARIANTS
    PackAlwaysValid
    MetaNeverAhead
    ArchiveRecoverable
    WrittenMeansLinted
    LedgerExplainsWallet
    PrerequisitesOwned
    ByIpCounts
    SessionHasReader
    OnlineMeansHandshaken
    KickedStaysOff
PROPERTIES
    AllDelivers
    UntouchedIsUnchanged
