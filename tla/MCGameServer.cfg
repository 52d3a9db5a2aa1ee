SPECIFICATION FairSpec
CONSTANTS
    Peers = {p1, p2}
    Contracts = {solo, coop}
    CoopContracts = {coop}
    Slots = {s1}
    MaxClients = 2
    MaxRejections = 2
    None = None
INVARIANTS
    SeatTablesAgree
    
    KeysOfOwners
    ReplayOfEndedMatch
PROPERTIES
    NothingMovesUnattended
    
    LobbyReturns
