SPECIFICATION LiveSpec
CONSTANTS
    Sids = {s1, s2}
    Accounts = {a1, a2}
    LobbyIds = {l1}
    MatchIds = {}
    Nonces = {n1, n2}
    Hashes = {h1}
    MaxConnections = 2
    MaxLobbies = 1
    None = None
    Conn = c1
    Home = home
    Callers = {u1}
INVARIANT RendezvousOwned
PROPERTIES
    JoinResolved
    UnreachableClosed
    TasksEnd
    NothingHangs
