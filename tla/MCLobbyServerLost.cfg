SPECIFICATION LSSpec
CONSTANTS
    Sids = {s1, s2}
    Accounts = {a1, a2}
    LobbyIds = {l1}
    MatchIds = {m1, m2}
    Nonces = {}
    Hashes = {h1}
    MaxConnections = 2
    MaxLobbies = 1
    None = None
SYMMETRY Symmetry
PROPERTIES
    MatchHandedBack
