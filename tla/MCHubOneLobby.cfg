SPECIFICATION Spec
CONSTANTS
    Sids = {s1, s2}
    Accounts = {a1, a2}
    LobbyIds = {l1, l2}
    MatchIds = {m1}
    Nonces = {}
    Hashes = {h1}
    MaxConnections = 2
    MaxLobbies = 2
    None = None
SYMMETRY Symmetry
INVARIANT
    InOneLobby
