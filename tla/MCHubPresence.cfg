SPECIFICATION Spec
CONSTANTS
    Sids = {s1, s2}
    Accounts = {a1, a2}
    LobbyIds = {l1}
    MatchIds = {m1}
    Nonces = {n1, n2}
    Hashes = {h1}
    MaxConnections = 2
    MaxLobbies = 1
    None = None
SYMMETRY Symmetry
INVARIANT
    PresenceNamesLobby
