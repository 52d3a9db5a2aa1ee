SPECIFICATION CrowdSpec
CONSTANTS
    Sids = {s1, s2, s3}
    Accounts = {a1, a2, a3}
    LobbyIds = {l1}
    MatchIds = {m1, m2}
    Nonces = {}
    Hashes = {h1}
    MaxConnections = 3
    MaxLobbies = 1
    None = None
SYMMETRY Symmetry
INVARIANTS
    AccountBinding
    LobbyMembersLive
    PendingAnswerable
    OneOfferPerLobby
    NoSilentDrop
    MatchesAreHosts
