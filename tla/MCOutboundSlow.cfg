SPECIFICATION SlowSpec
CONSTANTS
    c1 = c1
    c2 = c2
    home = home
    Conns <- TwoConns
    Addrs <- OneHome
    AddrOf <- FromHome
    Capacity = 2
    MaxConnections = 2
    MaxPerIp = 2
INVARIANT SlowIsDisconnected
