CONSTANTS
    Conns = {c1, c2, c3, c4}
    h1 = h1
    h1v6 = h1v6
    h2 = h2
    h3 = h3
    Addrs <- MCAddrs
    HostOf <- MCHostOf
    Permits = 3
    PerHost = 2
    MapCapacity = 2
    NoAddr = NoAddr
    SocksAddrs = {"a1", "a2"}
    Handlers = {"h1", "h2"}
    IdSpace = 3
    QueueSize = 1
    IdleLimit = 0
    MaxTime = 1
    MaxIssued = 4
    Peers = {"p1", "p2"}
    Trusted = {"p2"}
    Clients = {"c1"}
    Window = 2
    Limit = 2
    PruneAbove = 1
    LagWindow = 2
    MonitorWindow = 3
    StaleAge = 5
    Size <- MCSize
    BufSize = 3
    MinLen = 0
    MaxLen = 2
SPECIFICATION AllSpec
INVARIANTS CountsExact SealedOnly ParsersAgree BytesConserved AssociationsSound LimitHolds SnapshotsRecent RouteFollowsPolicy RelayedAndCounted
PROPERTIES DoorReopens HandlersGoOn
CHECK_DEADLOCK FALSE
