CONSTANTS
    Threads = {p1, p2}
    Lifetime = 2
    MaxDelay = 1
    MaxTime = 7
    MaxKeys = 6
    Pair = {p1, p2}
    Servers = {p1, p2}
    ClientSize = 2
    ServerSize = 2
    PerServer = 1
    Offsets = {0, 5}
    Modulus = 8
    Milli = 2
    Skew = 2
    Stated = 5
    MaxLifetime = 2
    MaxSessions = 2
    CacheTime = 4
    Conns = {p1, p2}
    Streams = {s1, s2}
    MinConnections = 1
    MaxConnections = 1
    MaxStreams = 1
    Burst = 1
    QueueSize = 1
    DataSize = 2
    MaxLeases = 2
    MaxFrames = 3
SPECIFICATION AllSpec
SYMMETRY Symmetry
INVARIANTS ProfilesSeparate StreamsSound TicketKeysSound SessionsSpentOnce
PROPERTIES GrantsKept
CHECK_DEADLOCK FALSE
