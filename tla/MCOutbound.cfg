CONSTANTS
    Modes = {"multiplexed", "packetaddr", "standard"}
    Ids = {"i1", "i2"}
    Dests = {"d1", "d2"}
    Socks = {"s1", "s2"}
    ChannelSize = 1
    IdleLimit = 1
    CleanupEvery = 0
    MaxTime = 2
    MaxDatagrams = 2
    Calls = {"c1", "c2"}
    Requests <- Dials
    MaxEntries = 1
    MinTtl = 1
    MaxTtl = 2
    NegativeTtl = 1
    Ttls = {0, 2}
    Sizes = {0, 2}
    MaxDialTime = 2
    DownAfter = 3
    OpenAfter = 5
SPECIFICATION AllSpec
INVARIANTS NamesLeftToProxy LookupsShared SessionsSound
PROPERTIES CallsEnd SessionsEndInTime WarpFollowsProbes
CHECK_DEADLOCK FALSE
