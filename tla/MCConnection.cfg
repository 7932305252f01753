CONSTANTS
    Conns = {c1, c2}
    Users = {u1, u2}
    NoUser = NoUser
    Dests <- MCDests
    Configs <- MCConfigs
    MaxEdits = 2
SPECIFICATION AllSpec
INVARIANTS KickedExactly WarpTcpFailsClosed Agreement Authenticated CompatibleEndsConnect DataInOrder
PROPERTIES KickEnds HandshakesEnd DataArrives
CHECK_DEADLOCK FALSE
