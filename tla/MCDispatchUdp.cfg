CONSTANTS
    Conns = {c1}
    Users = {u1}
    NoUser = NoUser
    Dests <- PlainOnly
    Configs <- NoWarp
    MaxEdits = 1
SPECIFICATION Spec
INVARIANT WarpNeverDirect
CHECK_DEADLOCK FALSE
