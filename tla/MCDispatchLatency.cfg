CONSTANTS
    Conns = {c1}
    Users = {u1}
    NoUser = NoUser
    Dests <- RuleOnly
    Configs <- NoWarp
    MaxEdits = 1
SPECIFICATION Spec
INVARIANT LowLatencyNeverWarp
CHECK_DEADLOCK FALSE
