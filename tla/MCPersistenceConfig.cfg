CONSTANTS
    Users = {u1, u2}
    QueueCap = 1
    MaxUsage = 1
    MaxEdits = 1
    MaxFails = 0
    MaxRefused = 0
    MaxCrashes = 0
    MaxEvents = 3
    Second = u2
SPECIFICATION Spec
INVARIANTS ConfigSaved
CHECK_DEADLOCK FALSE
