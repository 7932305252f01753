CONSTANTS
    Users = {u1, u2}
    QueueCap = 2
    MaxUsage = 2
    MaxEdits = 2
    MaxFails = 1
    MaxRefused = 1
    MaxCrashes = 1
    MaxEvents = 3
    Second = u2
SPECIFICATION MCSpec
INVARIANTS FileSound
PROPERTIES DiskNeverGoesBack CountersEventuallySaved
CHECK_DEADLOCK FALSE
