CONSTANTS
    Tasks = {t1, t2}
    Addrs = {a1}
    Passwords = {p1, p2}
    PerAddr = 1
    Global = 1
    MaxSecrets = 2
    MaxOrphans = 0
    MaxRestarts = 0
SPECIFICATION Spec
INVARIANT ResetEndsSessions
