CONSTANTS
    Tasks = {t1, t2}
    Addrs = {a1, a2}
    Passwords = {p1, p2}
    PerAddr = 1
    Global = 2
    MaxSecrets = 3
    MaxOrphans = 1
    MaxRestarts = 1
SPECIFICATION Spec
SYMMETRY Symmetry
INVARIANTS LimiterExact CredentialsCurrent
