CONSTANTS
    Conns = {c1}
    Second = c1
    MaxRead = 1
    CommitAt = 2
    Initials <- UnlimitedOnly
    Grants = {1}
    MaxGrants = 0
    MaxBytes = 2
SPECIFICATION Spec
INVARIANT UnlimitedNeverCut
