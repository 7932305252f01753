CONSTANTS
    Conns = {c1, c2}
    Second = c2
    MaxRead = 2
    CommitAt = 2
    Initials <- MCInitials
    Grants = {2}
    MaxGrants = 1
    MaxBytes = 3
SPECIFICATION MCSpec
INVARIANTS TotalsSound CountingLossBounded
PROPERTIES ImplementsLedger DrainEnds
