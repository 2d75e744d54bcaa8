CONSTANTS
    p1 = p1
    p2 = p2
    k1 = k1
    k2 = k2
    k3 = k3
    o1 = o1
    o2 = o2
    Keys <- mcKeys
    Processes = {p1, p2}
    Requests = {q1, q2}
    ProcOf <- MCProcOf
    Rotations <- mcRotations
    Skew <- MCSkew
    TTL = 1
    MaxFetch = 1
    MaxEntries = 1
    Graces = {1}
    Expiries <- MCExpiries
    MaxTime = 3
    Never = Never
    NoRow = NoRow
    NoEntry = NoEntry
SPECIFICATION MCSpec
SYMMETRY MCAlike
INVARIANTS
    TypeOK
    StaleEntriesExpire
    AcceptedOnlyWhileValid
    RejectedOnlyWhenDue
    RevokedHasOneSuccessor
PROPERTY
    GraceIsFixed
