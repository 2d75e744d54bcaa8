CONSTANTS
    p1 = p1
    p2 = p2
    Keys = {k1, k2}
    Processes = {p1}
    Requests = {q1, q2}
    ProcOf <- MCProcOf
    Rotations = {o1}
    Skew <- MCSkew
    TTL = 1
    MaxFetch = 1
    MaxEntries = 1
    Graces = {1}
    Expiries <- MCNeverExpires
    MaxTime = 3
    Never = Never
    NoRow = NoRow
    NoEntry = NoEntry
SPECIFICATION SpecR
SYMMETRY Alike
PROPERTY
    InstantInSameProcess
