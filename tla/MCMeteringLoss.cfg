CONSTANTS
    e1 = e1
    e2 = e2
    e3 = e3
    e4 = e4
    r1 = r1
    r2 = r2
    r3 = r3
    Emissions <- MCEmissions
    Requests <- MCRequests
    RequestOf <- MCRequestOf
    Malformed = {}
    Flushers = {f1}
    MaxSize = 2
    DegradedNum = 1
    DegradedDen = 2
    NoEvent = NoEvent
SPECIFICATION Spec
INVARIANT OnlyOldestDropped
