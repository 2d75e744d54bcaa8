CONSTANTS
    Urls = {u1, u2}
    Texts = {a, b}
    Ids = {d1, d2, d3, d4}
    Requests = {r1, r2, r3, r4}
    Loaded = Loaded
    NoDoc = NoDoc
    NoRow = NoRow
SPECIFICATION Spec
SYMMETRY Alike
INVARIANTS
    TypeOK
    MemoryMatchesTable
    LatestIsSearchable
    HitsAreGenuine
    VersionNamesOneText
