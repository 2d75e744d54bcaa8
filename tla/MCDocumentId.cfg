CONSTANTS
    Urls = {u1}
    Texts = {a, b}
    Ids = {d1, d2, d3}
    Requests = {r1, r2, r3}
    Loaded = Loaded
    NoDoc = NoDoc
    NoRow = NoRow
SPECIFICATION Spec
SYMMETRY Alike
PROPERTY
    DocumentIdNeverChanges
