SPECIFICATION SearchSpec
CONSTANTS
    SearchDocs = {1, 2}
    SearchTexts <- mcTexts
    SearchTenants = {q1}
    Wanted = {2}
    Thresholds = {0, 1}
    SearchTtl = 1
    MaxTexts = 2
    MaxWarm = 2
    LastSecond = 1
INVARIANT
    ThresholdHonoured
