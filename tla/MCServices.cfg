SPECIFICATION Spec
CONSTANTS
    SessionCallers = {c1, c2}
    SessionTenants = {t1, t2}
    SessionItems = {x}
    RetentionAsked = {0, 1}
    MinRetention = 1
    MaxRetention = 1
    MaxCitations = 1
    MaxDocIds = 1
    MaxSessions = 2
    LastDay = 1
    AuditTenants = {t1, t2}
    TenantTables <- mcTables
    MaxAudit = 2
    MaxDeletions = 2
    MaxLateRows = 1
    LastHour = 1
    Workers = {c1, c2}
    Limit = 2
    Minute = 2
    KeyTtl = 4
    MaxDelay = 1
    LastTick = 6
    SearchDocs = {1, 2}
    SearchTexts <- mcSearchTexts
    SearchTenants = {q1}
    Wanted = {2}
    Thresholds = {0, 1}
    SearchTtl = 0
    MaxTexts = 3
    MaxWarm = 1
    LastSecond = 1
    Sources = {d1, d2}
    MaxTokens = 2
    MaxKeepalives = 1
    IngestDocs = {doc}
    BatchSize = 2
    MaxMessages = 3
    MaxConsumers = 2
    MaxFaults = 1
    BookSources = {source}
    MaxAttempts = 3
    RetrySpacing = 1
    MaxFailures = 6
    LastBeat = 5
    Crawlers = {c1, c2}
    Paths = {"page"}
    PageAsked = "page"
    RobotsFiles <- mcRobotsFiles
    MaxSlots = 2
    DefaultDelay = 1
    RobotsTtl = 1
    OptOutWindow = 1
    MaxRedirects = 1
    MaxGets = 2
    MaxCancels = 1
    MaxSiteChanges = 1
    LastInstant = 3
    Comparisons = {"a", "x", "y", "z"}
    TokenOrder <- mcTokenOrder
    Printed <- mcPrinted
    PrintedWidth <- mcPrintedWidth
    MaxLength = 30
    FilterTexts <- mcFilterTexts
    MaxNesting = 2
    MaxLeaves = 3
    PipelineTenants = {t1, t2}
    StepNames <- mcStepNames
    CandidateSets <- mcCandidates
    MaxSteps = 2
    MaxPipelines = 1
    MaxScore = 4
    MaxAge = 1
    Languages = {"en"}
    Domains = {"d1"}
    Boost = 2
    Weight = 2
    DedupField = "language"
    StreamLength = 3
    Separated = {2, 3}
    MaxComments = 1
    MaxCuts = 2
    Statuses = {200, 201, 204, 401, 500}
    Calls = {c1, c2}
    GatewayTenants = {"g1", "g2"}
    Budget = 2
INVARIANTS
    ServicesTypeOK
    SessionIsolation
    SessionClosedOnce
    PrivilegedAudited
    DeletionAccounted
    RateBounded
    ResultsSound
    AnswerWireSound
    NothingSkipped
    RoutedAfterRetries
    CrawlPolite
    RobotsRespected
    
    PipelineSound
    SdkFaithful
    GatewaySound
SYMMETRY Alike
PROPERTIES
    AuditAppendOnly
