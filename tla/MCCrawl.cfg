SPECIFICATION CrawlSpec
CONSTANTS
    Crawlers = {c1, c2}
    Paths = {"page", "private"}
    PageAsked = "page"
    RobotsFiles <- mcRobotsFiles
    MaxSlots = 2
    DefaultDelay = 1
    RobotsTtl = 2
    OptOutWindow = 1
    MaxRedirects = 2
    MaxGets = 2
    MaxCancels = 1
    MaxSiteChanges = 1
    LastInstant = 3
INVARIANTS
    OnlyAllowedPages
CHECK_DEADLOCK FALSE
