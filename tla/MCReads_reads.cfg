SPECIFICATION ReadSpec
CONSTANTS
    Calls = {"a", "b"}
    Retries = 2
    MaxRestarts = 2
    Files = {"f", "F"}
    KeyOf <- SameKey
    Readers = {"r1", "r2"}
    Indexes = {"f"}
    StaleMax = 1
    ReadTimeout = 1
    RefreshTimeout = 1
    MaxCachedFiles = 1
    MaxInflight = 2
    MaxReadTime = 3
    MaxWrites = 2
    MaxReads = 3
    Clients = {"c1"}
    Warmer = "warmer"
    Queries = {"q1"}
    Variants <- TwoVariants
    Match <- MatchAll
    Modes = {"fast", "balanced"}
    Overrides = {{}, {"letta"}}
    FastSources = {"qdrant"}
    SlowSources = {"letta"}
    Swallowing = {"letta"}
    Lag <- NoLag
    Docs = {"d"}
    Strong = {"d"}
    InitHeld <- LettaHolds
    Limit = 1
    WarmLimit = 1
    MinResults = 1
    MinDiversity = 1
    EscalateMin = 1
    MaxSteps = 2
    MinRequests = 2
    Cooldown = 1
    TTL = 1
    MaxKeys = 1
    StatsTTL = 2
    StatsMaxKeys = 1
    Timeout = 1
    MaxTime = 1
    MaxCalls = 2
    MaxIndexed = 0
    MaxReboots = 0
INVARIANTS SessionFailureNeedsRestart ExecutedAtLeastOnce ServedAge ErrorsAreWarned
PROPERTIES CallsEnd RefreshesEnd SearchesEnd
CHECK_DEADLOCK FALSE
