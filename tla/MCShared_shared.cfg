SPECIFICATION SharedSpec
CONSTANTS
    e1 = e1
    e2 = e2
    a1 = a1
    a2 = a2
    NoEvent = NoEvent
    Events = {e1, e2}
    Enqueuers = {a1, a2}
    Workers = {"w"}
    BatchSize = 2
    MaxAttempts = 2
    Configured = "mongo"
    Fallback = TRUE
    AutoPromote = TRUE
    MaxFaults = 3
    MaxEnqueues = 3
    Clients = {"c1"}
    Warmer = "warmer"
    Queries = {"q1"}
    Variants <- OneVariant
    Match <- MatchAll
    Modes = {"deep"}
    Overrides = {{}}
    FastSources = {"qdrant"}
    SlowSources = {"letta"}
    Swallowing = {"letta"}
    Lag <- LettaLags
    Docs = {"d"}
    Strong = {"d"}
    InitHeld <- NothingHeld
    Limit = 1
    WarmLimit = 1
    MinResults = 1
    MinDiversity = 1
    EscalateMin = 1
    MaxSteps = 2
    MinRequests = 2
    Cooldown = 2
    TTL = 2
    MaxKeys = 1
    StatsTTL = 2
    StatsMaxKeys = 1
    Timeout = 1
    MaxTime = 6
    MaxCalls = 3
    MaxIndexed = 1
    MaxReboots = 1
    LettaQueries = {"a", "b"}
    Searchers = {"s1", "s2"}
    Warmers = {"w1", "w2"}
    LettaTtl = 1
    LettaMaxKeys = 1
    SearchTimeout = 1
    MarkSecs = 2
    MaxWarms = 1
    MaxLettaTime = 5
    MaxSearches = 3
    Callers = {"c1", "c2"}
    MaxAgents = 3
    MaxDrifts = 2
    MaxAgentFaults = 2
    MaxForeign = 1
INVARIANTS SucceededWasPushed FreshOrExplained LettaRowsAge WarmsBounded OneAgent SecondPostRepaired
PROPERTIES AnsweredIsRecorded
SYMMETRY MCSymmetry
CHECK_DEADLOCK FALSE
