SPECIFICATION SinksSpec
CONSTANTS
    e1 = e1
    e2 = e2
    f1 = f1
    w1 = w1
    w2 = w2
    NoEvent = NoEvent
    Events = {e1, e2}
    Targets = {"letta", "mindsdb", "qdrant"}
    Files = {f1}
    FileOf <- OneFile
    LowValue = {}
    RawOutcomes = {TRUE}
    BankWorkers = 1
    Workers = {w1, w2}
    Serves <- NoneServed
    BatchSize = 2
    BulkSize = 2
    MaxAttempts = 2
    CoalesceTargets = {"letta", "mindsdb", "qdrant"}
    CoalesceStale = {"letta"}
    StaleTargets = {}
    LettaThreshold = 2
    FailOpen = TRUE
    Limits <- CrashAndDeletion
    Rows = {1, 2, 3}
    SummaryTtl = 1
    SoftLimit = 2
    PruneTrigger = 2
    PruneLimit = 1
    MaxBacklogWrites = 3
    MaxBacklogFaults = 1
    MaxClaims = 1
    Pushers = {"p1", "p2", "p3"}
    LastTable = 2
    MaxMindsFaults = 4
    Positions = {1, 2, 3}
    ScanLimit = 2
    MaxDeletes = 2
    DeleteBatch = 1
    MaxInserts = 3
INVARIANTS NoSilentLoss ClaimExclusive AttemptsBounded RowsVisible
PROPERTIES SucceededIsFinal HighValueKept BacklogPruned PushesSettle RowsSettle OnlyDueDeleted DueRowsGo
CHECK_DEADLOCK FALSE
