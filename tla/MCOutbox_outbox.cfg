SPECIFICATION OutboxSpec
CONSTANTS
    e1 = e1
    e2 = e2
    f1 = f1
    w1 = w1
    w2 = w2
    NoEvent = NoEvent
    Events = {e1, e2}
    Targets = {"mongo_raw"}
    Files = {f1}
    FileOf <- OneFile
    LowValue = {}
    RawOutcomes = {TRUE, FALSE}
    BankWorkers = 1
    Workers = {w1, w2}
    Serves <- RawServed
    BatchSize = 2
    BulkSize = 2
    MaxAttempts = 2
    CoalesceTargets = {"letta", "mindsdb", "qdrant"}
    CoalesceStale = {"letta"}
    StaleTargets = {}
    LettaThreshold = 2
    FailOpen = TRUE
    Limits <- BackfillAndError
INVARIANT RawDurable
SYMMETRY MCSymmetry
CHECK_DEADLOCK FALSE
