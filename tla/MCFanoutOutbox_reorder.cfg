SPECIFICATION Spec
CONSTANTS
    e1 = e1
    e2 = e2
    f1 = f1
    w1 = w1
    w2 = w2
    NoEvent = NoEvent
    Events = {e1, e2}
    Targets = {"qdrant"}
    Files = {f1}
    FileOf <- MCOneFile
    LowValue = {}
    RawOutcomes = {TRUE}
    BankWorkers = 2
    Workers = {w1}
    Serves <- MCServesAll
    BatchSize = 2
    BulkSize = 2
    MaxAttempts = 2
    CoalesceTargets = {"letta", "mindsdb", "qdrant"}
    CoalesceStale = {"letta"}
    StaleTargets = {}
    LettaThreshold = 2
    FailOpen = TRUE
    Limits <- MCNoFaults
INVARIANT NoSilentLoss
CHECK_DEADLOCK FALSE
