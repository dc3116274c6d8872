SPECIFICATION WritesSpec
CONSTANTS
    f1 = f1
    h1 = h1
    c1 = c1
    c2 = c2
    w1 = w1
    NoContent = NoContent
    MaxRequests = 2
    Files = {f1, h1}
    Hot = {h1}
    Contents = {c1, c2}
    RollupEnabled = TRUE
    Async = FALSE
    QueueMax = 1
    Workers = {w1}
    MaxCrashes = 1
INVARIANTS OkIsStored RollupFresh CountsNeverInflated RollupsNest
PROPERTIES RequestsAnswered RollupsCatchUp KeepsContract
CHECK_DEADLOCK FALSE
