SPECIFICATION Spec
CONSTANTS
    f1 = f1
    h1 = h1
    c1 = c1
    c2 = c2
    w1 = w1
    NoContent = NoContent
    MaxRequests = 3
    Files = {f1, h1}
    Hot = {h1}
    Contents = {c1, c2}
    RollupEnabled = TRUE
    Async = TRUE
    QueueMax = 1
    Workers = {w1}
    MaxCrashes = 0
INVARIANT AcknowledgedIsEnqueued
CHECK_DEADLOCK FALSE
