SPECIFICATION Spec
CONSTANTS
    t1 = t1
    t2 = t2
    i1 = i1
    i2 = i2
    x1 = x1
    x2 = x2
    o1 = o1
    o2 = o2
    NoTask = NoTask
    Tasks = {t1, t2}
    Internal = {i1}
    External = {x1}
    Operators = {}
    Agents = {"any", "internal"}
    Priorities = {0, 1}
    AttemptLimits = {0}
    DefaultMaxAttempts = 2
    ClaimRecoverLimit = 1
    OperatorRequests <- MCNoRequests
    MaxOperatorCalls = 0
    MaxDbErrors = 1
    MaxRestarts = 0
INVARIANTS
    HandedOutWithinLimit
SYMMETRY MCSymmetry
CHECK_DEADLOCK FALSE
