SPECIFICATION OperatorsSpec
CONSTANTS
    t1 = t1
    t2 = t2
    i1 = i1
    i2 = i2
    x1 = x1
    x2 = x2
    o1 = o1
    o2 = o2
    NoTask = NoTask
    Tasks = {t1}
    Internal = {i1}
    External = {x1}
    Operators = {o1}
    Agents = {"any"}
    Priorities = {0}
    AttemptLimits = {2}
    DefaultMaxAttempts = 2
    ClaimRecoverLimit = 1
    OperatorRequests <- MCRequests
    MaxOperatorCalls = 2
    MaxDbErrors = 0
    MaxRestarts = 0
INVARIANTS
    ApprovedBeforeRun
    AttemptsBounded
    LeaseExclusive
    RunningIsLeased
PROPERTIES
    TerminalIsFinal
CHECK_DEADLOCK FALSE
