SPECIFICATION ClientSpec
CONSTANTS
    Conns = {c1, c2}
    Nodes = {n1}
    CapBase = 1
    CapMax = 2
    MaxPeak = 3
    MaxTasks = 2
    MaxAttempts = 3
    MaxEntries = 1
    Nowhere = Nowhere
    First = c1
    Cases <- MCCases
    Registered = {n1, n2}
    Steady = {n2}
    Openings = {r1, r2}
    MaxNodeAttempts = 3
    MaxFailures = 3
    UnreachThreshold = 3
INVARIANTS
    StreamKept
    Answered
    SteadyStaysOnline
    FailuresOfThisOutage
PROPERTIES
    Settles
    Recovers
    DeadLeave
CHECK_DEADLOCK FALSE
