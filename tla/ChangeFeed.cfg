SPECIFICATION Spec
CONSTANTS
    s1 = s1
    s2 = s2
    c1 = c1
    c2 = c2
    All = All
    Sessions = {s1, s2}
    Clients = {c1, c2}
    ScopeOf <- MCScopeOf
    Capacity = 2
    ChannelCapacity = 2
    MaxBatch = 2
    MaxCommits = 4
    MaxEpoch = 2
CONSTRAINT Instances
INVARIANT NoSilentGap
PROPERTY CursorMovesForward
CHECK_DEADLOCK FALSE
