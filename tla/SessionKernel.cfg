SPECIFICATION Spec
CONSTANTS
    s1 = s1
    s2 = s2
    t1 = t1
  
    i1 = i1
    a1 = a1
    NoSession = NoSession
    NoTool = NoTool
    Sessions = {s1, s2}
    Tools = {t1}
    Asks = {i1}
    Activities = {a1}
    QueueLimit = 2
    MaxExecutions = 2
    MaxGeneration = 2
    MaxEpoch = 2
CONSTRAINT Instances
INVARIANT CountersExact
INVARIANT OneRunner
INVARIANT NothingLeftBehind
INVARIANT SummaryExact
PROPERTY AttemptHistory
CHECK_DEADLOCK FALSE
