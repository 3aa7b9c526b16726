SPECIFICATION FairSpec
CONSTANTS
  a = a  b = b  r1 = r1  r2 = r2  m1 = m1  m2 = m2
  Callers = {a, b}
  Requests = {r1, r2}
  Commands = {m1, m2}
  MaxPending = 2
  MaxBatch = 2
  MaxFaults = 1
  MaxBegins = 3
INVARIANTS TypeOK AcknowledgedOnce PublishedInOrder
PROPERTIES ImplementsLog Answered
CHECK_DEADLOCK FALSE
