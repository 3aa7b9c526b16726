\* A subagent whose first run has a time limit, with a client that continues,
\* stops and submits: nobody waits forever.
CONSTANTS
  c1 = c1  c2 = c2
  Callers = {c1, c2}  Kinds = {"submit", "continue", "stop", "resume"}
  Capacity = 2  Agent = "yes"  Scanning = "yes"
  MaxExecutions = 2  MaxGen = 2  MaxOps = 2  MaxCrashes = 1  MaxPanics = 0
SPECIFICATION FairSpec
PROPERTIES QueueServed Drains
CHECK_DEADLOCK FALSE
