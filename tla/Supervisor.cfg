\* A user session with retries, stops and exact cancellations.
CONSTANTS
  c1 = c1  c2 = c2
  Callers = {c1, c2}  Kinds = {"submit", "continue", "pause", "resume", "stop", "attempt"}
  Capacity = 3  Agent = "no"  Scanning = "yes"
  MaxExecutions = 3  MaxGen = 2  MaxOps = 4  MaxCrashes = 1  MaxPanics = 1
SPECIFICATION Spec
INVARIANTS TypeOK RunningOwned RegistryExact
PROPERTIES StopRetains CancelsWhatItSaw
SYMMETRY Symmetry
CHECK_DEADLOCK FALSE
