\* A stop races the end of the attempt it stops.
CONSTANTS
  c1 = c1  c2 = c2
  Callers = {c1}  Kinds = {"submit", "stop"}
  Capacity = 2  Agent = "no"  Scanning = "yes"
  MaxExecutions = 1  MaxGen = 1  MaxOps = 2  MaxCrashes = 0  MaxPanics = 0
SPECIFICATION Spec
PROPERTIES NoInvisiblePause
CHECK_DEADLOCK FALSE
