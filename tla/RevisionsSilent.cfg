\* A workspace command by JSON-RPC between two reads of one client.
SPECIFICATION ReadsSpec
CONSTANTS
  Keys = {k1}
  Derived = {}
  Clients = {c1}
  Capacity = 1
  Jumps = {1}
  Skew = 0
  MaxRevision = 2
  MaxChanges = 1
  MaxLags = 0
  Workspaces = {1}
  MaxSessions = 1
  MaxExecutions = 0
  Marks = {}
INVARIANT NotModifiedAnswered
CHECK_DEADLOCK FALSE
