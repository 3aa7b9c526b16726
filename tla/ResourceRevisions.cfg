\* The clock with a memory of one key, a client, a subscriber and two changes of
\* any kind; the lists with three sessions in two workspaces.
SPECIFICATION ReadsSpec
CONSTANTS
  Keys = {k1, k2}
  Derived = {k2}
  Clients = {c1}
  Capacity = 1
  Jumps = {1}
  Skew = 0
  MaxRevision = 4
  MaxChanges = 2
  MaxLags = 1
  Workspaces = {1, 2}
  MaxSessions = 3
  MaxExecutions = 2
  Marks = {"pinned", "favorite"}
INVARIANTS NotModifiedExact ToldFresh
PROPERTIES ResetInvalidates ListsKeyed CountsExact TotalsKeyed
CHECK_DEADLOCK FALSE
