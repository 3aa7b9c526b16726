\* A one-shot and a cron job of one session, two slots of one process: misfires,
\* a lost process and an edit; every fire is recovered and settles.
CONSTANTS
  once = once  cron = cron  s1 = s1  s2 = s2  e1 = e1  p1 = p1  p2 = p2
  Jobs = {once, cron}  OnceJobs = {once}  Slots = {s1, s2}
  Process <- OneProcess  Session <- OneSession
  Expressions = {e1}  FireTimes <- EveryInstant
  MaxTime = 2  Grace = 0
  Prompts = {p1}  Policies = {"skip", "reschedule"}  AttemptLimits = {2}  Ages = {2}
  MaxTries = 1  MaxLosses = 1  MaxEdits = 1  MaxSetBacks = 0
CONSTRAINT Instances
SPECIFICATION FairSpec
INVARIANT HistoryAdvances
PROPERTIES Settles
CHECK_DEADLOCK FALSE
