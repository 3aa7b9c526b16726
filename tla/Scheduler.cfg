\* A one-shot job, two processes, crashes, stalls, edits and a clock set back.
CONSTANTS
  once = once  cron = cron  s1 = s1  s2 = s2  e1 = e1  p1 = p1  p2 = p2
  Jobs = {once}  OnceJobs = {once}  Slots = {s1, s2}
  Process <- OneProcessPerSlot  Session <- OneSession
  Expressions = {e1}  FireTimes <- EveryInstant
  MaxTime = 1  Grace = 0
  Prompts = {p1, p2}  Policies = {"run_once_now"}  AttemptLimits = {2}  Ages = {1}
  MaxTries = 2  MaxLosses = 2  MaxEdits = 2  MaxSetBacks = 1
SYMMETRY SlotSymmetry
CONSTRAINT OnePromptOrOneLoss
SPECIFICATION Spec
INVARIANTS NeverStranded OccurrenceDeliveredOnce SettledOnce OneDeliveryAtATime
CHECK_DEADLOCK FALSE
