SPECIFICATION Spec
CONSTANTS
  Task = {t1, t2}
  NoTask = NoTask
  Dead = Dead
  MaxRetry = 0
  FormStatus = {"draft"}
  RunsOutliveLock = TRUE
  MaxEdits = 0
  MaxFaults = 0
  MaxCrashes = 0
INVARIANTS OneRunAtATime
CHECK_DEADLOCK FALSE
