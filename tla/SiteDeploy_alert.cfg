SPECIFICATION Spec
CONSTANTS
  Task = {t1}
  NoTask = NoTask
  Dead = Dead
  MaxRetry = 0
  FormStatus = {"draft"}
  RunsOutliveLock = FALSE
  MaxEdits = 0
  MaxFaults = 0
  MaxCrashes = 1
INVARIANTS DeployedAlertIsTrue
CHECK_DEADLOCK FALSE
