SPECIFICATION FairSpec
CONSTANTS
  Task = {t1, t2}
  NoTask = NoTask
  Dead = Dead
  MaxRetry = 1
  FormStatus = {"draft", "deploying", "deployed", "ssl_pending", "deploy_failed"}
  RunsOutliveLock = FALSE
  MaxEdits = 1
  MaxFaults = 1
  MaxCrashes = 1
INVARIANTS OneRunAtATime CopyIsFresh
PROPERTIES LegalStatusChange NoLostEdit LogTellsTheTruth ImplementsSerialDeploys NotStuckDeploying TasksSettle LockComesFree
CHECK_DEADLOCK FALSE
