SPECIFICATION PipelineSpec
CONSTANTS
  Task = {t1, t2}
  NoTask = NoTask
  Dead = Dead
  MaxRetry = 0
  MaxIssueRetry = 1
  FormStatus = {"draft", "deploying", "deployed", "ssl_pending", "deploy_failed"}
  RunsOutliveLock = FALSE
  MaxEdits = 1
  MaxFaults = 1
  MaxCrashes = 1
SYMMETRY Symmetry
INVARIANTS PipelineTypeOK QuietMeansConcluded
PROPERTIES LegalUnlessOvertaken DeletedStaysDeleted
CHECK_DEADLOCK FALSE
