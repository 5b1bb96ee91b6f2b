SPECIFICATION PipelineSpec
CONSTANTS
  Task = {t1}
  NoTask = NoTask
  Dead = Dead
  MaxRetry = 0
  MaxIssueRetry = 0
  FormStatus = {"draft"}
  RunsOutliveLock = FALSE
  MaxEdits = 0
  MaxFaults = 0
  MaxCrashes = 0
PROPERTIES StatusFollowsTable
CHECK_DEADLOCK FALSE
