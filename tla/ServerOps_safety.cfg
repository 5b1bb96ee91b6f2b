SPECIFICATION Spec
CONSTANTS
  Connector = {c1}
  MaxRetry <- NoRetry
  FormStatus = {"pending", "provisioning", "ready_for_deploy"}
  MaxEdits = 1
  MaxFaults = 1
  MaxCrashes = 1
INVARIANTS TypeOK ReadyMeansInstalled TrailLeadsHere
PROPERTIES WritesOwnColumns
CHECK_DEADLOCK FALSE
