SPECIFICATION FairSpec
CONSTANTS
  Connector = {c1}
  MaxRetry <- RetryProvision
  FormStatus = {"pending"}
  MaxEdits = 0
  MaxFaults = 1
  MaxCrashes = 1
PROPERTIES NotStuckProvisioning IdComesFree
CHECK_DEADLOCK FALSE
