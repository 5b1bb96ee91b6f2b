SPECIFICATION FairSpec
CONSTANTS
  Settings <- Choices
  MaxTh = 2
  MaxRestarts = 1
  MaxFaults = 1
  Window = 1
INVARIANTS DownIsConfirmed
PROPERTIES AlertsAlternate OutageIsReported RecoveryIsReported
CHECK_DEADLOCK FALSE
