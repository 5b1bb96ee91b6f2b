SPECIFICATION FairSpec
CONSTANTS
  Stream = {s1}
  Tail = {l1}
  Entry = {e1, e2, e3}
  Conn = {k1, k2, k3, k4, k5, k6}
  None = None
  maxMetricRetries = 2
  OutagesHappen = TRUE
  MaxTrouble = 2
INVARIANTS TypeOK
PROPERTIES LockedEntryIsMine CallsReturn LoneStreamRecovers StreamsEndWhenDown
CHECK_DEADLOCK FALSE
