SPECIFICATION Spec
CONSTANTS
  Stream = {s1, s2}
  Tail = {}
  Entry = {e1, e2, e3}
  Conn = {k1, k2, k3, k4, k5, k6}
  None = None
  maxMetricRetries = 3
  OutagesHappen = FALSE
  MaxTrouble = 1
INVARIANTS GivesUpInTime
CHECK_DEADLOCK FALSE
