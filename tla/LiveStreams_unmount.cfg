SPECIFICATION StreamsFairSpec
CONSTANTS
  View = {"logs"}
  Server = {a}
  NoServer = NoServer
  Conn = {1, 2}
  NoConn = 0
  MaxRetries = 1
  MaxActs = 3
  MaxOutages = 0
INVARIANTS StopsOnUnmount
CHECK_DEADLOCK FALSE
