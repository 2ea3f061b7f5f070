SPECIFICATION FairSpec
CONSTANTS
  MaxSockets = 2
  MaxConnects = 2
  AutoReconnect = TRUE
  MaxReconnectAttempts = 1
  Sends = {m1, m2}
  Parts = 2
INVARIANTS
  ConnectedHasSocket
  SentOnce
PROPERTIES
  ConnectSettles
CHECK_DEADLOCK FALSE
