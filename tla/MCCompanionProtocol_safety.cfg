SPECIFICATION FairSpec
CONSTANTS
  MaxSockets = 2
  AutoReconnect = TRUE
  MaxReconnectAttempts = 1
  MaxAttempts = 1
  Connects = {c1, c2}
  Disconnects = {d1, d2}
INVARIANTS
  ReadyIsUsable
  LossNoticed
  KeysOutliveSession
PROPERTIES
  AttemptEnds
CHECK_DEADLOCK FALSE
