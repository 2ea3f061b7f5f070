SPECIFICATION Spec
CONSTANTS
  MaxTx = 5
  MaxCommands = 1
  MaxRetries = 1
  AutoRetry = TRUE
  Starts = {s1, s2}
  Stops = {p1}
  NoStart = NoStart
  EventIds = {1}
INVARIANTS
  PendingConsistent
  SingleEstablishment
  ActiveWasGranted
PROPERTIES
  RequestsSafe
SYMMETRY Symmetry
