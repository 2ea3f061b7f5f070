SPECIFICATION FairSpec
CONSTANTS
  MaxTx = 4
  MaxCommands = 1
  MaxRetries = 1
  AutoRetry = TRUE
  Starts = {s1}
  Stops = {p1}
  NoStart = NoStart
  EventIds = {2}
PROPERTIES
  RequestsSettle
  StartTerminates
