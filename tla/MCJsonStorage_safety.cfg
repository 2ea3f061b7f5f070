SPECIFICATION FairSpec
CONSTANTS
  Devices = {d1}
  MaxVersion = 1
  MaxWrites = 2
  MaxCrashes = 1
CHECK_DEADLOCK FALSE
INVARIANTS
  FileIsMemory
PROPERTIES
  RestoresLast
  InitializeEnds
