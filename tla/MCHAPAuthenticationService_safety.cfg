SPECIFICATION FairSpec
CONSTANTS
  Calls = {c1, c2}
  None = None
CHECK_DEADLOCK FALSE
INVARIANT WaiterIsCurrent
INVARIANT AuthenticatedHasKeys
PROPERTY OwnKeys
PROPERTY Settles
