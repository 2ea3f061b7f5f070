SPECIFICATION FairSpec
CONSTANTS
  Conns = {c1, c2}
  App = {a1}
INVARIANTS
  ReadyIsAttached
PROPERTIES
  ImplementsTable
  CallsSettle
CHECK_DEADLOCK FALSE
