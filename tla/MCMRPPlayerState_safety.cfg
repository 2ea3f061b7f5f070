SPECIFICATION PlayerSpec
CONSTANTS
  b1 = b1
  b2 = b2
  i1 = i1
  i2 = i2
  Bundles <- MCBundles
  Players = {"MediaRemote-DefaultPlayer", "p1"}
  DefaultId = "MediaRemote-DefaultPlayer"
  ItemIds <- MCItemIds
  Times = {1, 2, 3}
  Stamped = {"p1"}
  Queues <- MCQueues
  Updates <- MCUpdates
  Locations = {0, 1, 2}
  MaxMessages = 4
  None = None
INVARIANTS
  ActiveExists
  ShowsNewest
  AnnouncedIsCurrent
PROPERTIES
  ArtworkPursued
SYMMETRY Symmetry
CHECK_DEADLOCK FALSE
