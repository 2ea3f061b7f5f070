SPECIFICATION DeviceFairSpec
CONSTANTS
  MaxFeedbacks = 3
CHECK_DEADLOCK FALSE
INVARIANTS
  OwnResponse
  ReadyIsWatched
  Released
PROPERTIES
  NoFalseAlarm
  DeviceDisconnects
