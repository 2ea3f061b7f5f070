SPECIFICATION StreamSpec
CONSTANTS
  SeqMod = 4
  TsMod = 14
  BacklogSize = 2
  FramesPerPacket = 2
  Latency = 3
  MaxBurst = 2
  MaxAudio = 4
  MaxStreams = 2
CHECK_DEADLOCK FALSE
INVARIANTS
  ResentIsRight
  SyncClock
  StopPrompt
PROPERTIES
  ImplementsPlayback
