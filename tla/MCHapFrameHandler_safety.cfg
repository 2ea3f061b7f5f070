SPECIFICATION Spec
CONSTANTS
  Length = 11
  HeaderSize = 2
  MaxFrame = 5
  MaxChunk = 4
  InitialSize = 4
  MaxSize = 9
  Sizes = {2,3,5}
  Streams <- AllStreams
INVARIANTS
  TypeOK
  UnreadInOrder
  NoByteLost
  Synchronised
