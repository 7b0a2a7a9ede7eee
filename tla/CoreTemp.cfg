CONSTANTS
  CoreCounts <- MCCoreCounts
  PacketWords = 16
  BufferWords = 64
  HeaderWords = 4
  MayTimeOut = {"configure", "clearIn", "clearOut"}
  MaxFrames = 2
  MaxUnplugs = 2
  MaxRestarts = 1
SPECIFICATION Spec
INVARIANTS
  ShownIsAFrame StreamsConnected
PROPERTIES
  GetsGoing EveryFrameShown
CHECK_DEADLOCK FALSE
