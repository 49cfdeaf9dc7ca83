CONSTANTS
  a = a
  b = b
  Byte <- MCByte
  Messages <- MCMessages
  FragmentSize = 2
  BufferSize = 4
  MaxMessages = 4
  MaxLoopback = 3
  NoPacket = NoPacket
SPECIFICATION LoopbackSpec
INVARIANTS EveryMessageEnds LatestArrives
PROPERTIES DeliversInOrder QueueDrains
