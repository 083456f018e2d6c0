SPECIFICATION FairFramingSpec
CONSTANTS
  HeaderSize = 2
  MaxPacketSize = 4
  bufferSize = 4
  BufferCount = 2
  Kinds <- MCKinds
  MaxPackets = 3
INVARIANTS FramesIntact RoomToReceive
PROPERTY ImplementsPacketStream
\* all packets are handled, or the connection is closed
CHECK_DEADLOCK FALSE
