SPECIFICATION Spec
CONSTANTS
  HeaderSize = 2
  BufferSize = 5
  Sizes = {2, 3}
  Junk = {2, 3}
  MaxPackets = 3
INVARIANT ClientFramesIntact
CHECK_DEADLOCK FALSE
