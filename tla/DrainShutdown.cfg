CONSTANTS
  Half = 8
  Cap = 2
  BufferTime = 1
  Packets <- ThreePackets
  MaxBatch = 1
  ChanCap = 1
SPECIFICATION FairSpec
PROPERTY ShutdownCompletes
CHECK_DEADLOCK FALSE
