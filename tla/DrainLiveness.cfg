\* Liveness, under fair scheduling of the two threads.
CONSTANTS
  Half = 8
  Cap = 2
  BufferTime = 1
  Packets <- ThreePackets
  MaxBatch = 1
  ChanCap = 1
SPECIFICATION FairSpec
PROPERTIES EventuallyReleased ShutdownOrParked
CHECK_DEADLOCK FALSE
