\* Safety, with bursts of up to two datagrams.
CONSTANTS
  Half = 8
  Cap = 2
  BufferTime = 1
  Packets <- ThreePackets
  MaxBatch = 2
  ChanCap = 1
SPECIFICATION Spec
INVARIANTS NoMissedWake InOrderAcrossThreads NothingVanishes
CHECK_DEADLOCK FALSE
