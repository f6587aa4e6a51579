CONSTANTS
  Half = 8
  Window = 4
  Behind = 8
  Ahead = 7
  MaxIndex = 40
  MaxSub = 2
  MaxEntries = 2
  MaxPackets = 3
  Bits = 2
  Tracked = 6
  Numbers <- AroundWrap
  MaxLost = 6
  Payloads <- AllPayloads
  SentNumbers <- EndsOfBytes
  Ssrcs <- TwoSsrcs
  Headers <- SomeHeaders
  ExtWords = {0, 1}
  MaxRecv = 30
  Samples <- AllSamples
  Extensions <- SomeExtensions
SPECIFICATION DSpec
CHECK_DEADLOCK FALSE
INVARIANTS ReadsWhatIsWhole ExtensionsPass ListsSurvive Delivered CodecsAgree
PROPERTIES FirstArrivalWins
