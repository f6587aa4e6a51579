CONSTANTS
  Half = 8
  NCap = 2
  MaxGap = 1
  MaxRetries = 2
  Floor = 1
  Rtts <- OneRtt
  Starts <- Joins
  MaxExt = 18
  MaxJump = 7
  ConfiguredCap = 2
  First = 14
SPECIFICATION RFairSpec
CHECK_DEADLOCK FALSE
INVARIANTS NoNeedlessNack
PROPERTIES GivenUpOnlyAfterFailures Recovers
