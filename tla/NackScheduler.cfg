\* The sequence numbers come round once, so slots may outlive their numbers.
CONSTANTS
  Half = 4
  NCap = 2
  MaxGap = 1
  MaxRetries = 2
  Floor = 1
  Rtts <- ShortAndLongRtt
  Starts <- AtWrap
  MaxExt = 15
  MaxJump = 3
SPECIFICATION Spec
INVARIANTS CountCoversActive TracksTheMissing RetryBudget
