CONSTANTS
  Half = 3
  Cycles = 2
  MaxLoss = 2
  Starts = {4}
  MaxExt = 18
  MaxCopies = 3
  U32 = 9
  Short = 3
  Second = 4
  Micro = 2
  Offset = 1
  Latencies = {1, 2, 4}
  MaxClock = 34
  Epoch = 9
  Num = 3
  Den = 2
  Steps <- BackAndForth
  MaxDelay = 3
  MaxNow = 13
  Step = 8
  Period = 2
  Ratio = 2
  Lag = 1
  MaxTurn = 1
  Lifetime = 5
  MaxFlight = 2
SPECIFICATION BSpec
CHECK_DEADLOCK FALSE
INVARIANTS ReportIsExact JitterBounded OneTimeline ReportsTellDelay RttIsTrue RequestsKeepComing
