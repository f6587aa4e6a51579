CONSTANTS
  Half = 4
  ConfiguredCap = 3
  None = None
  Grace = 2
  MinRetx = 1
  MaxRetx = 2
  OurSsrc = 2
  Datagrams <- MixedDatagrams
  Keepalive <- EchoOnly
  Survivors <- OneHost
  Addrs <- TwoHosts
  ChanCap = 1
  Start = 6
  MaxSent = 10
SPECIFICATION SFairSpec
INVARIANTS RingIsRecent ServedWithinBudget
PROPERTIES PeerHeld Stops PeerFollows
CHECK_DEADLOCK FALSE
