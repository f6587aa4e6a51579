CONSTANTS
  None = None
  Grace = 2
  MinRetx = 1
  MaxRetx = 2
  Ports = 4
  Addrs <- ThreeAddrs
  Survivors <- OneHost
  MaxRestarts = 1
SPECIFICATION FairSpec
INVARIANTS PinRespected
PROPERTIES SlotsHeld MediaFollows NameFollows
