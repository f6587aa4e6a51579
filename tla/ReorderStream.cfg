\* Arrivals that step over up to half the sequence space.
CONSTANTS
  Half = 8
  Cap = 4
  BufferTime = 1
  Starts <- AtWrap
  MaxExt = 21
  MaxJump = 7
SPECIFICATION FSpec
INVARIANTS WindowSound WindowWholeBeforeFar NoOverReport InsertIsTheLoop
PROPERTIES InOrderDelivery ImplementsPromise
