CONSTANTS
  h1 = h1
  h2 = h2
  Handles <- TwoHandles
  Asked <- AnyPort
  Foreign <- Taken
  Ephemeral <- FreePorts
SPECIFICATION LFairSpec
CHECK_DEADLOCK FALSE
INVARIANTS PortsAreOwned
PROPERTIES SenderPortsFreed
