\* Two packets, a reception and a preset request, fair threads.
SPECIFICATION FairSpec
CONSTANTS
  None = None
  p1 = p1
  p2 = p2
  Packets = {p1, p2}
  Peers = {"peer"}
  MaxHeard = 1
  MAX_TX_QUEUE = 2
  Presets = {"ShortTurbo", "LongFast"}
  ShortTurbo = "ShortTurbo"
  Unsupported = "Unsupported"
  MaxAsks = 1
INVARIANTS
  Watched
PROPERTIES
  Paced
  NothingStalls
  RequestApplied
CHECK_DEADLOCK FALSE
