\* Two nodes in turn, both directions, writes given up anywhere, fair threads.
SPECIFICATION FairSpec
CONSTANTS
  kMagic0 = 4
  kMagic1 = 70
  kTxMetaLen = 1
  kRxMetaLen = 2
  kMinAirLen = 1
  kMaxAirLen = 3
  Uplink <- MCUplink
  Downlink <- MCDownlink
  MaxUp = 3
  MaxDown = 1
  MaxConns = 2
  Capacity = 5
  ReadLen = 5
INVARIANTS
  InOrder
  Recovers
PROPERTIES
  LoopComesRound
  Delivered
CHECK_DEADLOCK FALSE
