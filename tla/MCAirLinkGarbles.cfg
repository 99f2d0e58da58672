\* A write that is given up, and a frame nobody wrote.
SPECIFICATION Spec
CONSTANTS
  kMagic0 = 4
  kMagic1 = 70
  kTxMetaLen = 1
  kRxMetaLen = 2
  kMinAirLen = 1
  kMaxAirLen = 3
  Uplink <- MCUplink
  Downlink <- NoDownlink
  MaxUp = 2
  MaxDown = 0
  MaxConns = 1
  Capacity = 5
  ReadLen = 4
INVARIANT
  OnlyWritten
CHECK_DEADLOCK FALSE
