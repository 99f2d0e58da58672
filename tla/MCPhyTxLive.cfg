\* Every burst is longer than a chunk; one gain and one preset; fair threads.
SPECIFICATION FairSpec
CONSTANTS
  long = long
  short = short
  p1 = p1
  p2 = p2
  low = low
  high = high
  Ducked = Ducked
  Silence = Silence
  Frames = {long}
  Presets = {p1}
  Gains = {low}
  RxGainCfg = low
  ChunkLen = 2
  MaxQueue = 2
  BurstLen <- MCBurstLen
INVARIANT
  BurstUnderPa
PROPERTIES
  PaOffWhenIdle
  StopTerminates
