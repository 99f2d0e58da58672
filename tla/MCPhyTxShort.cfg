\* A frame whose burst fits in one chunk.
SPECIFICATION Spec
CONSTANTS
  long = long
  short = short
  p1 = p1
  p2 = p2
  low = low
  high = high
  Ducked = Ducked
  Silence = Silence
  Frames = {short}
  Presets = {p1}
  Gains = {low, high}
  RxGainCfg = low
  ChunkLen = 1
  MaxQueue = 1
  BurstLen <- MCBurstLen
INVARIANT
  BurstUnderPa
