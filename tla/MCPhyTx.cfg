\* Both kinds of burst, two presets, two gains.
SPECIFICATION Spec
CONSTANTS
  long = long
  short = short
  p1 = p1
  p2 = p2
  low = low
  high = high
  Ducked = Ducked
  Silence = Silence
  Frames = {long, short}
  Presets = {p1, p2}
  Gains = {low, high}
  RxGainCfg = low
  ChunkLen = 1
  MaxQueue = 1
  BurstLen <- MCBurstLen
INVARIANTS
  NoRetuneOnAir
  GainRestored
  MuteAfterSilence
