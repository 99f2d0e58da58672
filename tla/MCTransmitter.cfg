\* Two frames around the chunk length, two presets, two frames waiting.
SPECIFICATION LineSpec
CONSTANTS
  f1 = f1
  f2 = f2
  p1 = p1
  p2 = p2
  Silence = Silence
  Frames = {f1, f2}
  Presets = {p1, p2}
  ChunkLen = 2
  MaxQueue = 2
  BurstLen <- MCBurstLen
INVARIANTS
  LineMatchesModem
PROPERTIES
  KeepsPromise
  QueueMoves
