\* Two frames remembered, three waiting.
SPECIFICATION EchoSpec
CONSTANTS
  f1 = f1
  f2 = f2
  f3 = f3
  EchoFrames = {f1, f2, f3}
  MaxRecent = 2
  MaxWaiting = 3
  MaxHeard = 1
SYMMETRY Symmetry
INVARIANT
  NoSelfEcho
