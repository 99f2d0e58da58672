SPECIFICATION Spec
CONSTANTS
  LinkParams <- MCLinkParams
  Payloads <- MCPayloads
  Offsets = {1, 37, 64}
  Drifts <- MCDrifts
  Flips <- MCFlips
  Clear = 10
  Weak = 1
  EchoFrames = {f1, f2, f3}
  MaxRecent = 2
  MaxWaiting = 3
  MaxHeard = 1
  BlePayloads <- MCBlePayloads
  BleNoise <- MCBleNoise
  BleFrames = 3
  BleQueueMax = 2
  BleTroubles = 2
  Intervals <- MCIntervals
  PingChanges = 3
  p1 = p1
  p2 = p2
  Parrots = {p1, p2}
  Users = {u1, u2, u3}
  Hears <- MCHears
  Slots = 2
  Cooldown = 2
  Clock = 3
  Horizon = 3
  Texts = 3
  Names = {n1, n2}
  Clients = {c1, c2}
  ConfEdits = 1
  Base = 4
  START1 = 2
  START2 = 3
  MaxPayload = 8
  OurNode = 1
  Relayers = {2, 3}
  LongTexts = {"long"}
  Asked <- MCAsked
  Chimeras <- MCChimeras
  Aired <- MCAired
  Reads = {3}
  LegacyCuts = 1
  LegacyNoise = 1
  PtyRoom = 1
INVARIANTS Repaired TailMarginTells NoRecentSelfEcho Genuine QueueIsNewest ParrotQuiet OrderlyExit LineResyncs HeardAsSent
PROPERTIES PhoneCatchesUp IntervalObeyed NameSettles ControlServes HostServed
CHECK_DEADLOCK FALSE
