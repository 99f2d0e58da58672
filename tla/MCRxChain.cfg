SPECIFICATION Spec
CONSTANTS
  Sps = 3
  RunNeeded = 2
  Span = 4
  HeaderSyms = 2
  MaxNeeded = 4
  MaxSyms = 3
  Margin = 2
  Slack = 2
  Guard = 2
  Lead = 1
  Jitter = 1
  DataMin = 10
  DataMax = 14
  Feeds = {4, 13}
  QueueMax = 2
  SkipChunks = 1
  MaxChunks = 4
  MaxModems = 1
INVARIANTS Buffered OnePerPreamble Bounded HandedAtOnce Accounted
PROPERTY Stops
CHECK_DEADLOCK FALSE
