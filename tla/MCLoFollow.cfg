\* Sliders move at any time, programming may fail, fair polls.
SPECIFICATION FairSpec
CONSTANTS
  Center = 0
  RxIf = 1
  Sliders <- MCSliders
  Torn <- MCTorn
  MaxFailures = 2
INVARIANTS
  Settled
  OwnWritesIgnored
PROPERTY
  Replaced
