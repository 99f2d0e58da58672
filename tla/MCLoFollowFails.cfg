\* Sliders move at any time, one programming fails.
SPECIFICATION Spec
CONSTANTS
  Center = 0
  RxIf = 1
  Sliders <- MCSliders
  Torn <- MCTorn
  MaxFailures = 1
INVARIANT
  ChannelRequested
