SPECIFICATION FairSpec
CONSTANTS
  Count = 2
  Wrap = 10
  Ticks = {1, 2}
  MaxLate = 1
  None = None
VIEW View
CHECK_DEADLOCK FALSE
INVARIANTS
  MinIsBound
  OnePassAtATime
PROPERTIES
  TimerNotEarly
  KeepsPromise
  TimerFires
