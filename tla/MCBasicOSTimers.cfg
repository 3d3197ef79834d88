SPECIFICATION Spec
CONSTANTS
  TaskCount = 2
  Idle = 0
  Prio <- MCPrio
  MaxPriority = 2
  TimerCount = 2
  OneShot = {1}
  Wrap = 7
  Day15 = 2
  MaxTime = 2
  Delays = {2}
  Periods = {3}
VIEW View
PROPERTIES
  NoEarlyFire
  ClockIsSteady
  MinBoundLostOnlyBy
