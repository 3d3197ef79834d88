SPECIFICATION Spec
CONSTANTS
  TaskCount = 2
  Idle = 0
  Prio <- MCPrio
  MaxPriority = 2
  TimerCount = 2
  OneShot = {1}
  Wrap = 9
  Day15 = 2
  MaxTime = 3
  Delays = {2}
  Periods = {2}
VIEW View
PROPERTY NoTimeoutMissed
