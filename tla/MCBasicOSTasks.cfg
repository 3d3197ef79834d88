SPECIFICATION FairSpec
CONSTANTS
  TaskCount = 5
  Idle = 1
  Prio <- MCPrio
  MaxPriority = 2
  TimerCount = 1
  OneShot = {}
  Wrap = 7
  Day15 = 2
  MaxTime = 3
  Delays = {2}
  Periods = {}
VIEW View
INVARIANTS
  SuspendedHasPeer
  IdleRunsLast
PROPERTIES
  NoEarlyWake
  WaitGrowsOnlyByResume
  RoundRobin
