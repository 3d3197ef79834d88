SPECIFICATION MCSpec
CONSTANTS
  a = a
  b = b
  c = c
  d = d
  NULL = NULL
  Table <- MCTable
  Period <- MCPeriod
  Wrap = 10
  PollMax = 5
  MaxLate = 4
  Cost = 1
  Handler = {1, 2}
  Key <- MCKey
  Hash <- MCHash
  Capacity = 3
  SeekMax = 1
  Reader = {1}
VIEW View
CHECK_DEADLOCK FALSE
INVARIANTS
  LevelsInOrder
  LookupIsRight
PROPERTIES
  PollsOnTime
  PollsEndlessly
