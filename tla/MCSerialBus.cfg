SPECIFICATION Spec
CONSTANTS
  master = master
  a = a
  b = b
  m1 = m1
  m2 = m2
  a1 = a1
  b1 = b1
  None = None
  Port <- MCPort
  Targets <- MCTargets
  HalfDuplex <- MCHalfDuplex
  User <- MCUser
  PortOf <- MCPortOf
  Writer <- MCWriter
  Reader <- MCReader
  Transferrer <- MCTransferrer
  Timeouts <- MCTimeouts
  Size = 2
  WireSize = 1
  RxSize = 1
  Tested <- MCTested
VIEW View
CHECK_DEADLOCK FALSE
INVARIANTS
  WritesStayWhole
  OneSenderAtATime
  TxEndIsOwn
