SPECIFICATION FairSpec
CONSTANTS
  master = master
  slave = slave
  m = m
  mr = mr
  s = s
  sr = sr
  None = None
  Port <- MCPort
  Targets <- MCTargets
  HalfDuplex <- MCHalfDuplex
  User <- MCUser
  PortOf <- MCPortOf
  Writer <- MCWriter
  Reader <- MCReader
  Transferrer <- MCTransferrer
  Timeouts <- MCTimeouts
  Size = 1
  WireSize = 1
  RxSize = 1
  Tested = {}
VIEW View
CHECK_DEADLOCK FALSE
PROPERTIES
  WriteEnds
