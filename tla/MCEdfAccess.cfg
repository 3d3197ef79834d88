SPECIFICATION Spec
CONSTANTS
  t1 = t1
  t2 = t2
  shared = shared
  sole = sole
  None = None
  Thread <- MCThread
  Device <- MCDevice
  Name <- MCName
  Sole <- MCSole
  Owner <- MCOwner
  MaxDevices = 2
  CountWrap = 4
  MaxCount = 2
  MaxOpens = 1
  Tester <- MCTester
  Flaky <- MCFlaky
VIEW View
CHECK_DEADLOCK FALSE
INVARIANT
  DriverCalledWhileOn
