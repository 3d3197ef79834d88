SPECIFICATION Spec
CONSTANTS
  t1 = t1
  t2 = t2
  t3 = t3
  m1 = m1
  m2 = m2
  Garbage = Garbage
  Thread <- MCThread
  Message <- MCMessage
  Capacity = 2
  CanReset = TRUE
SYMMETRY Symmetry
VIEW View
CONSTRAINT Bounded
CHECK_DEADLOCK FALSE
INVARIANTS
  PermitsAddUp
PROPERTIES
  IsQueue
