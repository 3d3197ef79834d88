SPECIFICATION Spec
CONSTANTS
  None = None
  Junk = Junk
  p = p
  q = q
  Slaves = {1, 2}
  Items <- MCItems
  Known <- MCKnown
  Values = {0, 1}
  FpStart = 3
  MaxBits = 2
  MaxRegs = 2
  MaxFloats = 2
  Foreign = {}
  Task = {p, q}
  Asked <- MCAsked
  MaxCalls = 2
  MaxDamage = 1
  Noise = {1}
  Punctual = TRUE
CHECK_DEADLOCK FALSE
PROPERTIES
  ReadTellsCurrent
