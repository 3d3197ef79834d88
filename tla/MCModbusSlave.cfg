SPECIFICATION SlaveSpec
CONSTANTS
  None = None
  Junk = Junk
  Slaves = {1}
  Items <- MCItems
  Known <- MCKnown
  Values = {0, 1}
  FpStart = 2
  MaxBits = 2
  MaxRegs = 2
  MaxFloats = 2
  Foreign <- MCForeign
INVARIANTS
  SlaveTypeOK
PROPERTIES
  EffectAsReported
  DisableStopsNext
