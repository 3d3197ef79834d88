SPECIFICATION FairSpec
CONSTANTS
  Slot = {1}
  None = None
  Samples = 4
  ClickMin = 2
  ClickMax = 4
  IdleMax = 3
INVARIANTS
  CallbackHasDevice
  GesturesAreBacked
PROPERTIES
  GestureEnds
