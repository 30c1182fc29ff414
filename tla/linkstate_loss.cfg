SPECIFICATION Spec
CONSTANTS
  Slots = 4
  Window = 5
  Sample = {0, 1}
  MaxLag = 4
  MaxSlot = 10
  None = None
INVARIANTS NoSampleLost
CHECK_DEADLOCK FALSE
