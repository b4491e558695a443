SPECIFICATION Spec
CONSTANTS
  Segments = 2
  Slots = 2
  MaxDrops = 0
INVARIANT HonestCredit
CHECK_DEADLOCK FALSE
