SPECIFICATION Spec
CONSTANTS
  MaxMessage = 2
  MaxPending = 2
  MaxFault = 0
CHECK_DEADLOCK FALSE
INVARIANTS SeenOnce
