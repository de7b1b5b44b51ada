SPECIFICATION Spec
CONSTANTS
  MaxEvents = 2
  MaxFailures = 0
  Barriers = {}
CHECK_DEADLOCK FALSE
INVARIANTS DrainedBeforeRelease
