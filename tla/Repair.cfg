SPECIFICATION Spec
CONSTANTS
  MaxTurn = 2
  MaxStep = 2
  MaxCalls = 2
  MaxEvents = 13
  MaxCrash = 3
CHECK_DEADLOCK FALSE
INVARIANTS NotStartedNeverRan RepairedCallsAnswered
PROPERTIES ResumesBalanced RepairIsDeterministic
