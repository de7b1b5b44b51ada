SPECIFICATION Spec
CONSTANTS
  Message = {m1, m2}
  Outcomes = {"max-tokens", "tools"}
  MaxStep = 2
  MaxRetry = 0
  MaxCancel = 0
  MaxMaintenance = 0
  MaxNesting = 1
CHECK_DEADLOCK FALSE
INVARIANTS TurnStoppingOwesNothing
