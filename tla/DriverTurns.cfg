SPECIFICATION Spec
CONSTANTS
  Message = {m1, m2}
  Outcomes = {"reject", "rewrite", "context", "fail", "error", "max-tokens", "tools", "toolContext"}
  MaxStep = 2
  MaxRetry = 1
  MaxCancel = 1
  MaxMaintenance = 0
  MaxNesting = 1
SYMMETRY Symmetry
CHECK_DEADLOCK FALSE
INVARIANTS QuiescentLogBalanced AdmittedOnce FollowupsKeepTheirTurns CompletedTurnsOweNothing
PROPERTIES LogProtocol
