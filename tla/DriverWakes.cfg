SPECIFICATION FairSpec
CONSTANTS
  Message = {m1, m2}
  Outcomes = {"tools", "max-tokens"}
  MaxStep = 1
  MaxRetry = 0
  MaxCancel = 1
  MaxMaintenance = 1
  MaxNesting = 1
CHECK_DEADLOCK FALSE
PROPERTIES DisposedActivityParks WhenIdleResolves LatchedWakeRuns LiveWakeIsClaimed
