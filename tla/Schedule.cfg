SPECIFICATION FairSpec
CONSTANTS
  Delay = {2}
  Interval = {1}
  MaxReminder = 2
  MaxTime = 2
  MaxDelay = 1
  MaxCall = 2
  MaxActivity = 1
  MaxFault = 1
  MaxLife = 1
CHECK_DEADLOCK FALSE
INVARIANTS SentOnce
PROPERTIES PersistenceBeforeDecision DueIsSent DisposalSettles
