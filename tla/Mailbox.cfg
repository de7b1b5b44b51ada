SPECIFICATION FairSpec
CONSTANTS
  MaxMessage = 2
  MaxPending = 2
  MaxFault = 1
CHECK_DEADLOCK FALSE
INVARIANTS AcknowledgedIsStored OnePendingCopy QueueOrderKept
PROPERTIES MailboxSettles
