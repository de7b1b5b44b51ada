SPECIFICATION FairSpec
CONSTANTS
  Lifecycle = {a, b}
  None = None
CHECK_DEADLOCK FALSE
INVARIANTS RegistryFollowsHandle FailureLeavesNothing FactoryQuiescent
PROPERTIES TeardownSettles
