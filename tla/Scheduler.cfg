SPECIFICATION FairSpec
CONSTANTS
  N = 3
  MaxParallelToolCalls = 2
CHECK_DEADLOCK FALSE
INVARIANTS ExclusiveRunsAlone NothingRunsAfterwards SkippedNeverRan
PROPERTIES ResultsInModelOrder Terminates
