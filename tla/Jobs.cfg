SPECIFICATION FairSpec
CONSTANTS
  Job = {j1, j2}
  Owner = {o1, o2}
  Waiter = {w1, w2}
  Nobody = Nobody
  NoJob = NoJob
  MaxConcurrentJobs = 1
INVARIANTS SettlementIsTold DisposalLeavesNothing
PROPERTIES NoticeOnlyIfUntold TeardownEnds
