\* One worker, its passes cut short at most twice.
SPECIFICATION FairSpec
CONSTANTS
  w1 = w1
  w2 = w2
  k1 = k1
  Workers = {w1}
  NoWorker = NoWorker
  NoKey = NoKey
  NoLease = NoLease
  Tasks = {1, 2}
  Applications <- Varied
  SubmitTTL = 3
  LeaseTTL = 1
  MaxLeaseAttempts = 2
  WaiterCap = 1
  Limit = 2
  SlotsContended = FALSE
  Horizon = 5
  MaxCrashes = 2
INVARIANTS HandOutsBounded OneRunningPerKey
PROPERTIES EveryTaskEnds
