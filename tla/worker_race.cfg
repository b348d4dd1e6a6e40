\* Two workers, every step delayed at will and one pass cut short.
SPECIFICATION Spec
CONSTANTS
  w1 = w1
  w2 = w2
  k1 = k1
  Workers = {w1, w2}
  NoWorker = NoWorker
  NoKey = NoKey
  NoLease = NoLease
  Tasks = {1, 2}
  Applications <- Varied
  SubmitTTL = 3
  LeaseTTL = 1
  MaxLeaseAttempts = 2
  WaiterCap = 1
  Limit = 2
  SlotsContended = TRUE
  Horizon = 2
  MaxCrashes = 1
INVARIANTS LeaseNamesClaim ExclusiveWithinLease
PROPERTIES OutcomeIsFinal
