\* Overlapping scans of two rows when only the transport takes time.
SPECIFICATION Spec
CONSTANTS
  Rows = {r1, r2}
  NoRow = NoRow
  Scanners = {s1, s2}
  NoKey = NoKey
  Never = Never
  Requests <- Mixed
  Lease = 3
  NotifyTimeout = 1
  BaseBackoff = 2
  MaxBackoff = 4
  BackoffSteps = 1
  Prompt = TRUE
  MaxCrashes = 2
  MaxRetries = 0
SYMMETRY Symmetry
INVARIANTS NoOverlappingSends SendsWithinBudget RecoverableWithinLease
PROPERTY LateByTheBatchOnly
