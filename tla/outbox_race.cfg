\* Two overlapping scans, a slow or crashing process, one row.
SPECIFICATION FairSpec
CONSTANTS
  Rows = {r1}
  NoRow = NoRow
  Scanners = {s1, s2}
  NoKey = NoKey
  Never = Never
  Requests <- AckOrPlain
  Lease = 1
  NotifyTimeout = 1
  BaseBackoff = 1
  MaxBackoff = 1
  BackoffSteps = 1
  Prompt = FALSE
  MaxCrashes = 1
  MaxRetries = 1
INVARIANTS OneClaimPerAttempt SettledAsPromised
PROPERTIES EveryRowSettles ImplementsContract
