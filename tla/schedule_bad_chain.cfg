\* A run finalized by the reconcile pass and by its executor.
SPECIFICATION Spec
CONSTANTS
  d1 = d1
  d2 = d2
  Daemons = {d1}
  NoDaemon = NoDaemon
  MaxRows = 3
  Configurations <- Starting
  Slots = 1
  MaxDepth = 1
  Horizon = 2
CHECK_DEADLOCK FALSE
INVARIANTS ChainedOnce
