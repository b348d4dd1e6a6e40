\* Ticks, triggers, chains, faults and restarts on schedules of every kind.
SPECIFICATION FairSpec
CONSTANTS
  d1 = d1
  d2 = d2
  Daemons = {d1, d2}
  NoDaemon = NoDaemon
  MaxRows = 4
  Configurations <- Watched
  Slots = 2
  MaxDepth = 1
  Horizon = 2
CHECK_DEADLOCK FALSE
INVARIANTS TypeOK BudgetHolds ConfirmedOnce OneRunPerInstant ClaimsMatchFires
PROPERTIES OutcomeIsFinal EveryRunEnds DueIsHandled
