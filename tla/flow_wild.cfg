\* Static and growing graphs, gates, resumes, pauses, cancellation and crashes.
SPECIFICATION Spec
CONSTANTS
  a = a
  b = b
  c = c
  d = d
  Ops = {a, b, c, d}
  NoOp = NoOp
  Flows <- Wild
  Copies = 1
  Capacity = 2
  MaxSpawn = 2
  MaxPauses = 2
INVARIANTS StartsAfterDependencies GateVetoes AccountsAgree AnnouncedIsAnswered
PROPERTIES PauseHoldsTheRest
