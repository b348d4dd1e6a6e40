\* A retry at a higher tier is announced and never runs.
SPECIFICATION Spec
CONSTANTS
  a = a
  b = b
  c = c
  d = d
  Ops = {a, b, c}
  NoOp = NoOp
  Flows <- Escalating
  Copies = 1
  Capacity = 1
  MaxSpawn = 1
  MaxPauses = 0
INVARIANTS OwedIsPaid
