\* Every run ends, paused, cancelled or with a raising condition.
SPECIFICATION FairSpec
CONSTANTS
  a = a
  b = b
  c = c
  d = d
  Ops = {a, b, c, d}
  NoOp = NoOp
  Flows <- Steered
  Copies = 1
  Capacity = 1
  MaxSpawn = 1
  MaxPauses = 1
PROPERTIES RunEnds
