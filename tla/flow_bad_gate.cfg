\* A gate that said no before the resume does not veto.
SPECIFICATION Spec
CONSTANTS
  a = a
  b = b
  c = c
  d = d
  Ops = {a, b}
  NoOp = NoOp
  Flows <- ResumedGate
  Copies = 1
  Capacity = 1
  MaxSpawn = 0
  MaxPauses = 0
INVARIANTS GateVetoes
