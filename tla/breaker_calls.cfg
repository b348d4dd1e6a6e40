\* Calls of before, during and after an outage, at the endpoint and through the processor.
SPECIFICATION CallsFairSpec
CONSTANTS
  c1 = c1
  c2 = c2
  c3 = c3
  c4 = c4
  Callers = {c1, c2, c3, c4}
  Threshold = 2
  RecoveryTime = 2
  HalfOpenCalls = 2
  MaxCount = 6
  Timer = Timer
  NoCall = NoCall
  NoCycle = NoCycle
  Configurations <- Small
CHECK_DEADLOCK FALSE
INVARIANTS HalfOpenAwaitsVerdict GrantsWithinLimits OnePlace CapacityComesBack
PROPERTIES OpenEnds HalfOpenEnds EveryCallEnds
