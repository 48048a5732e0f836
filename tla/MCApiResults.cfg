CONSTANTS
  r1 = r1
  r2 = r2
  None = None
  Requests <- MCRequests
  MaxTime = 2
SPECIFICATION Spec
INVARIANTS
  OwnResult
  NoLeak
PROPERTIES
  EveryoneServed
CHECK_DEADLOCK FALSE
