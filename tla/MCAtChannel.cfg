CONSTANTS
  s1 = s1
  s2 = s2
  creg = creg
  None = None
  Senders <- MCSenders
  Stoppers <- MCStoppers
  Requests <- MCRequests
  Prefixes <- MCPrefixes
  MaxCmds = 2
  MaxUrcs = 1
SPECIFICATION Spec
INVARIANTS
  TypeOK
  CurrOwned
  CrashNeedsGivingUp
  AnswerIsOwn
  LossWakesCaller
PROPERTIES
  ImplementsCommands
CHECK_DEADLOCK FALSE
