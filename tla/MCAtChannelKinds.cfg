CONSTANTS
  s1 = s1
  creg = creg
  cops = cops
  None = None
  Senders <- MCSenders
  Stoppers = {}
  Requests <- MCRequests
  Prefixes <- MCPrefixes
  MaxCmds = 2
  MaxUrcs = 1
SPECIFICATION Spec
INVARIANTS
  AnswerIsOwn
  AnswerEndsWait
CHECK_DEADLOCK FALSE
