CONSTANTS
  loop = loop
  creg = creg
  None = None
  Senders <- MCSenders
  Stoppers <- MCSenders
  LoopThread = loop
  Requests <- MCRequests
  Prefixes <- MCPrefixes
  PingTries = 2
  MaxWork = 1
  MaxCmds = 3
  MaxUrcs = 0
SPECIFICATION MSpec
PROPERTIES
  DeviceLossReported
  SilentModemReported
  SelfTestEnds
  ShutdownCompletes
CHECK_DEADLOCK FALSE
