SPECIFICATION Spec
CONSTANTS
  Domains <- MCDomains
  Networks <- MCNetworks
  Contexts <- MCContexts
  Configs <- MCConfigs
  MaxChanges = 2
CHECK_DEADLOCK FALSE
INVARIANTS
  RegistrationFollows
  IfaceFollows
  NoSilentLoss
  LeaseNeedsConnection
  ConnectedHasLease
PROPERTIES
  KeepsDialling
