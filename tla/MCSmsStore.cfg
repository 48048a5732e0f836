CONSTANTS
  HasPin = TRUE
  FirstCards = {"SIM PIN"}
  Storages <- MCStorages
  Preferences = {FALSE}
  MaxChanges = 0
  MaxStarts = 2
  Parts <- MCParts
  Slots = {0, 1}
  MaxParts = 3
  MaxFaults = 1
SPECIFICATION Spec
INVARIANTS
  KeptSomewhere
  StoredOnce
  DatabaseConsistent
  NoneForgotten
CHECK_DEADLOCK FALSE
