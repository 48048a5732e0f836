CONSTANTS
  HasPin = TRUE
  FirstCards = {"READY", "SIM PIN", "busy", "absent", "unknown", "SIM PUK"}
  Storages <- MCStorages
  Preferences = {TRUE, FALSE}
  MaxChanges = 2
  MaxStarts = 2
SPECIFICATION FairSimSpec
INVARIANTS
  OneTryPerStart
PROPERTY ReadyBringsSms
CHECK_DEADLOCK FALSE
