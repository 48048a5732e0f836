CONSTANTS
  Forms <- MCForms
  Messages <- MCMessages
SPECIFICATION Spec
INVARIANTS
  ReadAsMeant
  DecodedAsSent
CHECK_DEADLOCK FALSE
