CONSTANTS
  owner = owner
  other = other
  Owner = owner
  Others <- MCOthers
  Delays <- MCDelays
  MaxTimers = 2
  MaxTime = 2
SPECIFICATION Spec
INVARIANTS
  AwakeForFirst
  RunsInOrder
PROPERTIES
  DueTimersRun
  ExecIsAnswered
  StopEndsLoop
CHECK_DEADLOCK FALSE
