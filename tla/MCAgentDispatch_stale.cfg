SPECIFICATION Spec
CONSTANTS
  r1 = r1
  r2 = r2
  Runs <- TwoRuns
  Calls = 1
  Slots = 1
  Concurrency = 1
  Budget = 4
  LateMessages = FALSE
  MaxExecutions = 2
  MaxCrashes = 0
PROPERTIES
  NoSecondDispatch
CHECK_DEADLOCK FALSE
