SPECIFICATION FairSpec
CONSTANTS
  r1 = r1
  r2 = r2
  Runs <- OneRun
  Calls = 3
  Slots = 2
  Concurrency = 3
  Budget = 1
  LateMessages = TRUE
  MaxExecutions = 2
  MaxCrashes = 1
INVARIANTS
  SlotsAccounted
  NothingFliesAborted
  BoundedOvershoot
  PrefixReplayed
PROPERTIES
  CallsLeave
  SlotsInOrder
CHECK_DEADLOCK FALSE
