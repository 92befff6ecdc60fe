SPECIFICATION Spec
CONSTANTS
  r1 = r1
  r2 = r2
  Runs <- TwoRuns
  Calls = 2
  Slots = 1
  Concurrency = 1
  Budget = 2
  LateMessages = FALSE
  MaxExecutions = 2
  MaxCrashes = 0
INVARIANTS
  TypeOK
  SlotsAccounted
  NothingFliesAborted
  NobodyStranded
SYMMETRY SymmetricRuns
CHECK_DEADLOCK FALSE
