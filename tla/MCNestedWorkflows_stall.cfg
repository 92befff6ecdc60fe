SPECIFICATION Spec
CONSTANTS
  Sites <- TwoNested
  Workflow <- Names
  Prompt <- Keys
  Callers <- None
  BadArgs <- None
  Unfit <- None
  Concurrency = 2
  MaxDepth = 2
  MaxDescendants = 4
  LateMessages = TRUE
  MaxExecutions = 1
  MaxCrashes = 0
INVARIANTS
  SlotsFlow
CHECK_DEADLOCK FALSE
