SPECIFICATION Spec
CONSTANTS
  Sites <- TwoNested
  Workflow <- Names
  Prompt <- Keys
  Callers <- Leaves
  BadArgs <- None
  Unfit <- None
  Concurrency = 4
  MaxDepth = 2
  MaxDescendants = 4
  LateMessages = FALSE
  MaxExecutions = 2
  MaxCrashes = 0
INVARIANTS
  ReplayIsOwn
CHECK_DEADLOCK FALSE
