SPECIFICATION FairSpec
CONSTANTS
  Sites <- OneNested
  Workflow <- Names
  Prompt <- Keys
  Callers <- Inner
  BadArgs <- None
  Unfit <- None
  Concurrency = 1
  MaxDepth = 2
  MaxDescendants = 2
  LateMessages = TRUE
  MaxExecutions = 2
  MaxCrashes = 1
INVARIANTS
  SlotsAccounted
  DescendantsCapped
  NothingRunsAborted
  NumbersApart
  NoOrphans
PROPERTIES
  FramesAnswered
CHECK_DEADLOCK FALSE
