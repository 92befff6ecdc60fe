SPECIFICATION Spec
CONSTANTS
  h1 = h1
  d1 = d1
  NoId = NoId
  Hooks <- OneHook
  Ids <- OneId
  MaxRequests = 2
  MaxCrashes = 1
INVARIANTS
  OneBegins
CHECK_DEADLOCK FALSE
