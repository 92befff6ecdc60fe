SPECIFICATION FairSpec
CONSTANTS
  h1 = h1
  d1 = d1
  NoId = NoId
  Hooks <- OneHook
  Ids <- OneId
  MaxRequests = 3
  MaxCrashes = 1
INVARIANTS
  AnswersAgree
  BegunOnceUntilCrash
  PendingIsOwned
PROPERTIES
  PendingSettles
CHECK_DEADLOCK FALSE
