SPECIFICATION Spec
CONSTANTS
  h1 = h1
  d1 = d1
  NoId = NoId
  Hooks <- OneHook
  Ids = {d1, d2}
  MaxRequests = 3
  MaxCrashes = 1
  Nat <- SmallNat
PROPERTIES
  VerdictsStand
CHECK_DEADLOCK FALSE
