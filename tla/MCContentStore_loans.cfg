SPECIFICATION Spec
CONSTANTS
  alice = alice
  bob = bob
  file = file
  tree = tree
  other = other
  u1 = u1
  u2 = u2
  j1 = j1
  Namespaces <- Principals
  Blobs <- Contents
  Size <- OneByte
  Listed <- Lists
  Metered <- Principals
  Limit <- Quotas
  Graces <- OneDay
  MaxWait = 1
  MaxIdle = 2
  Uploads <- TwoUploads
  Jobs <- OneJob
  MaxCrashes = 1
CHECK_DEADLOCK FALSE
PROPERTIES
  SeedsLent
