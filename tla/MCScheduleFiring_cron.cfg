SPECIFICATION FairSpec
CONSTANTS
  c1 = c1
  o1 = o1
  Crons <- OneCron
  Onces <- NoSchedule
  Instants <- ThreeInstants
  MaxTime = 4
  MaxFirings = 4
  MaxArms = 2
  MaxCrashes = 2
INVARIANTS
  OneFiringPerInstant
  OutcomeOnRow
PROPERTIES
  DueFires
CHECK_DEADLOCK FALSE
