SPECIFICATION Spec
CONSTANTS
  c1 = c1
  o1 = o1
  Crons <- OneCron
  Onces <- OneOnce
  Instants <- ThreeInstants
  MaxTime = 4
  MaxFirings = 2
  MaxArms = 2
  MaxCrashes = 1
PROPERTIES
  OnTime
CHECK_DEADLOCK FALSE
