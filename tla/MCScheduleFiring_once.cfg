SPECIFICATION Spec
CONSTANTS
  c1 = c1
  o1 = o1
  Crons <- NoSchedule
  Onces <- OneOnce
  Instants <- ThreeInstants
  MaxTime = 4
  MaxFirings = 3
  MaxArms = 3
  MaxCrashes = 1
INVARIANTS
  OnceFiresPerArm
CHECK_DEADLOCK FALSE
