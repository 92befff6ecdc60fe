SPECIFICATION Spec
CONSTANTS
  r1 = r1
  r2 = r2
  c1 = c1
  c2 = c2
  Runs <- TwoRuns
  Callers <- OneCaller
  EntryIds <- OneEntry
  ExecIds <- TwoExecs
  RefusedRuns <- NoRuns
  MaxConcurrentRuns = 1
  GracefulShutdown = FALSE
  MaxRestarts = 1
  MaxFaults = 0
INVARIANTS
  CapRespected
