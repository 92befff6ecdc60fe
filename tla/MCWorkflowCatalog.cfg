SPECIFICATION Spec
CONSTANTS
  alpha = alpha
  beta = beta
  Old = Old
  New = New
  Names = {alpha, beta}
  cron = cron
  hook = hook
  Triggers = {cron, hook}
  Scripts = {Old, New}
  Channels = {"release"}
  MaxWorkflowVersions = 2
  MaxVersion <- OneSpare
  Requests = {q}
  Runs = {r}
  MaxCrashes = 1
  Nobody = Nobody
  Gone = Gone
SYMMETRY Alike
INVARIANTS
  ResumesOwnCode
  OneWorkflowPerTrigger
  ClaimsDeclared
  ChannelsResolve
