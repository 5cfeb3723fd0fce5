SPECIFICATION Spec
CONSTANTS
  h1 = h1
  h2 = h2
  None = None
  Hosts = {h1, h2}
  MaxDp = 2
  Models = {"unknown", "other"}
  DefaultModel = "unknown"
  Policies = {"cache_aware", "random"}
  DefaultPolicy = "cache_aware"
  Ops = {1, 2}
  Boot = 0
  Callers = {0, 1, 2}
  SuccessThreshold = 2
  FailureThreshold = 2
  Configs <- MCConfigs
CHECK_DEADLOCK FALSE
INVARIANTS
  FleetIsConsistent
PROPERTIES
  FleetSettles
