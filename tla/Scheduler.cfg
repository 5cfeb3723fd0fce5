SPECIFICATION Spec
CONSTANTS
  a = a
  b = b
  P = P
  Q = Q
  i = i
  j = j
  pool = pool
  other = other
  NoTarget = NoTarget
  Tasks = {i, j}
  Keys = {P, Q}
  Pools = {pool}
  PoolOf <- OnePool
  Targets = {a, b}
  Members <- AllServe
  MaxActive = 1
  Configs <- EveryConfig
  Views <- EveryView
  MaxRequests <- EveryCount
  MaxEpochs = 2
SYMMETRY Symmetry
INVARIANTS
  SchedulerIsConsistent
PROPERTIES
  NobodyWaitsInVain
  AdmissionsAreOrderly
