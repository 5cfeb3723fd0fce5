SPECIFICATION ResumeSpec
CONSTANTS
  a = a
  b = b
  P = P
  Q = Q
  i = i
  j = j
  pool = pool
  other = other
  NoTarget = NoTarget
  Tasks = {i, j}
  Keys = {P, Q}
  Pools = {pool}
  PoolOf <- OnePool
  Targets = {a}
  Members <- AllServe
  MaxActive = 1
  Configs <- FairConfigs
  Views <- FairView
  MaxRequests <- FairCount
  MaxEpochs = 3
PROPERTIES
  NoStarvation
  NothingIsKeptForEver
