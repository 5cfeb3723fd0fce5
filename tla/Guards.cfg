SPECIFICATION GuardSpec
CONSTANTS
  t1 = t1
  t2 = t2
  NoThread = NoThread
  Threads = {t1, t2}
  FailureThreshold = 2
  SuccessThreshold = 2
  k1 = k1
  k2 = k2
  a = a
  b = b
  NoTarget = NoTarget
  Keys = {k1, k2}
  Targets = {a, b}
  MaxRequests = 3
  MaxEpochs = 3
  OnRequests = {"r1", "r2", "r3", "r4"}
  Attached = {"r1", "r2", "r3"}
  WasmWorkers = {"w1"}
  WasmQueue = 2
  Idle = "idle"
  Storable <- Conversations
  MaxStores = 4
  MaxDepth = 4
  Nobody = "nobody"
  NoPrev = 0
  Requests = {"r1", "r2", "r3"}
  Embeddings = {"r1", "r2"}
  Capacity = 2
  One = 2
  Rate = 1
  FillTime = 2
  QueueSize = 1
  QueueTimeout = 2
  MaxCancels = 1
CHECK_DEADLOCK FALSE
INVARIANTS
  BreakerNeverStuck
  RuntimeIsFenced
  PoolIsSound
  StoreIsIndexed
  ReadsAreFaithful
  LimiterIsExact
PROPERTIES
  ImplementsLifecycle
  ImplementsIdeal
  GuardsRecover
