SPECIFICATION MCSpec
CONSTANTS
  Threads = {"t1","t2","t3"}
  Seqs <- MCSeqs
  PathOf <- MCPathOf
  Locals <- MCLocals
  Keys <- MCKeys
  Scripts <- MCScripts
  Blocks = {"b1"}
  PoolBlocks = {"p1"}
  MaxEvents = 3
  MaxFaults = 1
  ReplayDepth = 2
  Settings <- MCSettings
  Tasks = {"c1","c2"}
  Urls = {"u1","u2"}
  CallPlans <- MCPlans
  SlotRequests = {"r1","r2"}
  SlotTargets = {"t1","t2"}
  PrefillTokens <- MCTokens
  Sharers = {"body", "producer"}
  Requests = {"r1", "r2"}
  Backends = {"w1"}
  Scenes <- MCScenes
  MaxRetries = 2
  MaxFrames = 2
  MaxMessages = 4
  Wants <- MCWants
  Fronts = {"f1", "f2"}
  Encoders = {"e1", "e2", "e3"}
  FrontOf <- MCFrontOf
  EncModels = {"m1", "m2"}
  TextBytes <- MCTextBytes
  MaxCached = 2
  MaxCachedBytes = 3
  MaxEntryBytes = 3
  EncPlans <- MCEncPlans
  ApiKeys = {"k1", "k2"}
  NoApiKey = ""
  KeyCalls = {"c1", "c2"}
  MaxValidators = 2
  MaxKeyErrors = 1
CHECK_DEADLOCK FALSE
INVARIANTS
  TreeIsExact
  IngestIsCurrent
  HoldersAreExact
  RequestsReleaseOnce
  ReplyIsWellFormed
  EncodeCacheIsExact
  KeyVerdictsAreSound
PROPERTIES
  RetriesStartClean
  RoutingCallsEnd
