SPECIFICATION PdSpec
CONSTANTS
  PdRequests = {"r1", "r2"}
  PdScenes <- MCPdScenes
  MaxEngines = 2
  PdCalls = {"a", "b"}
  PdHosts = {"h"}
  MaxRanks = 2
  Instances = {"i", "j"}
  PingSeconds = 1
  MoriIO = TRUE
  Announcements <- MCAnnouncements
  PodNames = {"p", "q", "r"}
  PodIps = {1, 2}
  PodLabels <- MCPodLabels
  NoRole = "none"
  MaxPodEvents = 2
CHECK_DEADLOCK FALSE
INVARIANTS
  PdIsConsistent
  OneTransferMode
  TrackingMatchesTheRouter
PROPERTIES
  ModeComesFromAnInstance
  PdSettles
