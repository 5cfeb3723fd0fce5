SPECIFICATION MCSpec
CONSTANTS
  LedgerTargets = {"t1"}
  LedgerPrograms = {"p1","p2"}
  LedgerTokens <- MCTokens
  Scrapes <- MCScrapes
  Nowhere = "none"
  MaxRevision = 2
  MaxDrift = 1
  MaxInFlight = 1
  Agents = {"a", "b", "c", "d"}
  Pools = {"m", "all"}
  Homes = {1, 2}
  Bound <- MCBound
  KeyHash <- MCKeyHash
  Points <- MCPoints
  NoHome = 0
  Unseen = 99
  MaxTurn = 3
  Requests = {"r1", "r2"}
  ListOf <- MCListOf
  Position <- MCPosition
  KeyAt = 12
  Turn = 100
  Tenants = {ta, tb}
  Texts <- MCTexts
  NoTenant = none
  MaxTreeSize = 2
  MaxEpoch = 4
  MaxMatches = 1
  Overlap = FALSE
SYMMETRY TenantSymmetry
CHECK_DEADLOCK FALSE
INVARIANTS
  LedgerIsExact
  RadixTreeIsSound
  HomesAreLive
PROPERTIES
  StepsKeepPlacements
