CONSTANTS
  d1 = d1
  d2 = d2
  hub = hub
  HubId = hub
  Device = {d1, d2}
  Writer <- MCWriter
  Op = {1}
  Faults <- AllFaults
  Settled = {d1}
  PageSize = 2
  MaxAuthored <- OneEach
  MaxHubWrites = 1
  MaxLosses = 1
SPECIFICATION FeedSpec
INVARIANTS TypeOK MissesExplained FollowersHoldHistory NoEcho
PROPERTIES AppliesInOrder ImplementsSharedLog
CHECK_DEADLOCK FALSE
