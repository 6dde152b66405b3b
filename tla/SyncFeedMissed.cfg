CONSTANTS
  d1 = d1
  d2 = d2
  hub = hub
  HubId = hub
  Device = {d1, d2}
  Writer <- MCWriter
  Op = {1}
  Faults = {}
  Settled = {d1, d2}
  PageSize = 2
  MaxAuthored <- OneEach
  MaxHubWrites = 1
  MaxLosses = 0
SPECIFICATION FeedSpec
INVARIANT NothingMissed
CHECK_DEADLOCK FALSE
