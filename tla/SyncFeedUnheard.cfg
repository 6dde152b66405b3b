CONSTANTS
  d1 = d1
  d2 = d2
  hub = hub
  HubId = hub
  Device = {d1, d2}
  Writer <- MCWriter
  Op = {1}
  Faults = {}
  Settled = {}
  PageSize = 2
  MaxAuthored <- OneEach
  MaxHubWrites = 2
  MaxLosses = 0
SPECIFICATION FeedSpec
INVARIANT HubWritesAreJournaled
CHECK_DEADLOCK FALSE
