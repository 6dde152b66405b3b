CONSTANTS
  d1 = d1
  d2 = d2
  hub = hub
  HubId = hub
  Device = {d1, d2}
  Writer <- MCWriter
  Op = {1, 2}
  Faults <- AllFaults
  Settled = {d2}
  PageSize = 2
  MaxAuthored <- OnlySecond
  MaxHubWrites = 1
  MaxLosses = 1
SPECIFICATION FairFeedSpec
PROPERTIES FollowersCatchUp MindsConverge
CHECK_DEADLOCK FALSE
