CONSTANTS
  m1 = m1
  m2 = m2
  p1 = p1
  p2 = p2
  d1 = d1
  d2 = d2
  hub = hub
  HubId = hub
  NoDevice = NoDevice
  NoProc = NoProc
  Writer <- OneWriter
  Machine = {m1}
  Device = {d1, d2}
  Proc = {p1}
  Home <- MCHome
  Op = {1}
  Knows <- Builds
  Faults <- AllFaults
  KeepTail = 1
  MaxWrites <- Quota
  MaxHubWrites = 0
  MaxLosses = 0
SPECIFICATION FairUplinkSpec
PROPERTY OutboxDrains
CHECK_DEADLOCK FALSE
