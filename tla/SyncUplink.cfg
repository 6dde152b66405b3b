CONSTANTS
  m1 = m1
  m2 = m2
  p1 = p1
  p2 = p2
  d1 = d1
  d2 = d2
  hub = hub
  HubId = hub
  NoDevice = NoDevice
  NoProc = NoProc
  Writer <- TwoWriters
  Machine <- TwoMachines
  Device = {d1, d2}
  Proc = {p1, p2}
  Home <- MCHome
  Op = {1, 2}
  Knows <- Builds
  Faults <- AllFaults
  KeepTail = 1
  MaxWrites <- Quota
  MaxHubWrites = 1
  MaxLosses = 1
SYMMETRY Alike
SPECIFICATION UplinkSpec
INVARIANTS TypeOK WatermarkIsJournal HistoriesAgree OpenOnlyInHand InStep
PROPERTIES HistoryIsFinal ImplementsSharedLog
CHECK_DEADLOCK FALSE
