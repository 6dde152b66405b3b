CONSTANTS
  m1 = m1
  p1 = p1
  p2 = p2
  d1 = d1
  hub = hub
  HubId = hub
  NoDevice = NoDevice
  NoProc = NoProc
  Writer <- OneWriter
  Machine = {m1}
  Device = {d1}
  Proc = {p1, p2}
  Home <- MCHome
  Proxy <- MCProxy
  Op = {1, 2}
  Knows <- AllOps
  Faults <- AllFaults
  KeepTail = 1
  MaxWrites <- Quota
  MaxHubWrites = 0
  MaxLosses = 1
SPECIFICATION FairPulseSpec
INVARIANTS PulseTypeOK SentIsJournaled AnswersMatchCalls SentInOrder
PROPERTIES ImplementsUplink PulseDrains
