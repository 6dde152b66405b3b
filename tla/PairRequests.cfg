CONSTANTS
  a1 = a1
  a2 = a2
  x1 = x1
  x2 = x2
  x3 = x3
  Asker = {a1}
  Address = {x1, x2}
  None = None
  Hosts = 2
  Ttl = 1
  MaxPending = 2
  MaxPerAddress = 1
  MaxIds = 3
  MaxClock = 3
  MaxMishaps = 1
SPECIFICATION FairSpec
INVARIANTS TypeOK MintedOnce NothingMislaid PendingBounded
PROPERTY FollowEnds
CHECK_DEADLOCK FALSE
