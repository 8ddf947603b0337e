SPECIFICATION FairSpec
CONSTANTS
  t1 = t1
  t2 = t2
  Threads = {t1, t2}
  Loads <- MCLoads
  Contents = {d1, d2}
  None = none
  Origins = {o1}
  DefaultInterval = 2
  BusyInterval = 2
  SlowInterval = 3
  WorstInterval = 3
  QueueDepth = 2
  MaxStall = 1
  MaxShift = 1
  MaxSyncs = 1
INVARIANTS TypeOK SuppressedWasSent HashIsOfLastSent
PROPERTIES OnePerInterval LatestArrives
