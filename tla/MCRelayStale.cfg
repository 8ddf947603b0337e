SPECIFICATION FairSpec
CONSTANTS
  t1 = t1
  t2 = t2
  Threads = {t1, t2}
  Loads <- AsLaunched
  Contents = {d1, d2}
  None = none
  Origins = {o1}
  DefaultInterval = 1
  BusyInterval = 1
  SlowInterval = 2
  WorstInterval = 2
  QueueDepth = 2
  MaxStall = 1
  MaxShift = 0
  MaxSyncs = 0
PROPERTY ChangedMapIsSent
