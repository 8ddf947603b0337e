SPECIFICATION FairSpec
CONSTANTS
  Robots = {"ausra_1", "ausra_2"}
  Ignorable = {"", "ausra_2"}
  Threads = {"t1", "t2"}
  Pools <- MCPools
  Maps <- MCMaps
  NotJson = NotJson
  Incomplete = Incomplete
  NotZlib = NotZlib
  Broken <- MCBroken
  Messages <- MCMessages
  MaxRestarts = 1
  QueueDepth = 2
INVARIANTS TypeOK RestoredIsPacked OvertakenOnlyByOverlap
PROPERTIES KeepsPromise LastIsRestored
CHECK_DEADLOCK FALSE
