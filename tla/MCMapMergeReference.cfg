SPECIFICATION Spec
CONSTANTS
  Robots = {1, 2}
  MapWidth = 1
  MapHeight = 1
  FullMaps <- MCFullMaps
  Updates <- MCUpdates
  KnownModes = {TRUE}
  InitPoses <- DeployedPoses
  Messages <- MCMessages
INVARIANT ReferenceHasGrid
CHECK_DEADLOCK FALSE
