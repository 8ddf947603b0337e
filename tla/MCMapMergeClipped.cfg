SPECIFICATION Spec
CONSTANTS
  Robots = {1, 2}
  MapWidth = 2
  MapHeight = 2
  FullMaps <- MCFullMaps
  Updates <- HangingUpdates
  KnownModes = {TRUE}
  InitPoses <- DeployedPoses
  Messages <- MCMessages
PROPERTY PartFits
CHECK_DEADLOCK FALSE
