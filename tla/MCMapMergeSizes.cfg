SPECIFICATION Spec
CONSTANTS
  Robots = {1, 2}
  MapWidth = 1
  MapHeight = 1
  FullMaps <- MCFullMaps
  Updates <- MCUpdates
  KnownModes = {FALSE}
  InitPoses <- DeployedPoses
  Messages <- MCMessages
INVARIANT OneTransformPerImage
CHECK_DEADLOCK FALSE
