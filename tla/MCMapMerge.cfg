SPECIFICATION FairSpec
CONSTANTS
  Robots = {1, 2}
  MapWidth = 1
  MapHeight = 1
  FullMaps <- MCFullMaps
  Updates <- MCUpdates
  KnownModes = {TRUE, FALSE}
  InitPoses <- MCInitPoses
  Messages <- MCMessages
INVARIANTS TypeOK PoseOfItsRobot EachModeFailsItsWay
PROPERTIES NeverOlder MergedNeverGoesBack HeldIsMerged
CHECK_DEADLOCK FALSE
