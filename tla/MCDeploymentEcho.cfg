SPECIFICATION Spec
CONSTANTS
  Robots = {"ausra_1", "ausra_2", "ausra_3"}
  Maps <- MCMaps
  Setups <- AsLaunched
  MaxMishaps = 0
INVARIANTS OnlyItsRobot
CHECK_DEADLOCK FALSE
