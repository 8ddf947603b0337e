SPECIFICATION FairSpec
CONSTANTS
  Robots = {"ausra_1", "ausra_2", "ausra_3"}
  Maps <- MCMaps
  Setups <- MCSetups
  MaxMishaps = 1
INVARIANTS TypeOK OnlyItsRobot
PROPERTIES NothingGoesBack ShowsWhatIsExpected
