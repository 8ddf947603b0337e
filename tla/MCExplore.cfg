SPECIFICATION FairSpec
CONSTANTS
  Places <- MCPlaces
  Origin <- MCOrigin
  Same <- MCSame
  Near <- MCNear
  MaxFar = 190
  Views <- MCViews
  Home = Home
  None = None
  MaxChanges = 2
  MaxResumes = 1
  MaxStops = 1
  MaxEvents = 3
INVARIANTS TypeOK WrittenOffWasTried TimesItsGoal
PROPERTIES ExplorationEnds ComesToRest
CHECK_DEADLOCK FALSE
