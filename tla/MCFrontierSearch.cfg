SPECIFICATION FairSpec
CONSTANTS
  Calls <- MCCalls
  MinSize = 2
  Potential = 3
  Gain = 1
  Fine = 10
INVARIANTS TypeOK SearchFindsEdges
PROPERTIES WorkShrinks SearchEnds
CHECK_DEADLOCK FALSE
