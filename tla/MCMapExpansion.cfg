SPECIFICATION FairSpec
CONSTANTS
  Width = 3
  Height = 2
  Resolution = 2
  CanvasX <- MCOrigin
  CanvasY <- MCOrigin
  OffsetX = 0
  OffsetY = 0
  Frames = {"map", "odom"}
  Scans <- MCScans
  OutputFrames = {"", "world"}
  Overlaps = {TRUE, FALSE}
INVARIANTS TypeOK PartialResetIsFull CanvasIsLastScan DataUnderItsFrame
PROPERTIES KeepsPromise AcceptedIsBroadcast
