SPECIFICATION Spec
CONSTANTS
  Popups <- MCPopups
  MaxStreams = 2
  MaxAcks = 1
  MaxSent = 0
  MaxReports = 1
  MaxDrops = 1
  None = None
INVARIANTS
  FrameReachesRequester
PROPERTIES
  OldStopSparesNewStream
  RevokedStreamEnds
CHECK_DEADLOCK FALSE
