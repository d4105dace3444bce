SPECIFICATION ScreensSpec
CONSTANTS
  Phones = {"p"}
  NoPhone = "nophone"
  Wifis = {"w", "v"}
  NoWifi = "nowifi"
  MaxActs = 5
  Texts = {"a", "b"}
  NoText = "notext"
  Paths = {"/", "/x"}
  NoPath = "nopath"
  MaxRequests = 3
  MaxLinks = 1
  Posts = {"m", "n"}
  Contents = {"x", "y"}
  CallTexts = {"ring"}
  IdleText = "idle"
  HistoryCap = 1
  CallCap = 1
  CallWindow = 1
  MaxPosted = 2
  MaxSinks = 2
  MaxFrames = 2
  QueueSize = 1
  MaxRetries = 1
  MaxShots = 1
  MaxFaults = 1
INVARIANTS
  CardsFollowDevices
  RowsFollowRecords
  ClosedPopupLeavesNothing
  NewestFrameKept
PROPERTIES
  UnpairedIsShown
  AnswersAreShown
CHECK_DEADLOCK FALSE
