SPECIFICATION FairSpec
CONSTANTS
  p1 = p1
  p2 = p2
  h1 = h1
  h2 = h2
  h3 = h3
  NoHandler = NoHandler
  NoDevice = NoDevice
  Devices <- OnePhone
  Handlers <- TwoHandlers
  MaxServers = 1
  UserOps = {"disconnect", "unpair", "stop"}
INVARIANTS
  LiveSessionListed
PROPERTIES
  RequestSpentBySessionEnd
  UnpairEndsSession
  ClosedLinkFreesServer
