SPECIFICATION Spec
CONSTANTS
  Sockets <- MCSockets
  NoSocket = 0
  Name <- MCName
  MaxSessions = 2
  MaxClicks = 1
INVARIANTS
  FlagHeldByOne
  SocketsOwned
  PairingHasOwner
CHECK_DEADLOCK FALSE
