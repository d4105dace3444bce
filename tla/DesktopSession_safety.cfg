SPECIFICATION Spec
CONSTANTS
  p1 = p1
  p2 = p2
  h1 = h1
  h2 = h2
  h3 = h3
  NoHandler = NoHandler
  NoDevice = NoDevice
  Devices <- TwoPhones
  Handlers <- TwoHandlers
  MaxServers = 2
  UserOps <- AllUserOps
SYMMETRY Symmetry
INVARIANTS
  TypeOK
  RegistryNamesHolder
  OneSessionPerServer
  ActiveHasSession
PROPERTIES
  CloseErasesOwnEntry
