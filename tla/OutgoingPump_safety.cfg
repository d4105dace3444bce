SPECIFICATION Spec
CONSTANTS
  p1 = p1
  p2 = p2
  FamilyOrder <- OneFamily
  FileFamily = "file"
  FileMayVanish = TRUE
  JoinMayTimeOut = TRUE
  Pumps <- TwoPumps
  MaxCommands = 2
  MaxSpare = 0
  MaxServers = 2
SYMMETRY Symmetry
INVARIANTS
  SentInOrder
CHECK_DEADLOCK FALSE
