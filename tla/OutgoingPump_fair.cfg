SPECIFICATION FairSpec
CONSTANTS
  p1 = p1
  p2 = p2
  FamilyOrder <- TwoFamilies
  FileFamily = "file"
  FileMayVanish = FALSE
  JoinMayTimeOut = FALSE
  Pumps <- OnePump
  MaxCommands = 3
  MaxSpare = 1
  MaxServers = 1
INVARIANTS
  NoLostWakeup
PROPERTIES
  CommandIsTaken
  StoppedPumpEnds
CHECK_DEADLOCK FALSE
