SPECIFICATION FairSpec
CONSTANTS
  Transfers = {t1, t2}
  NoTransfer = NoTransfer
  Names = {n1}
  Contents <- MCContents
  NoContent = NoContent
  Capacity = 3
  MaxSessions = 2
  MaxEdits = 1
INVARIANTS
  NoFalseRefusal
PROPERTIES
  NoOldFileReplaced
  DeliversOrRefuses
CHECK_DEADLOCK FALSE
