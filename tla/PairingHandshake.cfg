SPECIFICATION FairSpec
CONSTANTS
  Phones = {p1, p2}
  Conns <- MCConns
  NoConn = NoConn
  NoAnswer = NoAnswer
  MaxLost = 1
  MaxForgets = 1
INVARIANTS
  EndsAgree
PROPERTIES
  TrustNeedsItsCode
  QueuedEnds
CHECK_DEADLOCK FALSE
