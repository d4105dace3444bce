SPECIFICATION FairSpec
CONSTANTS
  l1 = l1
  l2 = l2
  l3 = l3
  w1 = w1
  w2 = w2
  NoListener = NoListener
  NoNetwork = NoNetwork
  Listeners <- TwoListeners
  Networks <- TwoNetworks
  MaxFailures = 2
  MaxRetries = 1
INVARIANTS
  NoOrphanScan
PROPERTIES
  EverythingReleased
  RestartLeadsToScan
CHECK_DEADLOCK FALSE
