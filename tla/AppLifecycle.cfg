SPECIFICATION Spec
CONSTANTS
  Guis = {g1, g2}
  Checks = {k1, k2}
  MaxFailures = 1
  Service = service
  Nobody = Nobody
INVARIANTS
  AdvertisedMeansListening
PROPERTIES
  ServiceComesBack
  SkippedStaysSkipped
CHECK_DEADLOCK FALSE
