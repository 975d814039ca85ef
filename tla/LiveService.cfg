\* A service and its predecessor, two undelivered starts.
CONSTANTS
  Instances = {i1, i2}
  None = None
  MaxQueue = 2
SPECIFICATION FairSpec
INVARIANTS
  ServiceInvariant
  AdvertisedLoopIsLive
PROPERTIES
  StopTakesEffect
