SPECIFICATION MCFairSpec
CONSTANTS
  s1 = s1
  s2 = s2
  s3 = s3
  i1 = i1
  i2 = i2
  Sockets = {s1, s2}
  Instances = {i1, i2}
  InstanceOf <- Placed
  TTL = 2
  MaxFaults = 1
  MaxWatches = 2
INVARIANTS
  OfflineIsTrue
  OnlineIsTrue
PROPERTIES
  StayingIsCounted
  GhostsExpire
