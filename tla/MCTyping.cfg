SPECIFICATION MCSpec
CONSTANTS
  ann = ann
  bob = bob
  i1 = i1
  i2 = i2
  s1 = s1
  s2 = s2
  s3 = s3
  None = None
  Keys = {ann, bob}
  Users = {ann, bob}
  Sockets = {s1, s2, s3}
  UserOf <- SignedIn
  Instances = {i1, i2}
  InstanceOf <- Place
  Skew <- Ahead
  MaxSkew = 1
  Window = 4
  Cost = 2
  Grace = 1
  Ttl = 2
  Throttle = 1
  Debounce = 0
  Idle = 1
  Delay = 0
  MaxNow = 5
  MaxLimiterNow = 10
  MaxFaults = 1
  MaxKeys = 3
  MaxRegained = 3
INVARIANTS
  WithinRate
  TypingEnds
  TypistIsShown
PROPERTIES
  RefusalsEnd
CHECK_DEADLOCK FALSE
