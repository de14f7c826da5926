SPECIFICATION MCSpec
CONSTANTS
  a = a
  b = b
  a1 = a1
  b1 = b1
  b2 = b2
  None = None
  Users <- MCUsers
  Tabs <- MCTabs
  UserOf <- MCUserOf
  Calls = {c1, c2}
  Streams = {s1, s2, s3}
  Jobs = {k1, k2, k3, k4}
  MaxEvents = 3
SYMMETRY Symmetry
INVARIANTS
  MicrophoneFollowsTheCall
  
  RingingIsHeard
  BothSidesTalk
CHECK_DEADLOCK FALSE
