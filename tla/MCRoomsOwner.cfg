SPECIFICATION MCSpec
CONSTANTS
  ann = ann
  bob = bob
  cid = cid
  dan = dan
  s1 = s1
  s2 = s2
  Users = {ann, bob, cid, dan}
  Cap = 3
  Requests = {p1, p2}
  None = None
  Sockets = {s1}
  UserOf <- TwoSockets
  MaxStarts = 2
  MaxConnects = 0
SYMMETRY Symmetry
INVARIANT
  LeaverLeavesAnOwner
CHECK_DEADLOCK FALSE
