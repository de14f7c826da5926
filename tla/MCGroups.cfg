SPECIFICATION GroupsMCSpec
CONSTANTS
  ann = ann
  bob = bob
  cid = cid
  dan = dan
  s1 = s1
  s2 = s2
  Users = {ann, bob, cid, dan}
  Cap = 3
  Requests = {p1, p2}
  None = None
  Sockets = {s1, s2}
  UserOf <- TwoSockets
  MaxStarts = 3
  MaxConnects = 2
  MaxPresses = 2
  MaxQueries = 1
  MaxVisits = 1
  MaxReconnects = 1
  MaxFaults = 1
SYMMETRY GroupsSymmetry
INVARIANTS
  OneOwnerWhenSerial
  WithinCapWhenSerial
  NoMemberMissesRoom
  RemovedHearNothing
  ListIsTrue
  PanelIsTrue
CHECK_DEADLOCK FALSE
