SPECIFICATION MCSpec
CONSTANTS
  ann = ann
  bob = bob
  cara = cara
  a1 = a1
  a2 = a2
  b1 = b1
  c1 = c1
  None = None
  Users = {ann, bob, cara}
  Tabs = {a1, a2, b1}
  UserOf <- SignedIn
  Convs = {c1, c2}
  Procs = {p1, p2}
  MaxAsks = 3
  MaxVisits = 2
  MaxLog = 2
  MaxFaults = 1
SYMMETRY Symmetry
INVARIANTS
  OneConversation
  EveryoneListsIt
  BadgeIsHonest
  SeenIsTrue
CHECK_DEADLOCK FALSE
