SPECIFICATION MCSpec
CONSTANTS
  ann = ann
  bob = bob
  m1 = m1
  m2 = m2
  tabA = tabA
  tabB = tabB
  Users = {ann, bob}
  Msgs = {m1, m2}
  AuthorOf <- Author
  Bodies = {0, 1}
  Draft = 0
  Procs = {p1, p2}
  None = None
  Clients = {tabA, tabB}
  UserOf <- SignedIn
  HomeOf <- Home
  PageSize = 1
  MaxStarts = 3
  MaxFetches = 2
  MaxDrops = 1
  MaxFaults = 1
INVARIANTS
  StoredOnce
  HistoryIsTheLog
  ShownAsStored
  OutboxIsHonest
CHECK_DEADLOCK FALSE
