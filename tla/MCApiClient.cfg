SPECIFICATION MCSpec
CONSTANTS
  tab1 = tab1
  jar1 = jar1
  f3 = f3
  ann = ann
  bob = bob
  None = None
  Unknown = Unknown
  Tabs = {tab1}
  Browsers = {jar1}
  Jar <- MCJar
  Users = {ann, bob}
  Families = {f1, f2, f3}
  Owner <- MCOwner
  Requests = {p1, p2}
  Tokens = {t1, t2, t3, t4}
  Fetches = {k1, k2}
  MaxStarts = 5
  MaxAge = 2
SYMMETRY Symmetry
INVARIANTS
  CookieIsUsable
  TabIsOneUser
  NobodyWaitsInVain
PROPERTIES
  StaysSignedIn
CHECK_DEADLOCK FALSE
