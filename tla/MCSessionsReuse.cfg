SPECIFICATION MCReliableSpec
CONSTANTS
  tab1 = tab1
  tab2 = tab2
  jar1 = jar1
  Tabs = {tab1, tab2}
  Browsers = {jar1}
  Jar <- SharedJar
  Requests = {p1, p2, p3}
  Tokens = {t1, t2, t3, t4}
  Families = {f1}
  None = None
  MaxStarts = 5
SYMMETRY Symmetry
INVARIANT
  ReuseEndsSession
CHECK_DEADLOCK FALSE
