SPECIFICATION MCFairSpec
CONSTANTS
  Users = {ann, bob, cid}
  Calls = {c1, c2}
  Procs = {p1, p2}
  None = None
  MaxStarts = 5
INVARIANTS
  NoOrphanSlot
  RefusedLeavesNothing
  LogMatchesHistory
PROPERTIES
  InviteAnswered
  ReleasedSettles
