SPECIFICATION MCFaultySpec
CONSTANTS
  Users = {ann, bob}
  Calls = {c1, c2}
  Procs = {p1, p2, p3}
  None = None
  MaxStarts = 5
SYMMETRY Symmetry
PROPERTIES
  SlotFreedOnlyByItsCall
  ImplementsTelephony
