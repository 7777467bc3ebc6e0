SPECIFICATION MCSpec
CONSTANTS
  Stoppers = {s1, s2}
  Halts = {"time"}
  MaxEffects = 2
  MaxFaults = 1
  MaxCrashes = 1
INVARIANTS JournalAgrees SettledTruly
SYMMETRY Symmetry
CHECK_DEADLOCK FALSE
