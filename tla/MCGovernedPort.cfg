SPECIFICATION MCSpec
CONSTANTS
  m1 = m1
  m2 = m2
  Missions = {m1, m2}
  Stoppers = {s1}
  Survivors = {m1}
  LastEffect = 2
  MaxFaults = 2
INVARIANTS NothingSlipsAway
PROPERTIES NothingStartsLate
CHECK_DEADLOCK FALSE
