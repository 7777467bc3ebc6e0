SPECIFICATION MCFairSpec
CONSTANTS
  MaxStops = 2
  t1 = t1
  t2 = t2
  none = none
  c1 = c1
  r1 = r1
  g1 = g1
  m1 = m1
  s1 = s1
INVARIANTS ChildIsAccountedFor
PROPERTIES BegunEnds StopsTakeEffect
CHECK_DEADLOCK FALSE
