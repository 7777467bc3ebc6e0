SPECIFICATION MCSpec
CONSTANTS
  Threads = {t1, t2}
  Work = {w1}
  Runs = {r1}
  LastNumber = 1
  MaxStops = 2
  MaxResumes = 2
  h1 = h1
  h2 = h2
  h3 = h3
  h4 = h4
  a1 = a1
  a2 = a2
SYMMETRY Symmetry
INVARIANTS StopsStand HaltsAreAccountedFor CallsAreAccountedFor
PROPERTIES LiftsAreRight
CHECK_DEADLOCK FALSE
