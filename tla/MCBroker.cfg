SPECIFICATION MCSpec
CONSTANTS
    Top = 14
    MaxDuration = 3
    FirstWall = 2
    LastWall = 4
    MaxReal = 4
    MaxSets = 2
    MaxRestarts = 1
    g1 = g1
    g2 = g2
    r1 = r1
    r2 = r2
    q1 = q1
    q2 = q2
    owner = owner
    c1 = c1
    c2 = c2
    none = none
SYMMETRY Symmetry
INVARIANTS BudgetHolds DoorsHold StoreHolds
PROPERTIES ShutStaysShut
CHECK_DEADLOCK FALSE
