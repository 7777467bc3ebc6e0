SPECIFICATION MCSpec
CONSTANTS
    c1 = c1
    c2 = c2
    r1 = r1
    g1 = g1
    Threads = {t1, t2}
    NoThread = NoThread
    Commitments = {c1, c2}
    Runs = {r1}
    Grants = {g1}
    DoorRuns = {r1}
    FileActions = {c1, c2}
    R2Actions = {c2}
    RunOf <- OneRun
    GrantOf <- OneGrant
    Lapsing = {c2, g1}
    Capacity = 1
    MaxGen = 1
SYMMETRY Symmetry
INVARIANTS EndsOnce NothingIsLost
PROPERTIES EndsAreFinal
