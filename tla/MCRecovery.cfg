SPECIFICATION MCSpec
CONSTANTS
    Hashes = {h1, h2}
    NoHash = NoHash
    MaxEffects = 2
    MaxMissions = 1
    Calls = {c1}
    Opener = Opener
    NoCall = NoCall
    MayRevise = TRUE
    MaxFaults = 2
    Scopes = {"budget"}
SYMMETRY Symmetry
INVARIANTS RestartsAreSafe ConsentFirst
PROPERTIES LostStopRunsNothing PromiseKept
CHECK_DEADLOCK FALSE
