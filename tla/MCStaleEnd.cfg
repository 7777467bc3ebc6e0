SPECIFICATION MCSpec
CONSTANTS
    Hashes = {h1}
    NoHash = NoHash
    MaxEffects = 1
    MaxMissions = 1
    Calls = {c1, c2}
    Opener = Opener
    NoCall = NoCall
    MayRevise = TRUE
    MaxFaults = 0
    Scopes = {"calls"}
SYMMETRY Symmetry
PROPERTIES
    UnsettledOnlyStops
CHECK_DEADLOCK FALSE
