SPECIFICATION MCFairSpec
CONSTANTS
    Hashes = {h1}
    NoHash = NoHash
    MaxEffects = 1
    MaxMissions = 1
    Calls = {c1, c2}
    Opener = Opener
    NoCall = NoCall
    MayRevise = FALSE
    MaxFaults = 1
    Scopes = {"stop", "open"}
PROPERTIES StopReturns OpeningEnds
CHECK_DEADLOCK FALSE
