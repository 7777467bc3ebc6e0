SPECIFICATION MCSpec
CONSTANTS
    Hashes = {h1}
    NoHash = NoHash
    MaxEffects = 1
    MaxMissions = 2
    Calls = {c1, c2}
    Opener = Opener
    NoCall = NoCall
    MayRevise = FALSE
    MaxFaults = 1
    Scopes = {"calls", "missions"}
SYMMETRY Symmetry
INVARIANTS TypeOK JournalAccepted MemoryIsJournal ToldIsDurable NothingForgotten
PROPERTIES NothingStartsWrongly
CHECK_DEADLOCK FALSE
