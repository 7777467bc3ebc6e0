SPECIFICATION Spec
CONSTANTS
    Hashes = {h1, h2}
    NoHash = NoHash
    MaxEffects = 2
    MaxMissions = 1
INVARIANTS
    ReplayTypeOK
    ReplayedConsent
    HeldIsQuiet
    AskedIsAwaited
PROPERTIES
    EndIsFinal
    AcceptedKeepsPromise
CHECK_DEADLOCK FALSE
