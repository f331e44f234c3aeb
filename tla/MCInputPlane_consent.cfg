\* Every kind of input, while the operator toggles input and stops the session.
\* The bounds let every run end: the system may stop.
SPECIFICATION Spec
CONSTANTS
    Keys = {k1}
    NoKey = NoKey
    MaxQueue = 1
    MaxAttempts = 2
    MaxTextAttempts = 3
    Typed = {"lang", "text"}
    MaxPushes = 2
    MaxMoves = 2
    MaxReleases = 0
    MaxChallenges = 1
    MaxFaults = 1
    MaxToggles = 1
    MaxStops = 1
    MaxSeq = 3
CHECK_DEADLOCK FALSE
INVARIANTS HeldOnlyUnderConsent
PROPERTIES PointerNeverGoesBack
