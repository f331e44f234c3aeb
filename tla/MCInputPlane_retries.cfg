\* Losses, early retries and give-ups between one viewer and one host.
\* The bounds let every run end: the system may stop.
SPECIFICATION Spec
CONSTANTS
    Keys = {k1}
    NoKey = NoKey
    MaxQueue = 1
    MaxAttempts = 2
    MaxTextAttempts = 2
    Typed = {}
    MaxPushes = 3
    MaxMoves = 0
    MaxReleases = 1
    MaxChallenges = 1
    MaxFaults = 2
    MaxToggles = 0
    MaxStops = 0
    MaxSeq = 4
CHECK_DEADLOCK FALSE
INVARIANTS TypeOK AckedIsExecuted
PROPERTIES DeliveryInOrder ReleaseSparesNewerInput
