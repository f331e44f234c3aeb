\* Losses, give-ups, language switches and toggles come to rest.
\* The bounds let every run end: the system may stop.
SPECIFICATION FairSpec
CONSTANTS
    Keys = {k1}
    NoKey = NoKey
    MaxQueue = 2
    MaxAttempts = 2
    MaxTextAttempts = 2
    Typed = {"lang", "scroll"}
    MaxPushes = 2
    MaxMoves = 0
    MaxReleases = 1
    MaxChallenges = 1
    MaxFaults = 1
    MaxToggles = 1
    MaxStops = 0
    MaxSeq = 5
CHECK_DEADLOCK FALSE
PROPERTIES NoStuckKey
