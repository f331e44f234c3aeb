\* Sharing ends in every way, from a direction or on the way to one.
SPECIFICATION FairSpec
CONSTANTS
    MaxEpoch = 2
    MaxPresses = 1
    MaxQueue = 1
    MaxInFlight = 1
    MaxFaults = 1
CHECK_DEADLOCK FALSE
PROPERTIES FailsClosed
