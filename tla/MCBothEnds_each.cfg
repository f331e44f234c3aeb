\* Every protocol between the two ends by itself.
CONSTANTS
  WordBits = 2  Words = 2  Starts = {1, 5}  MaxFrames = 3
  MaxChallenges = 2  BacklogCap = 2  Hosts = {"h1", "h2"}  Requests = {"read", "write"}
  Reads = {"read"}  Home = "home"  MaxSelections = 2  MaxSockets = 2
  Retries = 0  MaxFaults = 1  MaxEpoch = 4  MaxPresses = 1
  MaxQueue = 1  MaxInFlight = 1
SPECIFICATION Spec
INVARIANTS DatagramsOpenOnce RequestsKeepTheirHost NoInputIsStranded
PROPERTIES EachStep
CHECK_DEADLOCK FALSE
