\* Every service of the host by itself.
CONSTANTS
  Devices = {d1, d2}  Names = {"", "pad"}  NoName = ""  Views = {v1}
  Legacy = {}  MaxOffers = 2  MaxCreds = 2  MaxCrashes = 1
  MaxConns = 1  KmDevices = {"k1"}  Conns = {cn1}  MaxGen = 2
  MaxSessions = 2  MaxStarts = 2  MaxStops = 2  MaxConsents = 2
  Credentials = {"c1", "c2"}  Tokens = {1, 2}  Size = 3  Chunk = 2
  MaxIncoming = 1  MaxOutgoing = 1  MaxRestarts = 1  Starts = {"s1", "s2"}
  MaxToggles = 2  MaxCurtainFaults = 1
SPECIFICATION Spec
SYMMETRY Symmetry
INVARIANTS PairingsAreDurable StopsReachTheirSession SharingIsConsented TransfersAreAccounted CurtainIsNotStreamedApart
PROPERTIES EachStep
CHECK_DEADLOCK FALSE
