\* What each component does again once nothing goes wrong any more.
CONSTANTS
  Starts = {"s1", "s2"}  MaxToggles = 1  MaxCurtainFaults = 1  ConfiguredLimit = 1
  MaxPending = 1  PackLimit = 1  FreshCooldown = 1  MaxCaptureRestarts = 1
  MaxEncoderRestarts = 1  PeriodicKeyframes = FALSE  QueueMaxAge = FALSE  Prompt = TRUE
  MaxFaults = 1  K = 1  MaxInFlight = 2  MaxRecent = 2
  MaxGroups = 2  MaxDone = 2  IdSpace = 8  MaxReorder = 1
  Grace = 1  BatchSize = 2  Cooldown = 1  RebuildAfter = 2
  RingSize = 2  MaxAir = 0  Endless = TRUE  MaxUnits = 2
  MaxUpsets = 1  Hosts = {"h1", "h2"}  Requests = {"read", "write"}  Reads = {"read"}
  Home = "home"  MaxSelections = 1  MaxSockets = 2  Retries = 0
SPECIFICATION FairSpec
PROPERTIES EachSettles
CHECK_DEADLOCK FALSE
