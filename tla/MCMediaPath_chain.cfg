\* Each end of the media path by itself, without timing assumptions.
CONSTANTS
  ConfiguredLimit = 2  MaxPending = 1  PackLimit = 1  FreshCooldown = 1
  MaxCaptureRestarts = 0  MaxEncoderRestarts = 1  PeriodicKeyframes = FALSE  QueueMaxAge = FALSE
  Prompt = FALSE  MaxFaults = 1  K = 2  MaxInFlight = 2
  MaxRecent = 2  MaxGroups = 2  MaxDone = 2  IdSpace = 16
  MaxReorder = 2  Grace = 1  BatchSize = 2  Cooldown = 1
  RebuildAfter = 2  RingSize = 2  MaxAir = 0  Endless = FALSE
  MaxUnits = 4  MaxUpsets = 1  InFlight = 2  CaptureLimit = 1
  SoftExpiries = 1  MaxCaptures = 3  MaxRequests = 1  MaxExpiries = 2
  MaxDisturbances = 3
SPECIFICATION Spec
INVARIANTS SlotsAndBoundariesHold PendingIsBounded PairsFollowTheirReference
PROPERTIES FeedSpec ReservedOnce
CHECK_DEADLOCK FALSE
