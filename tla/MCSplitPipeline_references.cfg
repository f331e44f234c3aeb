\* The same stream with neither failures nor requests.
CONSTANTS
  InFlight = 2  CaptureLimit = 1  SoftExpiries = 1
  MaxCaptures = 3  MaxRequests = 0  MaxExpiries = 1  MaxFaults = 0  MaxDisturbances = 1
SPECIFICATION Spec
INVARIANTS UnsentReferenceInvalidates
CHECK_DEADLOCK FALSE
