\* Sessions of a device against two operators, failed writes, a shutdown, a
\* crash and a restart.
\* A host that is down and may not fail again: the system may stop.
SPECIFICATION FairSpec
CONSTANTS
    Owners = {o1}
    Sources = {s1, s2}
    Leases = {l1}
    Admins = {a1, a2}
    MaxInFlight = 1
    MaxChanges = 3
    MaxFaults = 1
    MaxCrashes = 1
CHECK_DEADLOCK FALSE
INVARIANTS TypeOK LeasesFollowGrants RemovalDrains CleanOnlyWhenQuiet DecisionsSurvive
PROPERTIES OperationsReturn
