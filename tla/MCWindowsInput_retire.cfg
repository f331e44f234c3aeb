\* Toggles, retirement and revocation against a thread in the middle of an event.
\* A session ends: the system may stop.
SPECIFICATION FairSpec
CONSTANTS
    Keys = {k1}
    Buttons = {b1}
    SideButtons = {}
    MaxEvents = 2
    MaxToggles = 2
    MaxLosses = 1
    MaxFailures = 1
CHECK_DEADLOCK FALSE
INVARIANTS TypeOK RetirementReleases
PROPERTIES DrainedMeansQuiet BadgeSettles
