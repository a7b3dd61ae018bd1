CONSTANTS
    fast = fast
    full = full
    forced = forced
    N = 3
    Denied = {3}
    Run <- BothSchedules
    Source <- Sources
    ForceReindex <- Forces
    PageSize = 2
    ProbeCap = 1
    MaxAttempts = 1
    MaxFaults = 1
SPECIFICATION FairSpec
PROPERTIES
    Discovered
    Indexed
