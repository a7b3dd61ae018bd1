CONSTANTS
    fast = fast
    full = full
    forced = forced
    N = 2
    NotFound = {}
    Run = {fast, full}
    Forced = {}
    MaxPolls = 1
    MaxFaults = 0
SPECIFICATION FairSpec
PROPERTIES
    PendingRetried
