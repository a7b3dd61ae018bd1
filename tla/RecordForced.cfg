CONSTANTS
    fast = fast
    full = full
    forced = forced
    N = 2
    NotFound = {2}
    Run = {fast, forced}
    Forced = {forced}
    MaxPolls = 1
    MaxFaults = 1
SPECIFICATION FairSpec
PROPERTIES
    EventuallyEnriched
    EventuallyChangelog
    RunEnds
