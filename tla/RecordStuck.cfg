CONSTANTS
    fast = fast
    full = full
    forced = forced
    N = 2
    NotFound = {}
    Run = {fast}
    Forced = {}
    MaxPolls = 1
    MaxFaults = 2
SPECIFICATION FairSpec
PROPERTIES
    ChildEnds
