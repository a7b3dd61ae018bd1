CONSTANTS
    fast = fast
    full = full
    forced = forced
    N = 3
    NotFound = {3}
    Run = {fast, full}
    Forced = {}
    MaxPolls = 1
    MaxFaults = 0
SPECIFICATION Spec
INVARIANTS
    TypeOK
    Settled
PROPERTIES
    CommitKept
