CONSTANTS
    fast = fast
    full = full
    forced = forced
    N = 2
    Denied = {2}
    Run <- Everybody
    Source <- Sources
    ForceReindex <- Forces
    PageSize = 1
    ProbeCap = 1
    MaxAttempts = 2
    MaxFaults = 1
SPECIFICATION Spec
INVARIANTS
    TypeOK
    NewWasNotThere
    MetadataAddsNoGhost
    RowsAreIndexed
PROPERTY
    OrderKept
