CONSTANTS
    v1 = v1
    v2 = v2
    v3 = v3
    v4 = v4
    Versions <- FourVersions
    PageSize = 3
    WindowSize = 2
    MaxAttempts = 2
    Handover = {"slice", "offset"}
SPECIFICATION FairSpec
INVARIANTS
    TypeOK
    WindowRespected
    ProgressExact
    NoLostCompletion
    CompletedAccountsForAll
PROPERTIES
    HandedOutOnce
    ImplementsPromise
