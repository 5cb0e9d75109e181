CONSTANTS
    NJobs = 11
    Lasts <- CacheThenProgram
    max_threads = 4
    MayFail <- Anything
SPECIFICATION FairSpec
INVARIANTS
    SlotsCounted
    LinksComplete
PROPERTIES
    FailureStops
    Ends
