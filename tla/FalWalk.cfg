SPECIFICATION FairWalkSpec
CONSTANTS
    N = 5
    Section <- MCSection
    FetchCap = 2
    ExtractCap = 1
    FailAbort = 2
    ExtractFails = TRUE
    MaxFailures = 2
    MaxTurnover = 2
    MaxCrashes = 1
INVARIANTS WalkTypeOK NoLeapfrog
PROPERTY EveryRowWalked
