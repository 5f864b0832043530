SPECIFICATION ReadersSpec
CONSTANTS
    Runs = {r1}
    Ids = {1, 2, 3}
    Sections <- MCSections
    Limit = 1
    Lookback = 1
    MaxRun = 1
    Wait = 1
    MaxTime = 4
    MaxJobs = 3
    MaxWaits = 1
INVARIANTS ReadersTypeOK ExportCovers EveryChangeListed
PROPERTIES ListedOnce HeldPastLateOnly
CHECK_DEADLOCK FALSE
