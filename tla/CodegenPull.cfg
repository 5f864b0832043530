SPECIFICATION CodegenSpec
CONSTANTS
    Keys = {k1, k2}
    Hashes = {h1, h2}
    Absent = Absent
    PageLimit = 1
    EdgeWindow = 1
    MaxTime = 2
    MaxMoves = 2
    MaxPulls = 3
    MaxDeletes = 1
    MaxCrashes = 1
SYMMETRY PullSymmetry
INVARIANTS CodegenTypeOK VerifiedFilesMatch DriftReported
PROPERTIES PullHeals BootKeepsFiles
CHECK_DEADLOCK FALSE
