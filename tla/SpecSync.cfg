SPECIFICATION SyncSpec
CONSTANTS
    e1 = e1
    Endpoints = {e1, e2}
    Kinds = {"input", "stream"}
    Announced = {"input"}
    Hashes = {h1, h2}
    NoHash = NoHash
    Syncs = {r1, r2}
    Specs <- MCSpecs
    MaxRuns = 3
SYMMETRY SyncSymmetry
INVARIANTS SyncTypeOK SyncedMatchesSpec AddedExactlyOnce
PROPERTY ImplementsHistory
CHECK_DEADLOCK FALSE
