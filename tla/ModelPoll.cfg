SPECIFICATION PollSpec
CONSTANTS
    p1 = p1
    p2 = p2
    dated = dated
    Pollers = {p1, p2}
    Models = {m1}
    Facts = {f1, f2}
    NoFacts = NoFacts
    Entries = {dated, undated}
    NoEntry = NoEntry
    StatedAt <- MCStatedAt
    MaxPolls = 3
    MaxCrashes = 1
SYMMETRY MCSymmetry
INVARIANTS PollTypeOK DeprecationChain PolledMatchesListing BirthAnnounced
CHECK_DEADLOCK FALSE
