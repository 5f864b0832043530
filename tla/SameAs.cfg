SPECIFICATION FairSameAsSpec
CONSTANTS
    host = host
    maker = maker
    publisher = publisher
    h1 = h1
    h2 = h2
    m1 = m1
    m2 = m2
    dotted = dotted
    hyphened = hyphened
    other = other
    Models = {h1, h2, m1, m2}
    NoModel = NoModel
    Providers = {host, maker}
    ProviderOf <- MCProviderOf
    RawId <- MCRawId
    Names = {dotted, hyphened, other}
    Hyphened <- MCHyphened
    Namespaces = {host, maker, publisher}
    NoEvidence = NoEvidence
    Statements <- MCStatements
    Claims <- MCClaims
    Unlisted = Unlisted
    Opening <- MCOpening
    Pollers = {r1, r2}
    Slice = 1
    MaxMoves = 1
    MaxFaults = 1
    MaxOverlaps = 1
INVARIANT LinksToldOnce
PROPERTY LinksSettle
