SPECIFICATION RequestsSpec
CONSTANTS
    r1 = r1
    r2 = r2
    r3 = r3
    k1 = k1
    ip = ip
    o1 = o1
    e1 = e1
    NoOwner = NoOwner
    Reqs = {r1, r2, r3}
    Callers = {k1, ip}
    OwnerOf <- MCOwnerOf
    Emails = {e1}
    AnonymousLimit = 1
    AuthenticatedLimit = 2
    Cap = 1
    MaxWindow = 1
    MaxArrivals = 4
SYMMETRY MCSymmetry
INVARIANTS RequestsTypeOK RateBound CapBound OneKeyPerAccount
CHECK_DEADLOCK FALSE
