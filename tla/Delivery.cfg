SPECIFICATION DeliverySpec
CONSTANTS
    Changes = {c1, c2}
    Subs = {s1}
    Wants <- MCWants
    Runs = {}
    Ticks = {t1, t2}
    Copies = {k1}
    MaxTime = 5
    MaxCrashes = 1
    MaxOverlaps = 1
    MaxAttempts = 2
    BaseBackoff = 1
    Limit = 2
INVARIANTS DeliveryTypeOK RetryWindow
PROPERTY PostsAccounted
SYMMETRY DeliverySymmetry
