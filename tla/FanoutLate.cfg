SPECIFICATION FanoutSpec
CONSTANTS
    Changes = {c1, c2}
    Subs = {s1}
    Wants <- MCWants
    Runs = {r1, r2}
    Ticks = {t1}
    Copies = {k1}
    MaxTime = 2
    MaxCrashes = 0
    MaxOverlaps = 0
INVARIANT NoChangeLost
