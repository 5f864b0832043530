SPECIFICATION FanoutSpec
CONSTANTS
    Changes = {c1, c2}
    Subs = {s1}
    Wants <- MCWants
    Runs = {r1}
    Ticks = {t1, t2}
    Copies = {k1, k2, k3}
    MaxTime = 2
    MaxCrashes = 1
    MaxOverlaps = 1
INVARIANTS FanoutTypeOK NoTimelyChangeLost DuplicatesNeedAborts
SYMMETRY CopySymmetry
