SPECIFICATION FairWebhooksSpec
CONSTANTS
    Changes = {c1}
    Subs = {s1}
    Wants <- MCWants
    Runs = {r1}
    Ticks = {t1}
    Copies = {k1, k2}
    MaxTime = 3
    MaxCrashes = 1
    MaxOverlaps = 0
    MaxAttempts = 2
    BaseBackoff = 1
    Limit = 1
PROPERTIES ImplementsFanout EventuallyDelivered
