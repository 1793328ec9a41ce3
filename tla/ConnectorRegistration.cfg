\* Two tokens and two appliances, two handlers and the maintenance loop.  No
\* symmetry: the run checks liveness too.
SPECIFICATION FairSpec
CONSTANTS
    Tokens = {t1, t2}
    Instances = {i1, i2}
    Handlers = {h1, h2}
    Maintenance = m
    None = None
    Lifetime = 1
    Limit = 1
    MaxTime = 1
PROPERTIES
    ExpiryGetsRecorded
    TokensAreOneTime
CHECK_DEADLOCK FALSE
