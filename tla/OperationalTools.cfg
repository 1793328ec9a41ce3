\* One request, two connectors, two overlapping connector API sessions.
SPECIFICATION Spec
CONSTANTS
    Requests = {r1}
    Connectors = {c1, c2}
    Sessions = {s1, s2}
    RequestTTL = 2
    ClaimTTL = 1
    MaxAttempts = 3
    None = None
    MaxTime = 3
    MaxCrashes = 1
SYMMETRY Symmetry
INVARIANTS
    AnsweredByLastClaim
    ExpiredOnlyWhenOverdue
    ConsumedPayloadErased
CHECK_DEADLOCK FALSE
