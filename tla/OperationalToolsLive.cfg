\* Liveness: one request, two connectors (its own may be retired), fair handlers.
SPECIFICATION PolledSpec
CONSTANTS
    Requests = {r1}
    Connectors = {c1, c2}
    Sessions = {s1}
    RequestTTL = 2
    ClaimTTL = 1
    MaxAttempts = 3
    None = None
    MaxTime = 3
    MaxCrashes = 1
PROPERTIES
    WaitingEnds
    OpenRowsSettle
CHECK_DEADLOCK FALSE
