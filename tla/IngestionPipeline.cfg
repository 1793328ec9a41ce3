\* Two contents, two overlapping requests, two deaths of the worker; or a rebuild
\* that is pending, and one request more.
SPECIFICATION MCSpec
CONSTANTS
    Versions = {v1, v2}
    Handlers = {h1, h2}
    None = None
    MaxAttempts = 2
    MaxRequests = 2
    MaxCrashes = 2
INVARIANTS
    NoDanglingPoints
    OneVersionSearchable
PROPERTIES
    JobsSettle
    ProcessingEnds
CHECK_DEADLOCK FALSE
