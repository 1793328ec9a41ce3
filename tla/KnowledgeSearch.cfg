\* Searches over the pipeline of two contents, three requests, two at a time, and a
\* death of the worker: enough to reindex a version that is superseded meanwhile.
SPECIFICATION SearchSpec
CONSTANTS
    Versions = {v1, v2}
    Handlers = {h1, h2}
    None = None
    MaxAttempts = 1
    MaxRequests = 3
    MaxCrashes = 1
SYMMETRY Symmetry
INVARIANTS
    ResultsWereServed
    SearchableIsFound
CHECK_DEADLOCK FALSE
