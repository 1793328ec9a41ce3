\* Two handlers and the maintenance loop, any two of which overlap with stale rows
\* of every kind, and time enough to fall silent.  No symmetry: the run checks
\* liveness too.
SPECIFICATION FairSpec
CONSTANTS
    Handlers = {h1, h2}
    Maintenance = m
    Interval = 1
    Threshold = 2
    Never = Never
    MaxTime = 3
    MaxFailures = 2
    MaxOpen = 2
    Reports = {TRUE}
INVARIANTS
    NeverOvercounted
PROPERTIES
    RetirementShows
    SilenceIsNoticed
CHECK_DEADLOCK FALSE
