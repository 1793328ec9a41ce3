\* One document uploaded once; its worker may die once.
SPECIFICATION Spec
CONSTANTS
    Versions = {v1}
    Handlers = {h1}
    None = None
    MaxAttempts = 2
    MaxRequests = 1
    MaxCrashes = 1
PROPERTY RestartedJobsResume
CHECK_DEADLOCK FALSE
