\* The release signal against its documentation.
SPECIFICATION TimeoutSpec
CONSTANTS
    TaskTimeout = 3
    AbortGrace = 2
    MaxTime = 12
INVARIANTS
    ReleaseEndsTask
CHECK_DEADLOCK FALSE
