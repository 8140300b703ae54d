\* A timeout of three ticks, a grace period of two, time for several renewals.
SPECIFICATION TimeoutSpec
CONSTANTS
    TaskTimeout = 3
    AbortGrace = 2
    MaxTime = 12
INVARIANTS
    HeldWithinDeadline
    NothingLeftArmed
PROPERTIES
    TimeoutHasReason
CHECK_DEADLOCK FALSE
