\* Two targets with two requests each, two priorities, two handlers, one batch
\* that throws.
SPECIFICATION LiveSpec
CONSTANTS
    Target = {a, b}
    Priority = {1, 3}
    Coalesce = {1}
    DefaultCoalesce = 1
    RetryDelay = 2
    Slot = {s1, s2}
    MaxGeneration = 2
    MaxRequests = 2
    MaxThrows = 1
INVARIANTS
    WakeInv
    RunsAreBounded
PROPERTIES
    WakesAreKept
CHECK_DEADLOCK FALSE
