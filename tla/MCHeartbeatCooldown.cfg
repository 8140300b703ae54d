SPECIFICATION Spec
CONSTANTS
    Target = {a}
    Priority = {1}
    Coalesce = {1}
    DefaultCoalesce = 1
    RetryDelay = 2
    Slot = {s1}
    MaxGeneration = 1
    MaxRequests = 2
    MaxThrows = 0
PROPERTY
    CooldownKept
CHECK_DEADLOCK FALSE
