SPECIFICATION Spec
CONSTANTS
    Worker = {w1}
    Live = live
    MaxPayloads = 2
    MaxRetries = 2
    MaxCrashes = 0
    MaxFaults = 0
    IdentitylessSends = TRUE
INVARIANT
    AtMostOnce
CHECK_DEADLOCK FALSE
