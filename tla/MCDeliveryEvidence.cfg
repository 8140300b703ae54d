SPECIFICATION Spec
CONSTANTS
    Worker = {w1}
    Live = live
    MaxPayloads = 2
    MaxRetries = 1
    MaxCrashes = 0
    MaxFaults = 0
    IdentitylessSends = FALSE
PROPERTY
    EvidenceSurvives
CHECK_DEADLOCK FALSE
