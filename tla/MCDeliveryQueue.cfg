\* Two payloads, a live send and two drains, one crash, one failing database
\* call, two retries.
SPECIFICATION LiveSpec
CONSTANTS
    Worker = {w1, w2}
    Live = live
    MaxPayloads = 2
    MaxRetries = 2
    MaxCrashes = 1
    MaxFaults = 1
    IdentitylessSends = FALSE
INVARIANTS
    ClaimInv
    AcceptanceLeavesTrace
PROPERTIES
    KeepsPromise
    ReplaysEnd
CHECK_DEADLOCK FALSE
