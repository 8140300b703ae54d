\* A main, a nested and an unmanaged lane, four suspensions, one close and
\* start of the gateway, one reload.
SPECIFICATION FairSpec
CONSTANTS
    main = main nested = nested custom = custom r1 = r1 r2 = r2 r3 = r3 r4 = r4
    Lane = {main, nested, custom}
    Hot = {main}
    Managed = {main, nested}
    Request = {r1, r2, r3, r4}
    LaneOf <- EachKind
    Limit = {1}
    Ttl = 2
    MaxGeneration = 1
    MaxReloads = 1
INVARIANTS
    SuspensionInv
PROPERTIES
    NestedStaysSuspended
    LaneResumes
CHECK_DEADLOCK FALSE
