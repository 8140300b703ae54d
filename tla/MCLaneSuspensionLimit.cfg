\* A reload between a suspension and its end.
CONSTANTS
    main = main nested = nested custom = custom r1 = r1 r2 = r2 r3 = r3 r4 = r4
    Lane = {main, nested}
    Hot = {main}
    Managed = {main, nested}
    Request = {r1}
    LaneOf <- OnlyMain
    Limit = {1, 2}
    Ttl = 1
    MaxGeneration = 0
    MaxReloads = 1
SPECIFICATION Spec
PROPERTY ResumesToConfigured
