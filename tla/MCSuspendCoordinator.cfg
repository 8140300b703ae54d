\* Two call chains, two roots, one retained continuation, one restart or
\* reset, one waitForActiveGatewayRootWork and one prepare request at a time.
SPECIFICATION SuspendFairSpec
CONSTANTS
    Chain = {c1, c2}
    DrainWaiter = {w1}
    MaxRoots = 2
    MaxRetains = 1
    MaxGeneration = 2
    Request = {r1}
INVARIANTS
    RootsAreCounted
    FenceInv
    NoLostDrainCall
    NoOrphanFence
    SchedulerInv
    QuietWhileHeld
PROPERTIES
    DrainedStaysDrained
    GatewayComesBack
CHECK_DEADLOCK FALSE
