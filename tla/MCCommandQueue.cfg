\* An ordinary and a probe lane, two entries, one waiter, one reset each; all
\* entries have a lane timeout.
SPECIFICATION FairSpec
CONSTANTS
    Lane = {main, probe}
    ProbeLane = {probe}
    MaxEntries = 2
    MaxConcurrency = 2
    MaxGeneration = 1
    Waiter = {w1}
    TimeoutChoice = {TRUE}
INVARIANTS
    LaneInv
    NoIdleBacklog
    WaitersInformed
PROPERTIES
    StartsAsAllowed
    EveryCallReturns
CHECK_DEADLOCK FALSE
