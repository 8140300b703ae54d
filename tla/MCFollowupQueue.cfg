\* Two messages, of which one can be canceled, and a stranded-reply retry in
\* a queue of one; another turn, a failure and a stop may come between.
SPECIFICATION FairSpec
CONSTANTS
    a = a b = b c = c e = e f = f z = z
    Msg = {a, b, z}
    Retry = {z}
    Cancelable = {a}
    Settings <- TwoWays
    Cap = 1
    MaxQueues = 2
    MaxTurns = 1
    MaxFails = 1
    MaxClears = 1
INVARIANTS
    QueueInv
    NoIdleBacklog
PROPERTIES
    PresentsRightly
    EverythingSettles
CHECK_DEADLOCK FALSE
