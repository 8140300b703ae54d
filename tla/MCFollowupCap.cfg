\* Collected turns that are deferred.
CONSTANTS
    a = a b = b c = c e = e f = f z = z
    Msg = {a, b, c}
    Retry = {}
    Cancelable = {}
    Settings <- Collect
    Cap = 1
    MaxQueues = 1
    MaxTurns = 1
    MaxFails = 0
    MaxClears = 0
SPECIFICATION Spec
INVARIANT CapKept
CHECK_DEADLOCK FALSE
