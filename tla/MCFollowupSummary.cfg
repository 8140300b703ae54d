\* Five messages overflow a queue of one while a summary waits.
CONSTANTS
    a = a b = b c = c e = e f = f z = z
    Msg = {a, b, c, e, f}
    Retry = {}
    Cancelable = {}
    Settings <- OneByOne
    Cap = 1
    MaxQueues = 1
    MaxTurns = 0
    MaxFails = 0
    MaxClears = 0
SPECIFICATION Spec
INVARIANT SummaryCountsAll
CHECK_DEADLOCK FALSE
