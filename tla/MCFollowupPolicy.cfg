\* The drop policy changes while a summary is due.
CONSTANTS
    a = a b = b c = c e = e f = f z = z
    Msg = {a, b, c}
    Retry = {}
    Cancelable = {}
    Settings <- Switched
    Cap = 1
    MaxQueues = 1
    MaxTurns = 0
    MaxFails = 0
    MaxClears = 0
SPECIFICATION FairSpec
PROPERTY SummaryIsSent
CHECK_DEADLOCK FALSE
