\* One lane, two entries, one caller, two roots, restart and suspension.
SPECIFICATION WorkSpec
CONSTANTS
    Lane = {main}
    ProbeLane = {}
    MaxEntries = 2
    MaxConcurrency = 1
    MaxLaneGeneration = 1
    TimeoutChoice = {TRUE}
    Caller = {c1}
    MaxRoots = 2
    MaxRetains = 0
    MaxAdmissionGeneration = 2
PROPERTIES
    DrainedTakesNoLaneWork
CHECK_DEADLOCK FALSE
