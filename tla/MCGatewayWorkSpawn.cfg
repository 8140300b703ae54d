\* The root a queued task runs in, against the documentation of the fence.
SPECIFICATION WorkSpec
CONSTANTS
    Lane = {main}
    ProbeLane = {}
    MaxEntries = 2
    MaxConcurrency = 1
    MaxLaneGeneration = 1
    TimeoutChoice = {FALSE}
    Caller = {c1, c2}
    MaxRoots = 2
    MaxRetains = 0
    MaxAdmissionGeneration = 1
INVARIANTS
    AdmittedTaskMaySpawn
CHECK_DEADLOCK FALSE
