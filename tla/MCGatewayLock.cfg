\* A gateway and a maintenance command on macOS or Windows, where process
\* inspection may fail.  The third start reuses a process id.
SPECIFICATION FairSpec
CONSTANTS
    g1 = g1 g2 = g2 d1 = d1 s1 = s1 s2 = s2 c1 = c1
    Proc = {g1, d1}
    Role <- RoleOf
    Multi = {d1}
    StateDir <- StateOf
    Config <- ConfigOf
    Pid = {1, 2}
    LegacyPid = 9
    LegacyConfig = c1
    NoPid = 0
    Platform = "other"
    ReadsMayFail = TRUE
    MaxStarts = 3
    MaxForeign = 1
INVARIANTS
    SingleOwner
    FilesMatchOwners
PROPERTIES
    OrphanIsReclaimed
CHECK_DEADLOCK FALSE
