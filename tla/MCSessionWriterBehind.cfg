\* A callback of the store writer begins work of a session others work on.
CONSTANTS
    w1 = w1 w2 = w2 m1 = m1 m2 = m2
    Work = {w1, w2}
    Mutation = {m1}
    Identity = {1}
    Ids <- SharedIds
    InBand <- Outside
    WriterOwned = {w2}
    Abortable = {}
    MaxMaintenance = 0
SPECIFICATION Spec
INVARIANTS WriterNotBehindItself
