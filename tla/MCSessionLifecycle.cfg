\* An abortable turn, a reset and an in-band rollover over a key and an id, a turn of
\* another session inside a writer's callback, store maintenance.
SPECIFICATION FairSpec
CONSTANTS
    w1 = w1 w2 = w2 m1 = m1 m2 = m2
    Work = {w1, w2}
    Mutation = {m1, m2}
    Identity = {1, 2, 3}
    Ids <- MixIds
    InBand <- Rollover
    WriterOwned = {w2}
    Abortable = {w1}
    MaxMaintenance = 1
INVARIANTS
    LeaseInv
    MutationInv
PROPERTIES
    ClosedAdmitsNothing
    EverybodySettles
