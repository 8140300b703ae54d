\* Two turns, three cron runs and two sent turns over lanes of one slot.
SPECIFICATION NestedFairSpec
CONSTANTS
    a = a b = b t1 = t1 t2 = t2 j1 = j1 j2 = j2 k1 = k1 x1 = x1 x2 = x2
    Session = {a, b}
    Run = {t1, t2, j1, j2, k1, x1, x2}
    Kind <- KindOf
    SessionOf <- InSession
    MainSlots = 1
    CronSlots = 1
INVARIANTS
    NestingInv
PROPERTIES
    EveryRunEnds
CHECK_DEADLOCK FALSE
